------------------------ MODULE PlatformServicesProofs ------------------------
(***************************************************************************)
(* What the platform and the agent's own services promise for any number   *)
(* of processes, callers, devices, chats, tasks, messages and files, and   *)
(* any bounds: the ids of SnowflakeIds, the limits of ConnectionCap,       *)
(* RateWindows and SlidingWindow, the fetches of BulkFetch, the documents  *)
(* of Knowledge, the tasks of AgentBoard, the evaluations of AgentTriggers, *)
(* the handles of Handles and the tokens of Sessions.  Each has a section: *)
(* its invariant, one lemma per action, and its theorem.                   *)
(***************************************************************************)
EXTENDS MCPlatformServices, FiniteSetTheorems, SequenceTheorems, WellFoundedInduction, TLAPS

-----------------------------------------------------------------------------
(***************************************************************************)
(* Sequences and sets of numbers: what is left when an element is taken    *)
(* out, and that a set of numbers has a least one.                         *)
(***************************************************************************)

\* RemoveAt keeps every other element, in its order.
LEMMA RemoveAtShape ==
  ASSUME NEW S, NEW s \in Seq(S), NEW k \in 1..Len(s)
  PROVE  /\ RemoveAt(s, k) \in Seq(S) /\ Len(RemoveAt(s, k)) = Len(s) - 1 /\ Len(s) \in Nat
         /\ \A i \in 1..Len(s) - 1 : RemoveAt(s, k)[i] = IF i < k THEN s[i] ELSE s[i + 1]
<1> DEFINE r == RemoveAt(s, k)
           x == SubSeq(s, 1, k - 1)
           y == SubSeq(s, k + 1, Len(s))
<1>1. /\ x \in Seq(S) /\ Len(x) = k - 1 /\ \A i \in 1..k - 1 : x[i] = s[i]
  OBVIOUS
<1>2. /\ y \in Seq(S) /\ Len(y) = Len(s) - k /\ \A i \in 1..Len(s) - k : y[i] = s[k + i]
  OBVIOUS
<1>0. r = x \o y
  BY DEF RemoveAt
<1> HIDE DEF x, y
<1>3. /\ x \o y \in Seq(S) /\ Len(x \o y) = Len(s) - 1
      /\ \A i \in 1..Len(s) - 1 : (x \o y)[i] = IF i <= Len(x) THEN x[i] ELSE y[i - Len(x)]
  <2>1. /\ x \o y \in Seq(S) /\ Len(x \o y) = Len(x) + Len(y)
        /\ \A i \in 1..Len(x) + Len(y) : (x \o y)[i] = IF i <= Len(x) THEN x[i] ELSE y[i - Len(x)]
    BY <1>1, <1>2, ConcatProperties
  <2>2. Len(x) + Len(y) = Len(s) - 1
    BY <1>1, <1>2
  <2>3. QED
    BY <2>1, <2>2
<1>4. \A i \in 1..Len(s) - 1 : (x \o y)[i] = IF i < k THEN s[i] ELSE s[i + 1]
  <2> TAKE i \in 1..Len(s) - 1
  <2>1. CASE i < k
    <3>1. i \in 1..k - 1 /\ i <= Len(x)
      BY <1>1, <2>1
    <3>2. QED
      BY <3>1, <1>1, <1>3, <2>1
  <2>2. CASE ~(i < k)
    <3>1. i - (k - 1) \in 1..Len(s) - k /\ ~(i <= Len(x)) /\ k + (i - (k - 1)) = i + 1
      BY <1>1, <2>2
    <3>2. (x \o y)[i] = y[i - Len(x)] /\ Len(x) = k - 1
      BY <3>1, <1>1, <1>3
    <3>3. y[i - (k - 1)] = s[k + (i - (k - 1))]
      BY <3>1, <1>2
    <3>4. QED
      BY <3>1, <3>2, <3>3, <2>2
  <2>3. QED
    BY <2>1, <2>2
<1>6. Len(s) \in Nat
  OBVIOUS
<1> HIDE DEF r
<1>7. r \in Seq(S) /\ Len(r) = Len(s) - 1 /\ \A i \in 1..Len(s) - 1 : r[i] = IF i < k THEN s[i] ELSE s[i + 1]
  BY <1>0, <1>3, <1>4
<1>8. QED
  BY <1>6, <1>7 DEF r

\* A set of numbers that has a member has a least one.
LEMMA LeastExists ==
  ASSUME NEW N, N \subseteq Nat, N # {}
  PROVE  \E n \in N : \A m \in N : n <= m
<1>1. PICK n \in N : \A y \in N : <<y, n>> \notin OpToRel(<, Nat)
  BY WFMin, NatLessThanWellFounded
<1>2. \A y \in N : n \in Nat /\ y \in Nat /\ ~(y < n)
  BY <1>1, Zenon DEF OpToRel
<1>3. QED
  BY <1>2

\* What is left of a sequence after the first d is taken out.
LEMMA FirstLeaves ==
  ASSUME NEW S, NEW s \in Seq(S), NEW d
  PROVE  RemoveFirst(s, d) \in Seq(S) /\ ToSet(RemoveFirst(s, d)) \subseteq ToSet(s)
<1>1. CASE \E i \in 1..Len(s) : s[i] = d
  <2> DEFINE hits == {i \in 1..Len(s) : s[i] = d}
             k == Min(hits)
  <2>1. PICK n \in hits : \A m \in hits : n <= m
    <3>1. hits \subseteq Nat /\ hits # {}
      BY <1>1
    <3>2. QED
      BY <3>1, LeastExists
  <2>2. k \in hits
    BY <2>1 DEF Min
  <2>3. RemoveFirst(s, d) = RemoveAt(s, k)
    BY <1>1 DEF RemoveFirst, SelectInSeq
  <2> HIDE DEF k
  <2>4. k \in 1..Len(s)
    BY <2>2
  <2>5. /\ RemoveAt(s, k) \in Seq(S) /\ Len(RemoveAt(s, k)) = Len(s) - 1 /\ Len(s) \in Nat
        /\ \A i \in 1..Len(s) - 1 : RemoveAt(s, k)[i] = IF i < k THEN s[i] ELSE s[i + 1]
    BY <2>4, RemoveAtShape
  <2>6. ToSet(RemoveAt(s, k)) \subseteq ToSet(s)
    <3> DEFINE r == RemoveAt(s, k)
    <3>1. r \in Seq(S) /\ Len(r) = Len(s) - 1
      BY <2>5
    <3>2. \A i \in 1..Len(s) - 1 : \E j \in 1..Len(s) : r[i] = s[j]
      <4> TAKE i \in 1..Len(s) - 1
      <4>1. i \in 1..Len(s) /\ i + 1 \in 1..Len(s)
        BY <2>5
      <4>2. QED
        BY <2>5, <4>1
    <3> HIDE DEF r
    <3>3. ToSet(r) = {r[i] : i \in 1..Len(s) - 1} /\ ToSet(s) = {s[j] : j \in 1..Len(s)}
      BY <3>1 DEF ToSet
    <3>4. QED
      BY <3>2, <3>3 DEF r
  <2>7. QED
    BY <2>3, <2>5, <2>6
<1>2. CASE ~\E i \in 1..Len(s) : s[i] = d
  BY <1>2 DEF RemoveFirst
<1>3. QED
  BY <1>1, <1>2

\* Who is in a sequence after one more was appended, and the first was dropped.
LEMMA AppendAdds ==
  ASSUME NEW S, NEW s \in Seq(S), NEW d \in S
  PROVE  Append(s, d) \in Seq(S) /\ ToSet(Append(s, d)) = ToSet(s) \cup {d}
<1>1. /\ Append(s, d) \in Seq(S) /\ Len(Append(s, d)) = Len(s) + 1 /\ Len(s) \in Nat
      /\ \A i \in 1..Len(s) : Append(s, d)[i] = s[i]
      /\ Append(s, d)[Len(s) + 1] = d
  BY AppendProperties
<1> DEFINE r == Append(s, d)
<1> HIDE DEF r
<1>2. ToSet(r) = {r[i] : i \in 1..Len(s) + 1} /\ ToSet(s) = {s[i] : i \in 1..Len(s)}
  BY <1>1 DEF ToSet, r
<1>3. \A i \in 1..Len(s) + 1 : i \in 1..Len(s) \/ i = Len(s) + 1
  BY <1>1
<1>4. \A i \in 1..Len(s) : i \in 1..Len(s) + 1
  BY <1>1
<1>5. Len(s) + 1 \in 1..Len(s) + 1
  BY <1>1
<1>6. /\ \A i \in 1..Len(s) : r[i] = s[i]
      /\ r[Len(s) + 1] = d
  BY <1>1 DEF r
<1>7. ToSet(r) = ToSet(s) \cup {d}
  BY <1>2, <1>3, <1>4, <1>5, <1>6, Zenon
<1>8. QED
  BY <1>1, <1>7 DEF r

LEMMA TailKeeps ==
  ASSUME NEW S, NEW s \in Seq(S), Len(s) > 0
  PROVE  Tail(s) \in Seq(S) /\ ToSet(Tail(s)) \subseteq ToSet(s)
<1>1. /\ Tail(s) \in Seq(S) /\ Len(Tail(s)) = Len(s) - 1 /\ Len(s) \in Nat
      /\ \A i \in 1..Len(s) - 1 : Tail(s)[i] = s[i + 1]
  BY HeadTailProperties
<1> DEFINE r == Tail(s)
<1> HIDE DEF r
<1>2. ToSet(r) = {r[i] : i \in 1..Len(s) - 1} /\ ToSet(s) = {s[i] : i \in 1..Len(s)}
  <2>1. Len(r) = Len(s) - 1 /\ r \in Seq(S)
    BY <1>1 DEF r
  <2>2. DOMAIN r = 1..Len(s) - 1 /\ DOMAIN s = 1..Len(s)
    BY <2>1
  <2>3. QED
    BY <2>2 DEF ToSet
<1>3. \A i \in 1..Len(s) - 1 : i + 1 \in 1..Len(s) /\ r[i] = s[i + 1]
  BY <1>1 DEF r
<1>4. QED
  BY <1>1, <1>2, <1>3 DEF r

-----------------------------------------------------------------------------
(***************************************************************************)
(* Ids.  Within one life of a process every id it returned is at most the  *)
(* state it keeps, and whoever moves that state moves it forward: the lock *)
(* and the compare-and-swap both make sure that the state they move is the *)
(* one they looked at.                                                     *)
(***************************************************************************)

\* The order of ids and of generator states.
Before(a, b) == a.ts < b.ts \/ (a.ts = b.ts /\ a.seq < b.seq)
NotAfter(a, b) == Before(a, b) \/ (a.ts = b.ts /\ a.seq = b.seq)

IdEntry == [ts : Millis, node : {MachineOf[p] : p \in Processes}, seq : 0..SeqSpace - 1,
          by : Processes, life : 0..Restarts]

IdsTyped ==
    /\ millis \in Millis /\ last \in [Processes -> States]
    /\ lockHolder \in [Processes -> Minters \cup {"free"}]
    /\ read \in [Minters -> States \cup {NoState}]
    /\ made \in [Minters -> States \cup {NoState}]
    /\ minted \in Seq(IdEntry)
    /\ stepped \in 0..ClockSteps /\ restarted \in [Processes -> 0..Restarts]

\* Each id carries its process's machine, and the ids of the present life are
\* not after the process's state.
Covered ==
    \A i \in 1..Len(minted) :
        /\ minted[i].node = MachineOf[minted[i].by]
        /\ minted[i].life <= restarted[minted[i].by]
        /\ minted[i].life = restarted[minted[i].by] => NotAfter(minted[i], last[minted[i].by])

\* The state a thread of the service is about to swap in comes after the one
\* it has read, and is an id.
MadeLater ==
    \A m \in Minters :
        made[m] # NoState => read[m] \in States /\ Before(read[m], made[m]) /\ made[m].ts \in Millis

IdsInv == IdsTyped /\ Covered /\ MadeLater /\ IdsUnique

-----------------------------------------------------------------------------
LEMMA Ranges ==
    /\ Millis \subseteq Nat
    /\ \A s \in States : s.ts \in Int /\ s.ts >= -1 /\ s.seq \in Nat
    /\ NoState \notin States
    /\ Fresh \in States
    /\ \A m \in Minters : ProcOf[m] \in Processes
BY IdsAssumption DEF Millis, States, NoState, Fresh, Processes

LEMMA EntryRanges ==
    \A e \in IdEntry : /\ e.ts \in Millis /\ e.ts \in Int /\ e.seq \in Int
                     /\ e.by \in Processes /\ e.life \in Nat
BY IdsAssumption DEF IdEntry, Millis

\* The state after one more id is a later one.
LEMMA NextIsLater ==
    ASSUME NEW s \in States, NEW now \in Millis, now >= s.ts, ~Exhausted(s, now)
    PROVE  /\ NextState(s, now) \in States
           /\ NextState(s, now).ts \in Millis
           /\ Before(s, NextState(s, now))
<1>1. now \in Nat /\ s.ts \in Int /\ s.seq \in 0..SeqSpace - 1 /\ SeqSpace \in Nat \ {0}
  BY IdsAssumption DEF States, Millis
<1>2. CASE now # s.ts
  <2>1. NextState(s, now) = [ts |-> now, seq |-> 0]
    BY <1>2 DEF NextState
  <2> QED
    BY <1>1, <1>2, <2>1 DEF Before, States
<1>3. CASE now = s.ts /\ s.seq + 1 < SeqSpace
  <2>1. NextState(s, now) = [ts |-> now, seq |-> s.seq + 1]
    BY <1>3 DEF NextState
  <2> QED
    BY <1>1, <1>3, <2>1 DEF Before, States
<1>4. CASE now = s.ts /\ ~(s.seq + 1 < SeqSpace)
  <2>1. NextState(s, now) = [ts |-> -1, seq |-> 0]
    BY <1>4 DEF NextState
  <2> QED
    BY <2>1 DEF Exhausted
<1> QED
  BY <1>2, <1>3, <1>4

LEMMA OrderIsTransitive ==
    ASSUME NEW a, NEW b, NEW c, a.ts \in Int, b.ts \in Int, c.ts \in Int,
           a.seq \in Int, b.seq \in Int, c.seq \in Int, NotAfter(a, b), Before(b, c)
    PROVE  Before(a, c)
BY DEF NotAfter, Before

(***************************************************************************)
(* A process that moves its state forward and returns the new state as an  *)
(* id keeps all that the ids promise.                                      *)
(***************************************************************************)
LEMMA MintStep ==
    ASSUME IdsTyped, Covered, IdsUnique, NEW p \in Processes, NEW s \in States, s.ts \in Millis,
           Before(last[p], s), last' = [last EXCEPT ![p] = s], Mints(p, s), UNCHANGED restarted
    PROVE  minted' \in Seq(IdEntry) /\ Covered' /\ IdsUnique'
<1> DEFINE e == [ts |-> s.ts, node |-> MachineOf[p], seq |-> s.seq, by |-> p, life |-> restarted[p]]
           n == Len(minted)
<1>1. e \in IdEntry
  BY DEF IdsTyped, IdEntry, States
<1>2. minted' = Append(minted, e) /\ minted \in Seq(IdEntry) /\ n \in Nat
  BY DEF Mints, IdsTyped
<1>3. minted' \in Seq(IdEntry) /\ Len(minted') = n + 1
  BY <1>1, <1>2
<1>4. minted'[n + 1] = e /\ \A i \in 1..n : minted'[i] = minted[i] /\ minted[i] \in IdEntry
  BY <1>1, <1>2
<1>5. e.ts = s.ts /\ e.seq = s.seq /\ e.by = p /\ e.life = restarted[p] /\ e.node = MachineOf[p]
  OBVIOUS
<1>6. last[p] \in States /\ restarted[p] \in Nat
  BY IdsAssumption DEF IdsTyped
<1> HIDE DEF e, n
<1>7. ASSUME NEW i \in 1..n
      PROVE  /\ minted[i].node = MachineOf[minted[i].by]
             /\ minted[i].life <= restarted[minted[i].by]
             /\ minted[i].life = restarted[minted[i].by] => NotAfter(minted[i], last[minted[i].by])
  BY DEF Covered, n
<1>8. ASSUME NEW i \in 1..n, minted[i].by = p, minted[i].life = restarted[p]
      PROVE  Before(minted[i], s)
  <2>1. NotAfter(minted[i], last[p])
    BY <1>7, <1>8
  <2>2. minted[i].ts \in Int /\ minted[i].seq \in Int
    BY <1>4, EntryRanges
  <2> QED
    BY <1>6, <2>1, <2>2, Ranges, OrderIsTransitive
<1>9. Covered'
  <2>1. ASSUME NEW i \in 1..n
        PROVE  /\ minted[i].node = MachineOf[minted[i].by]
               /\ minted[i].life <= restarted'[minted[i].by]
               /\ minted[i].life = restarted'[minted[i].by] => NotAfter(minted[i], last'[minted[i].by])
    <3>1. CASE minted[i].by = p
      <4>1. last'[p] = s
        BY DEF IdsTyped
      <4> QED
        BY <1>7, <1>8, <3>1, <4>1 DEF NotAfter
    <3>2. CASE minted[i].by # p
      <4>1. minted[i].by \in Processes
        BY <1>4 DEF IdEntry
      <4>2. last'[minted[i].by] = last[minted[i].by]
        BY <3>2, <4>1 DEF IdsTyped
      <4> QED
        BY <1>7, <4>2
    <3> QED
      BY <3>1, <3>2
  <2>2. /\ e.node = MachineOf[e.by]
        /\ e.life <= restarted'[e.by]
        /\ e.life = restarted'[e.by] => NotAfter(e, last'[e.by])
    <3>1. last'[p] = s
      BY DEF IdsTyped
    <3> QED
      BY <1>5, <1>6, <3>1 DEF NotAfter
  <2>3. \A i \in 1..Len(minted') : i \in 1..n \/ i = n + 1
    BY <1>2, <1>3
  <2> QED
    BY <1>4, <2>1, <2>2, <2>3 DEF Covered
<1>10. IdsUnique'
  <2> SUFFICES ASSUME NEW i \in 1..Len(minted'), NEW j \in 1..Len(minted'), i < j
               PROVE  LET a == minted'[i]
                          b == minted'[j]
                      IN  /\ a.by # b.by /\ MachineOf[a.by] # MachineOf[b.by] =>
                                <<a.ts, a.node, a.seq>> # <<b.ts, b.node, b.seq>>
                          /\ a.by = b.by /\ (a.life = b.life \/ b.ts > a.ts) =>
                                a.ts < b.ts \/ (a.ts = b.ts /\ a.seq < b.seq)
    BY DEF IdsUnique
  <2>1. i \in 1..n /\ (j \in 1..n \/ j = n + 1)
    BY <1>2, <1>3
  <2>2. CASE j \in 1..n
    BY <1>4, <2>1, <2>2 DEF IdsUnique, n
  <2>3. CASE j = n + 1
    <3>1. minted'[i] = minted[i] /\ minted'[j] = e /\ minted[i].node = MachineOf[minted[i].by]
      BY <1>4, <1>7, <2>1, <2>3
    <3>2. minted[i].by = p /\ minted[i].life = restarted[p] => Before(minted[i], s)
      BY <1>8, <2>1
    <3>3. minted[i].ts \in Int /\ s.ts \in Int
      BY <1>4, <2>1, Ranges, EntryRanges
    <3> QED
      BY <1>5, <3>1, <3>2, <3>3 DEF Before
  <2> QED
    BY <2>1, <2>2, <2>3
<1> QED
  BY <1>3, <1>9, <1>10
\* A step that returns no id keeps the ids' promises, as long as no process
\* forgets its state within a life.
LEMMA QuietStep ==
    ASSUME IdsTyped, Covered, IdsUnique, UNCHANGED <<last, minted, restarted>>
    PROVE  Covered' /\ IdsUnique'
BY DEF Covered, IdsUnique

LEMMA LocalMints ==
    ASSUME IdsInv, NEW m \in Minters, MintLocally(m) \/ WaitEnds(m)
    PROVE  IdsInv'
<1> DEFINE p == ProcOf[m]
<1>1. p \in Processes /\ last[p] \in States /\ millis \in Millis
  BY Ranges DEF IdsInv, IdsTyped
<1>2. UNCHANGED <<millis, read, made, stepped, restarted>>
  BY DEF MintLocally, WaitEnds
<1>3. MadeLater'
  BY <1>2 DEF IdsInv, MadeLater
<1> HIDE DEF p
<1>4. ASSUME NEW s \in States, s.ts \in Millis, Before(last[p], s), last' = [last EXCEPT ![p] = s],
             Mints(p, s), lockHolder' \in [Processes -> Minters \cup {"free"}]
      PROVE  IdsInv'
  <2>1. minted' \in Seq(IdEntry) /\ Covered' /\ IdsUnique'
    BY <1>1, <1>2, <1>4, MintStep DEF IdsInv
  <2>2. IdsTyped'
    BY <1>1, <1>2, <1>4, <2>1 DEF IdsInv, IdsTyped
  <2> QED
    BY <1>3, <2>1, <2>2 DEF IdsInv
<1>5. CASE MintLocally(m) /\ Exhausted(last[p], millis)
  <2>1. UNCHANGED <<last, minted>> /\ lockHolder' = [lockHolder EXCEPT ![p] = m]
    BY <1>5 DEF MintLocally, p
  <2>2. IdsTyped'
    BY <1>2, <2>1 DEF IdsInv, IdsTyped
  <2> QED
    BY <1>2, <1>3, <2>1, <2>2, QuietStep DEF IdsInv
<1>6. CASE MintLocally(m) /\ ~Exhausted(last[p], millis)
  <2> DEFINE s == NextState(last[p], millis)
  <2>1. /\ millis >= last[p].ts /\ last' = [last EXCEPT ![p] = s]
        /\ Mints(p, last'[p]) /\ lockHolder' = lockHolder
    BY <1>6 DEF MintLocally, p
  <2>2. s \in States /\ s.ts \in Millis /\ Before(last[p], s)
    BY <1>1, <1>6, <2>1, NextIsLater
  <2> HIDE DEF s
  <2>3. last'[p] = s
    BY <1>1, <2>1 DEF IdsInv, IdsTyped
  <2> QED
    BY <1>4, <2>1, <2>2, <2>3 DEF IdsInv, IdsTyped
<1>7. CASE WaitEnds(m)
  <2> DEFINE s == [ts |-> millis, seq |-> 0]
  <2>1. /\ millis > last[p].ts /\ last' = [last EXCEPT ![p] = s]
        /\ Mints(p, last'[p]) /\ lockHolder' = [lockHolder EXCEPT ![p] = "free"]
    BY <1>7 DEF WaitEnds, p
  <2>2. s \in States /\ s.ts \in Millis /\ Before(last[p], s)
    BY <1>1, <2>1, IdsAssumption DEF States, Before, Millis
  <2> HIDE DEF s
  <2>3. last'[p] = s
    BY <1>1, <2>1 DEF IdsInv, IdsTyped
  <2>4. lockHolder' \in [Processes -> Minters \cup {"free"}]
    BY <2>1 DEF IdsInv, IdsTyped
  <2> QED
    BY <1>4, <2>1, <2>2, <2>3, <2>4
<1> QED
  BY <1>5, <1>6, <1>7

LEMMA ServiceMints ==
    ASSUME IdsInv, NEW m \in Minters, LoadState(m) \/ FormState(m) \/ Swap(m)
    PROVE  IdsInv'
<1> DEFINE p == ProcOf[m]
<1>1. /\ p \in Processes /\ last[p] \in States /\ last[p] # NoState /\ millis \in Millis
      /\ read[m] \in States \cup {NoState} /\ made[m] \in States \cup {NoState}
  BY Ranges DEF IdsInv, IdsTyped
<1> HIDE DEF p
<1>2. CASE LoadState(m)
  <2>1. /\ read' = [read EXCEPT ![m] = last[p]] /\ read[m] = NoState
        /\ UNCHANGED <<millis, last, lockHolder, made, minted, stepped, restarted>>
    BY <1>2 DEF LoadState, p
  <2>2. IdsTyped'
    BY <1>1, <2>1 DEF IdsInv, IdsTyped
  <2>3. MadeLater'
    BY <2>1, Ranges DEF IdsInv, IdsTyped, MadeLater
  <2> QED
    BY <2>1, <2>2, <2>3, QuietStep DEF IdsInv
<1>3. CASE FormState(m)
  <2> DEFINE s == NextState(read[m], millis)
  <2>1. /\ made' = [made EXCEPT ![m] = s] /\ read[m] \in States
        /\ millis >= read[m].ts /\ ~Exhausted(read[m], millis)
        /\ UNCHANGED <<millis, last, lockHolder, read, minted, stepped, restarted>>
    BY <1>1, <1>3 DEF FormState
  <2>2. s \in States /\ s.ts \in Millis /\ Before(read[m], s)
    BY <1>1, <2>1, NextIsLater
  <2> HIDE DEF s
  <2>3. IdsTyped'
    BY <2>1, <2>2 DEF IdsInv, IdsTyped
  <2>4. MadeLater'
    BY <2>1, <2>2 DEF IdsInv, IdsTyped, MadeLater
  <2> QED
    BY <2>1, <2>3, <2>4, QuietStep DEF IdsInv
<1>4. CASE Swap(m) /\ Unchanged(m)
  <2>1. /\ made[m] # NoState /\ last[p] = read[m] /\ last' = [last EXCEPT ![p] = made[m]]
        /\ Mints(p, made[m]) /\ read' = [read EXCEPT ![m] = NoState]
        /\ made' = [made EXCEPT ![m] = NoState]
        /\ UNCHANGED <<millis, lockHolder, stepped, restarted>>
    BY <1>4 DEF Swap, Unchanged, p
  <2>2. made[m] \in States /\ made[m].ts \in Millis /\ Before(last[p], made[m])
    BY <1>1, <2>1 DEF IdsInv, MadeLater
  <2>3. minted' \in Seq(IdEntry) /\ Covered' /\ IdsUnique'
    BY <1>1, <2>1, <2>2, MintStep DEF IdsInv
  <2>4. IdsTyped'
    BY <1>1, <2>1, <2>2, <2>3 DEF IdsInv, IdsTyped
  <2>5. MadeLater'
    BY <2>1 DEF IdsInv, IdsTyped, MadeLater
  <2> QED
    BY <2>3, <2>4, <2>5 DEF IdsInv
<1>5. CASE Swap(m) /\ ~Unchanged(m)
  <2>1. /\ read' = [read EXCEPT ![m] = last[p]] /\ made' = [made EXCEPT ![m] = NoState]
        /\ UNCHANGED <<millis, last, minted, lockHolder, stepped, restarted>>
    BY <1>5 DEF Swap, p
  <2>2. IdsTyped'
    BY <1>1, <2>1 DEF IdsInv, IdsTyped
  <2>3. MadeLater'
    BY <2>1 DEF IdsInv, IdsTyped, MadeLater
  <2> QED
    BY <2>1, <2>2, <2>3, QuietStep DEF IdsInv
<1> QED
  BY <1>2, <1>3, <1>4, <1>5

\* A restart forgets the state and begins a life with no ids.
LEMMA RestartForgets ==
    ASSUME IdsInv, NEW p \in Processes, ProcessRestarts(p)
    PROVE  IdsInv'
<1>1. /\ restarted' = [restarted EXCEPT ![p] = @ + 1] /\ restarted[p] < Restarts
      /\ last' = [last EXCEPT ![p] = Fresh] /\ lockHolder' = [lockHolder EXCEPT ![p] = "free"]
      /\ UNCHANGED <<millis, minted, stepped>>
  BY DEF ProcessRestarts
<1>2. \A m \in Minters :
         \/ read'[m] = NoState /\ made'[m] = NoState
         \/ read'[m] = read[m] /\ made'[m] = made[m]
  BY DEF ProcessRestarts
<1>3. read' \in [Minters -> States \cup {NoState}] /\ made' \in [Minters -> States \cup {NoState}]
  BY DEF ProcessRestarts, IdsInv, IdsTyped
<1>4. IdsTyped'
  BY <1>1, <1>3, Ranges, IdsAssumption DEF IdsInv, IdsTyped
<1>5. MadeLater'
  BY <1>2 DEF IdsInv, MadeLater
<1>6. Covered'
  <2>1. ASSUME NEW i \in 1..Len(minted)
        PROVE  /\ minted[i].node = MachineOf[minted[i].by]
               /\ minted[i].life <= restarted'[minted[i].by]
               /\ minted[i].life = restarted'[minted[i].by] => NotAfter(minted[i], last'[minted[i].by])
    <3>1. minted[i] \in IdEntry /\ minted[i].by \in Processes /\ minted[i].life \in Nat
      <4>1. minted[i] \in IdEntry
        BY DEF IdsInv, IdsTyped
      <4> QED
        BY <4>1, EntryRanges
    <3>2. restarted \in [Processes -> Nat]
      BY IdsAssumption DEF IdsInv, IdsTyped
    <3>3. CASE minted[i].by = p
      BY <1>1, <3>1, <3>2, <3>3 DEF IdsInv, Covered
    <3>4. CASE minted[i].by # p
      <4>1. last'[minted[i].by] = last[minted[i].by] /\ restarted'[minted[i].by] = restarted[minted[i].by]
        BY <1>1, <3>1, <3>2, <3>4 DEF IdsInv, IdsTyped
      <4> QED
        BY <4>1 DEF IdsInv, Covered
    <3> QED
      BY <3>3, <3>4
  <2> QED
    BY <1>1, <2>1 DEF Covered
<1>7. IdsUnique'
  BY <1>1 DEF IdsInv, IdsUnique
<1> QED
  BY <1>4, <1>5, <1>6, <1>7 DEF IdsInv

LEMMA IdsInvStep == IdsInv /\ [IdsNext]_idVars => IdsInv'
<1> SUFFICES ASSUME IdsInv, [IdsNext]_idVars PROVE IdsInv'
  OBVIOUS
<1>1. ASSUME NEW m \in Minters, MintLocally(m) \/ WaitEnds(m) \/ LoadState(m) \/ FormState(m) \/ Swap(m)
      PROVE  IdsInv'
  BY <1>1, LocalMints, ServiceMints
<1>2. ASSUME NEW p \in Processes, ProcessRestarts(p)
      PROVE  IdsInv'
  BY <1>2, RestartForgets
<1>3. CASE MillisPass \/ ClockStepsBack \/ UNCHANGED idVars
  <2>1. UNCHANGED <<last, lockHolder, read, made, minted, restarted>>
    BY <1>3 DEF MillisPass, ClockStepsBack, idVars
  <2>2. millis' \in Millis /\ stepped' \in 0..ClockSteps
    BY <1>3, IdsAssumption DEF MillisPass, ClockStepsBack, idVars, IdsInv, IdsTyped, Millis
  <2>3. IdsTyped'
    BY <2>1, <2>2 DEF IdsInv, IdsTyped
  <2>4. MadeLater'
    BY <2>1 DEF IdsInv, MadeLater
  <2> QED
    BY <2>1, <2>3, <2>4, QuietStep DEF IdsInv
<1> QED
  BY <1>1, <1>2, <1>3 DEF IdsNext

\* No two ids are equal and a process returns them in increasing order, but
\* with a shared machine id or across a restart that a slow clock follows.
THEOREM IdsHoldAlways == IdsSpec => []IdsHold
<1>1. IdsInit => IdsInv
  <2> SUFFICES ASSUME IdsInit PROVE IdsInv
    OBVIOUS
  <2>1. minted = <<>> /\ Len(minted) = 0
    BY DEF IdsInit
  <2>2. IdsTyped
    BY <2>1, Ranges, IdsAssumption DEF IdsInit, IdsTyped, Millis
  <2>3. MadeLater
    BY DEF IdsInit, MadeLater
  <2> QED
    BY <2>1, <2>2, <2>3 DEF IdsInv, Covered, IdsUnique
<1>2. IdsInv => IdsHold
  <2> SUFFICES ASSUME IdsInv PROVE IdsHold
    OBVIOUS
  <2>1. ASSUME NEW i \in 1..Len(minted)
        PROVE  minted[i].ts \in Millis /\ minted[i].by \in Processes
    <3>1. minted[i] \in IdEntry
      BY DEF IdsInv, IdsTyped
    <3> QED
      BY <3>1, EntryRanges
  <2> QED
    BY <2>1 DEF IdsInv, IdsTyped, IdsHold, IdsTypeOK
<1> QED
  BY <1>1, <1>2, IdsInvStep, PTL DEF IdsSpec

-----------------------------------------------------------------------------
(***************************************************************************)
(* Connection slots.  A device that was let in has a slot, or somebody is  *)
(* about to tell it to go.                                                 *)
(***************************************************************************)

\* A connection that is not on its way out has a slot.
SlotsHold ==
    /\ Len(registry) <= MaxDevices
    /\ \A d \in Devices : stage[d] = "new" => d \notin ToSet(registry)
    /\ \A d \in Devices : stage[d] # "registered" => evicting[d] = {}
    /\ \A d \in Devices : stage[d] \in {"registered", "told", "open"} =>
          \/ d \in ToSet(registry) \cup kicks \cup cancelled \cup missed
          \/ \E e \in Devices : d \in evicting[e]

CapInv == CapTypeOK /\ SlotsHold

LEMMA RegistrationHolds ==
  ASSUME CapInv, NEW d \in Devices, stage[d] = "new"
  PROVE  LET new == Registration(d) IN
         /\ new.kept \in Seq(Devices) /\ IsInjective(new.kept) /\ Len(new.kept) <= MaxDevices
         /\ new.out \subseteq Devices
         /\ ToSet(new.kept) \cup new.out = ToSet(registry) \cup {d}
<1> DEFINE all == Append(registry, d)
           over == IF Len(all) > MaxDevices THEN Len(all) - MaxDevices ELSE 0
           held == SubSeq(all, over + 1, Len(all))
           leaving == {all[i] : i \in 1..over}
<1>1. /\ registry \in Seq(Devices) /\ IsInjective(registry) /\ d \notin ToSet(registry)
      /\ Len(registry) \in Nat /\ MaxDevices \in Nat
  BY CapAssumption DEF CapInv, CapTypeOK, SlotsHold
<1>2. /\ all \in Seq(Devices) /\ Len(all) = Len(registry) + 1
      /\ \A i \in 1..Len(registry) : all[i] = registry[i]
      /\ all[Len(registry) + 1] = d
  BY <1>1
<1>3. \A i, j \in 1..Len(all) : all[i] = all[j] => i = j
  <2>1. \A i \in 1..Len(registry) : registry[i] # d
    BY <1>1 DEF ToSet
  <2>2. \A i, j \in 1..Len(registry) : registry[i] = registry[j] => i = j
    BY <1>1 DEF IsInjective
  <2>3. \A i \in 1..Len(all) : i \in 1..Len(registry) \/ i = Len(registry) + 1
    BY <1>1, <1>2
  <2>4. QED
    BY <1>2, <2>1, <2>2, <2>3
<1> HIDE DEF all
<1>4. over \in Nat /\ over <= Len(all) /\ Len(all) - over <= MaxDevices /\ Len(all) \in Nat
  BY <1>1, <1>2
<1> HIDE DEF over
<1>5. /\ held \in Seq(Devices) /\ Len(held) = Len(all) - over
      /\ \A i \in 1..Len(held) : held[i] = all[over + i] /\ over + i \in 1..Len(all)
  BY <1>2, <1>4
<1>6. IsInjective(held)
  <2> HIDE DEF held
  <2>1. DOMAIN held = 1..Len(held)
    BY <1>5
  <2>2. \A i, j \in 1..Len(held) : held[i] = held[j] => i = j
    BY <1>3, <1>4, <1>5
  <2>3. QED
    BY <2>1, <2>2 DEF IsInjective
<1>7. ToSet(registry) \cup {d} = {all[i] : i \in 1..Len(all)}
  BY <1>1, <1>2 DEF ToSet
<1>8. ToSet(held) \cup leaving = {all[i] : i \in 1..Len(all)}
  <2> HIDE DEF held
  <2>0. DOMAIN held = 1..Len(held)
    BY <1>5
  <2>1. ToSet(held) = {held[i] : i \in 1..Len(held)}
    BY <2>0 DEF ToSet
  <2>2. \A i \in 1..Len(all) : i \in 1..over \/ (i - over \in 1..Len(held) /\ all[i] = held[i - over])
    BY <1>4, <1>5
  <2>3. 1..over \subseteq 1..Len(all)
    BY <1>4
  <2>4. ToSet(held) \subseteq {all[i] : i \in 1..Len(all)} /\ leaving \subseteq {all[i] : i \in 1..Len(all)}
    BY <1>5, <2>1, <2>3
  <2>5. ASSUME NEW i \in 1..Len(all) PROVE all[i] \in ToSet(held) \cup leaving
    BY <2>1, <2>2
  <2>6. QED
    BY <2>4, <2>5
<1>9. leaving \subseteq Devices
  BY <1>2, <1>4
<1>10. Registration(d) = [kept |-> held, out |-> leaving]
  BY DEF Registration, all, over
<1>11. QED
  BY <1>4, <1>5, <1>6, <1>7, <1>8, <1>9, <1>10, SMTT(20)

\* ZREM takes out the one slot a device has.
LEMMA SlotLeaves ==
  ASSUME NEW s \in Seq(Devices), IsInjective(s), NEW d \in Devices
  PROVE  /\ RemoveFirst(s, d) \in Seq(Devices) /\ IsInjective(RemoveFirst(s, d))
         /\ Len(RemoveFirst(s, d)) <= Len(s)
         /\ ToSet(RemoveFirst(s, d)) = ToSet(s) \ {d}
<1>1. CASE \E i \in 1..Len(s) : s[i] = d
  <2>1. PICK k \in 1..Len(s) : s[k] = d
    BY <1>1
  <2>2. \A i, j \in 1..Len(s) : s[i] = s[j] => i = j
    BY DEF IsInjective
  <2>3. {i \in 1..Len(s) : s[i] = d} = {k}
    BY <2>1, <2>2
  <2>4. Min({k}) = k
    BY <2>1 DEF Min
  <2>5. SelectInSeq(s, LAMBDA v : v = d) = k
    BY <2>3, <2>4 DEF SelectInSeq
  <2> DEFINE r == RemoveAt(s, k)
  <2>6. RemoveFirst(s, d) = r
    BY <1>1, <2>5 DEF RemoveFirst
  <2>7. /\ r \in Seq(Devices) /\ Len(r) = Len(s) - 1 /\ Len(s) \in Nat
        /\ \A i \in 1..Len(s) - 1 : r[i] = IF i < k THEN s[i] ELSE s[i + 1]
    BY RemoveAtShape
  <2> HIDE DEF r
  <2>8. IsInjective(r)
    <3>1. DOMAIN r = 1..Len(s) - 1
      BY <2>7
    <3>2. \A i, j \in 1..Len(s) - 1 : r[i] = r[j] => i = j
      <4> TAKE i, j \in 1..Len(s) - 1
      <4> DEFINE From(n) == IF n < k THEN n ELSE n + 1
      <4>1. From(i) \in 1..Len(s) /\ From(j) \in 1..Len(s) /\ (From(i) = From(j) => i = j)
        BY <2>1, <2>7
      <4>2. r[i] = s[From(i)] /\ r[j] = s[From(j)]
        BY <2>7
      <4>3. QED
        BY <4>1, <4>2, <2>2
    <3>3. QED
      BY <3>1, <3>2 DEF IsInjective
  <2>9. ToSet(r) = ToSet(s) \ {d}
    <3>1. ToSet(r) = {r[i] : i \in 1..Len(s) - 1} /\ ToSet(s) = {s[i] : i \in 1..Len(s)}
      BY <2>7 DEF ToSet
    <3>2. \A i \in 1..Len(s) - 1 : r[i] \in {s[j] : j \in 1..Len(s)} /\ r[i] # d
      BY <2>1, <2>2, <2>7
    <3>3. ASSUME NEW j \in 1..Len(s), j # k PROVE s[j] \in {r[i] : i \in 1..Len(s) - 1}
      <4>1. CASE j < k
        BY <4>1, <2>1, <2>7
      <4>2. CASE j > k
        <5>1. j - 1 \in 1..Len(s) - 1 /\ r[j - 1] = s[j]
          BY <4>2, <2>1, <2>7
        <5>2. QED
          BY <5>1
      <4>3. QED
        BY <4>1, <4>2, <3>3, <2>1
    <3>4. QED
      BY <3>1, <3>2, <3>3, <2>1
  <2>10. QED
    BY <2>6, <2>7, <2>8, <2>9
<1>2. CASE ~\E i \in 1..Len(s) : s[i] = d
  <2>1. RemoveFirst(s, d) = s
    BY <1>2 DEF RemoveFirst
  <2>2. d \notin ToSet(s)
    BY <1>2 DEF ToSet
  <2>3. QED
    BY <2>1, <2>2
<1>3. QED
  BY <1>1, <1>2

LEMMA CapKept ==
  ASSUME CapInv, NEW d \in Devices,
         RegisterConn(d) \/ TellEvicted(d) \/ AddConn(d) \/ Kick(d) \/ LoseKick(d) \/ Age(d)
           \/ Disconnect(d) \/ Unregister(d)
  PROVE  CapInv'
<1> USE CapAssumption DEF CapInv, CapFault
<1>1. CASE RegisterConn(d)
  <2>1. CASE registry' = Registration(d).kept
    <3>1. CapTypeOK'
      BY <1>1, RegistrationHolds DEF RegisterConn, CapTypeOK
    <3>2. SlotsHold'
      BY <1>1, RegistrationHolds DEF RegisterConn, CapTypeOK, SlotsHold
    <3>3. QED
      BY <3>1, <3>2
  <2>2. CASE CapFault /\ missed' = missed \cup {d} /\ UNCHANGED <<registry, evicting>>
    BY <1>1, <2>2 DEF RegisterConn, CapTypeOK, SlotsHold
  <2>3. QED
    BY <1>1, <2>1, <2>2 DEF RegisterConn
<1>2. CASE TellEvicted(d)
  BY <1>2 DEF TellEvicted, CapTypeOK, SlotsHold
<1>3. CASE AddConn(d)
  BY <1>3 DEF AddConn, CapTypeOK, SlotsHold
<1>4. CASE Kick(d)
  BY <1>4 DEF Kick, CapTypeOK, SlotsHold
<1>5. CASE Age(d)
  BY <1>5, SlotLeaves DEF Age, CapTypeOK, SlotsHold
<1>6. CASE Disconnect(d)
  BY <1>6 DEF Disconnect, CapTypeOK, SlotsHold
<1>7. CASE Unregister(d)
  <2>1. CASE registry' = RemoveFirst(registry, d) /\ UNCHANGED capFaults
    <3>1. /\ registry' \in Seq(Devices) /\ IsInjective(registry') /\ Len(registry') <= Len(registry)
          /\ ToSet(registry') = ToSet(registry) \ {d} /\ Len(registry) \in Nat /\ Len(registry') \in Nat
      BY <2>1, SlotLeaves DEF CapTypeOK
    <3>2. CapTypeOK'
      BY <1>7, <2>1, <3>1 DEF Unregister, CapTypeOK
    <3>3. Len(registry') <= MaxDevices
      BY <3>1 DEF SlotsHold
    <3>4. SlotsHold'
      BY <1>7, <2>1, <3>1, <3>3 DEF Unregister, SlotsHold
    <3>5. QED
      BY <3>2, <3>4
  <2>2. CASE CapFault /\ UNCHANGED registry
    BY <1>7, <2>2 DEF Unregister, CapTypeOK, SlotsHold
  <2>3. QED
    BY <1>7, <2>1, <2>2 DEF Unregister
<1>8. CASE LoseKick(d)
  BY <1>8 DEF LoseKick, CapTypeOK, SlotsHold
<1>9. QED
  BY <1>1, <1>2, <1>3, <1>4, <1>5, <1>6, <1>7, <1>8

LEMMA DeathKeeps ==
  ASSUME CapInv, NEW D \in SUBSET Devices, GatewayDies(D)
  PROVE  CapInv'
<1> USE CapAssumption DEF CapInv, CapFault
<1>1. /\ \A d \in D : stage[d] # "new"
      /\ stage' = [d \in Devices |-> IF d \in D THEN "gone" ELSE stage[d]]
      /\ evicting' = [d \in Devices |-> IF d \in D THEN {} ELSE evicting[d]]
      /\ missed' = missed \cup UNION {evicting[d] : d \in D}
      /\ capFaults' \in 0..CapFaults
      /\ UNCHANGED <<registry, kicks, cancelled>>
  BY DEF GatewayDies, CapTypeOK
<1>2. CapTypeOK'
  BY <1>1 DEF CapTypeOK
<1>3. \A d \in Devices : stage'[d] \in {"registered", "told", "open"} =>
          \/ d \in ToSet(registry) \cup kicks \cup cancelled \cup missed'
          \/ \E e \in Devices : d \in evicting'[e]
  <2> SUFFICES ASSUME NEW d \in Devices, stage'[d] \in {"registered", "told", "open"}
               PROVE  \/ d \in ToSet(registry) \cup kicks \cup cancelled \cup missed'
                      \/ \E e \in Devices : d \in evicting'[e]
    OBVIOUS
  <2>1. stage[d] \in {"registered", "told", "open"}
    BY <1>1
  <2>2. CASE \E e \in D : d \in evicting[e]
    BY <1>1, <2>2
  <2>3. CASE \E e \in Devices \ D : d \in evicting[e]
    BY <1>1, <2>3
  <2>4. CASE d \in ToSet(registry) \cup kicks \cup cancelled \cup missed
    BY <1>1, <2>4
  <2>5. QED
    BY <2>1, <2>2, <2>3, <2>4 DEF SlotsHold
<1>4. SlotsHold'
  BY <1>1, <1>3 DEF SlotsHold
<1>5. QED
  BY <1>2, <1>4

LEMMA CapFollows ==
  ASSUME CapInv
  PROVE  CapHolds
<1> DEFINE held == {d \in Open : /\ d \notin kicks \cup cancelled \cup missed
                                 /\ \A e \in Devices : d \notin evicting[e]}
<1>1. registry \in Seq(Devices) /\ Len(registry) \in Nat /\ Len(registry) <= MaxDevices
  BY DEF CapInv, CapTypeOK, SlotsHold
<1>2. held \subseteq ToSet(registry)
  BY DEF CapInv, SlotsHold, Open
<1>3. registry \in Surjection(1..Len(registry), ToSet(registry))
  BY <1>1 DEF Surjection, ToSet
<1>4. IsFiniteSet(1..Len(registry)) /\ Cardinality(1..Len(registry)) = Len(registry)
  BY <1>1, FS_Interval, SMTT(20)
<1>5. IsFiniteSet(ToSet(registry)) /\ Cardinality(ToSet(registry)) <= Len(registry)
  BY <1>3, <1>4, FS_Surjection
<1>6. /\ Cardinality(held) <= Cardinality(ToSet(registry)) /\ Cardinality(held) \in Nat
      /\ Cardinality(ToSet(registry)) \in Nat
  BY <1>2, <1>5, FS_Subset, FS_CardinalityType
<1>7. QED
  BY <1>1, <1>5, <1>6, CapAssumption DEF CapHolds

LEMMA CapAlways == CapSpec => [](CapTypeOK /\ CapHolds)
<1>1. CapInit => CapInv
  BY CapAssumption DEF CapInit, CapInv, CapTypeOK, SlotsHold, IsInjective, ToSet
<1>2. CapInv /\ [CapNext]_capVars => CapInv'
  <2> SUFFICES ASSUME CapInv, [CapNext]_capVars PROVE CapInv'
    OBVIOUS
  <2>1. CASE CapNext
    BY <2>1, CapKept, DeathKeeps DEF CapNext
  <2>2. CASE UNCHANGED capVars
    BY <2>2 DEF capVars, CapInv, CapTypeOK, SlotsHold
  <2>3. QED
    BY <2>1, <2>2
<1>3. CapInv => CapTypeOK /\ CapHolds
  BY CapFollows DEF CapInv
<1>4. QED
  BY <1>1, <1>2, <1>3, PTL DEF CapSpec

-----------------------------------------------------------------------------
(***************************************************************************)
(* Calls in a fixed window.  The n callers that saw least in a window saw  *)
(* at least n, so no more were let through than saw a count within the     *)
(* limit; a refund takes its own hit or none.                              *)
(***************************************************************************)

\* Hits of the window that are neither refunded nor denied.
Acting == {c \in counted : doing[c] \in {"counted", "granted", "refunding"}}

\* The n callers that saw least in this window saw at least n; so no more than
\* max_per_window of them saw as little as that.
HitsHold ==
    /\ counted \subseteq Hitters /\ IsFiniteSet(counted)
    /\ \A c \in Callers : doing[c] \in {"refunding", "negative"} => c \in Hitters
    /\ \A c \in counted : doing[c] # "idle"
    /\ ~Exists("hits") => counted = {} /\ ~crossed
    /\ \A c \in Hitters : doing[c] = "granted" => saw[c] <= MaxHits
    /\ ~crossed => /\ Exists("hits") => Cardinality(Acting) <= count["hits"]
                   /\ \A n \in Nat : Cardinality({c \in Acting : saw[c] <= n}) <= n

\* A counter without a TTL waits for one, or has room for the caller that
\* starts its window.
TtlHolds ==
    /\ count["spent"] >= 0
    /\ \A k \in Windows : left[k] = Forever =>
          \/ dead # {} \/ count[k] <= 0 \/ (k = "hits" /\ crossed)
          \/ \E c \in Callers : KeyOf(c) = k /\ doing[c] = "counted" /\ StartsWindow(c)

RateInv == RateTypeOK /\ HitsHold /\ TtlHolds

\* How many saw at most n.
Low(n) == {c \in Acting : saw[c] <= n}

LEMMA ActiveFinite ==
  ASSUME RateInv
  PROVE  /\ Acting \subseteq counted /\ IsFiniteSet(Acting) /\ Cardinality(Acting) \in Nat
         /\ \A n : Low(n) \subseteq Acting /\ IsFiniteSet(Low(n)) /\ Cardinality(Low(n)) \in Nat
<1>1. Acting \subseteq counted /\ IsFiniteSet(counted)
  BY DEF Acting, RateInv, HitsHold
<1>2. \A n : Low(n) \subseteq Acting
  BY DEF Low
<1>3. QED
  BY <1>1, <1>2, FS_Subset, FS_CardinalityType

\* Fewer active callers, of whom none saw less, keep the counts.
LEMMA FewerKeep ==
  ASSUME RateInv, Acting' \subseteq Acting, \A c \in Acting' : saw'[c] = saw[c],
         ~crossed, Exists("hits")' => Exists("hits") /\ count'["hits"] = count["hits"]
  PROVE  /\ Exists("hits")' => Cardinality(Acting') <= count'["hits"]
         /\ \A n \in Nat : Cardinality({c \in Acting' : saw'[c] <= n}) <= n
<1>1. Cardinality(Acting') <= Cardinality(Acting) /\ IsFiniteSet(Acting') /\ Cardinality(Acting') \in Nat
  BY ActiveFinite, FS_Subset, FS_CardinalityType
<1>2. Exists("hits")' => Cardinality(Acting') <= count'["hits"]
  BY <1>1, ActiveFinite DEF RateInv, HitsHold, RateTypeOK, Windows
<1>3. ASSUME NEW n \in Nat PROVE Cardinality({c \in Acting' : saw'[c] <= n}) <= n
  <2> DEFINE low == {c \in Acting' : saw'[c] <= n}
  <2>1. low \subseteq Low(n)
    BY DEF Low
  <2>2. Cardinality(low) <= Cardinality(Low(n)) /\ Cardinality(low) \in Nat
    BY <2>1, ActiveFinite, FS_Subset, FS_CardinalityType
  <2>3. Cardinality(Low(n)) <= n
    BY DEF RateInv, HitsHold, Low
  <2>4. QED
    BY <2>2, <2>3, ActiveFinite
<1>4. QED
  BY <1>2, <1>3

LEMMA HitKeeps ==
  ASSUME RateInv, NEW c \in Callers, Hit(c)
  PROVE  RateInv'
<1> USE RateAssumption DEF RateInv
<1> DEFINE n0 == IF Exists("hits") THEN count["hits"] ELSE 0
<1>1. /\ c \in Hitters /\ doing[c] = "idle" /\ c \notin counted /\ KeyOf(c) = "hits" /\ n0 \in Int
      /\ count' = [count EXCEPT !["hits"] = n0 + 1]
      /\ left' = [left EXCEPT !["hits"] = IF Exists("hits") THEN @ ELSE Forever]
      /\ saw' = [saw EXCEPT ![c] = n0 + 1] /\ saw'[c] = n0 + 1 /\ count'["hits"] = n0 + 1
      /\ counted' = counted \cup {c} /\ doing' = [doing EXCEPT ![c] = "counted"]
      /\ UNCHANGED <<crossed, dead, ticks>>
  BY DEF Hit, Adds, KeyOf, Does, HitsHold, RateTypeOK, Windows
<1>2. RateTypeOK'
  BY <1>1 DEF RateTypeOK, Windows, Forever
<1>3. /\ Exists("hits")' /\ Acting' = Acting \cup {c} /\ c \notin Acting
      /\ \A d \in Acting : saw'[d] = saw[d]
  BY <1>1 DEF Acting, Exists, Forever, RateTypeOK, Windows
<1>4. /\ counted' \subseteq Hitters /\ IsFiniteSet(counted')
      /\ \A d \in Callers : doing'[d] \in {"refunding", "negative"} => d \in Hitters
      /\ \A d \in counted' : doing'[d] # "idle"
      /\ \A d \in Hitters : doing'[d] = "granted" => saw'[d] <= MaxHits
  BY <1>1, FS_AddElement DEF HitsHold, RateTypeOK
<1>5. ASSUME ~crossed
      PROVE  /\ Cardinality(Acting') <= count'["hits"]
             /\ \A n \in Nat : Cardinality({d \in Acting' : saw'[d] <= n}) <= n
  <2>1. /\ Cardinality(Acting) <= n0 /\ Cardinality(Acting') = Cardinality(Acting) + 1
        /\ IsFiniteSet(Acting')
    <3>1. ~Exists("hits") => Acting = {}
      BY DEF Acting, HitsHold
    <3>2. Cardinality({}) = 0
      BY FS_EmptySet
    <3>3. QED
      BY <1>3, <1>5, <3>1, <3>2, ActiveFinite, FS_AddElement DEF HitsHold
  <2>2. ASSUME NEW n \in Nat PROVE Cardinality({d \in Acting' : saw'[d] <= n}) <= n
    <3>1. CASE n0 + 1 <= n
      <4>1. {d \in Acting' : saw'[d] <= n} \subseteq Acting'
        OBVIOUS
      <4>2. Cardinality({d \in Acting' : saw'[d] <= n}) <= Cardinality(Acting')
            /\ Cardinality({d \in Acting' : saw'[d] <= n}) \in Nat
        BY <4>1, <2>1, FS_Subset, FS_CardinalityType
      <4>3. QED
        BY <4>2, <2>1, <3>1, <1>1, ActiveFinite
    <3>2. CASE ~(n0 + 1 <= n)
      <4>1. {d \in Acting' : saw'[d] <= n} = Low(n)
        BY <3>2, <1>1, <1>3 DEF Low
      <4>2. QED
        BY <4>1, <1>5 DEF HitsHold, Low
    <3>3. QED
      BY <3>1, <3>2
  <2>3. QED
    BY <2>1, <2>2, <1>1, ActiveFinite
<1>6. HitsHold'
  BY <1>1, <1>3, <1>4, <1>5 DEF HitsHold
<1>7. TtlHolds'
  <2>1. count'["spent"] = count["spent"] /\ left'["spent"] = left["spent"] /\ (StartsWindow(c)' <=> n0 = 0)
    BY <1>1 DEF StartsWindow
  <2>2. \A d \in Callers : doing[d] = "counted" => /\ d # c /\ doing'[d] = "counted"
                                                  /\ StartsWindow(d)' <=> StartsWindow(d)
    BY <1>1 DEF StartsWindow
  <2>3. ASSUME left'["hits"] = Forever
        PROVE  \/ dead # {} \/ count'["hits"] <= 0 \/ crossed
               \/ \E d \in Callers : KeyOf(d) = "hits" /\ doing'[d] = "counted" /\ StartsWindow(d)'
    <3>1. CASE Exists("hits") /\ count["hits"] # 0
      <4>1. left["hits"] = Forever
        BY <1>1, <2>3, <3>1
      <4>2. CASE count["hits"] <= 0
        BY <4>2, <1>1, <3>1
      <4>3. CASE ~(count["hits"] <= 0)
        BY <4>1, <4>3, <2>2 DEF TtlHolds, Windows
      <4>4. QED
        BY <4>2, <4>3
    <3>2. CASE ~Exists("hits") \/ count["hits"] = 0
      BY <3>2, <1>1, <2>1 DEF RateTypeOK
    <3>3. QED
      BY <3>1, <3>2
  <2>4. left'["spent"] = Forever =>
           \/ dead # {} \/ count'["spent"] <= 0
           \/ \E d \in Callers : KeyOf(d) = "spent" /\ doing'[d] = "counted" /\ StartsWindow(d)'
    BY <2>1, <2>2 DEF TtlHolds, Windows
  <2>5. QED
    BY <1>1, <2>1, <2>3, <2>4 DEF TtlHolds, Windows
<1>8. QED
  BY <1>2, <1>6, <1>7

LEMMA RecordKeeps ==
  ASSUME RateInv, NEW c \in Callers, Record(c)
  PROVE  RateInv'
<1> USE RateAssumption DEF RateInv
<1> DEFINE n0 == IF Exists("spent") THEN count["spent"] ELSE 0
<1>1. /\ c \in Spenders /\ c \notin Hitters /\ doing[c] = "granted" /\ KeyOf(c) = "spent"
      /\ n0 \in Nat /\ Weight[c] \in Nat
      /\ count' = [count EXCEPT !["spent"] = n0 + Weight[c]] /\ count'["spent"] = n0 + Weight[c]
      /\ left' = [left EXCEPT !["spent"] = IF Exists("spent") THEN @ ELSE Forever]
      /\ saw' = [saw EXCEPT ![c] = n0 + Weight[c]] /\ saw'[c] = n0 + Weight[c]
      /\ doing' = [doing EXCEPT ![c] = "counted"] /\ doing'[c] = "counted"
      /\ UNCHANGED <<counted, crossed, dead, ticks>>
  <2>1. /\ c \in Spenders /\ c \notin Hitters /\ doing[c] = "granted" /\ KeyOf(c) = "spent"
        /\ Weight[c] \in Nat /\ doing' = [doing EXCEPT ![c] = "counted"] /\ doing'[c] = "counted"
        /\ UNCHANGED <<counted, crossed, dead, ticks>>
    BY DEF Record, KeyOf, Does, RateTypeOK
  <2>2. n0 \in Nat
    BY DEF RateTypeOK, Windows, TtlHolds
  <2>3. /\ count' = [count EXCEPT !["spent"] = n0 + Weight[c]] /\ count'["spent"] = n0 + Weight[c]
        /\ left' = [left EXCEPT !["spent"] = IF Exists("spent") THEN @ ELSE Forever]
    BY <2>1 DEF Record, Adds, RateTypeOK, Windows
  <2>4. saw' = [saw EXCEPT ![c] = n0 + Weight[c]] /\ saw'[c] = n0 + Weight[c]
    BY <2>3 DEF Record, RateTypeOK
  <2>5. QED
    BY <2>1, <2>2, <2>3, <2>4
<1>2. RateTypeOK'
  BY <1>1 DEF RateTypeOK, Windows, Forever
<1>3. /\ count'["hits"] = count["hits"] /\ left'["hits"] = left["hits"]
      /\ \A d \in Callers \ {c} : doing'[d] = doing[d] /\ saw'[d] = saw[d]
      /\ Acting' = Acting
  BY <1>1 DEF Acting
<1>4. HitsHold'
  <2>1. \A d \in Acting : saw'[d] = saw[d]
    BY <1>1, <1>3 DEF Acting, HitsHold
  <2>2. \A n : {d \in Acting' : saw'[d] <= n} = {d \in Acting : saw[d] <= n}
    BY <1>3, <2>1
  <2>3. QED
    BY <1>1, <1>3, <2>2 DEF HitsHold, Exists, Callers
<1>5. TtlHolds'
  <2>1. \A d \in Callers : doing[d] = "counted" => /\ d # c /\ doing'[d] = "counted"
                                                  /\ StartsWindow(d)' <=> StartsWindow(d)
    BY <1>1, <1>3 DEF StartsWindow
  <2>2. n0 = 0 => StartsWindow(c)'
    BY <1>1 DEF StartsWindow
  <2>3. n0 # 0 => Exists("spent") /\ count["spent"] > 0 /\ left'["spent"] = left["spent"]
    BY <1>1
  <2>4. QED
    BY <1>1, <1>3, <2>1, <2>2, <2>3 DEF TtlHolds
<1>6. QED
  BY <1>2, <1>4, <1>5

LEMMA RefundTakesKeeps ==
  ASSUME RateInv, NEW c \in Callers, RefundTakes(c)
  PROVE  RateInv'
<1> USE RateAssumption DEF RateInv
<1> DEFINE n0 == IF Exists("hits") THEN count["hits"] ELSE 0
<1>1. /\ c \in Hitters /\ doing[c] = "refunding" /\ KeyOf(c) = "hits" /\ n0 \in Int
      /\ count' = [count EXCEPT !["hits"] = n0 - 1] /\ count'["hits"] = n0 - 1
      /\ left' = [left EXCEPT !["hits"] = IF Exists("hits") THEN @ ELSE Forever]
      /\ doing' = [doing EXCEPT ![c] = IF count'["hits"] < 0 THEN "negative" ELSE "done"]
      /\ doing'[c] \in {"negative", "done"}
      /\ crossed' = (crossed \/ c \notin counted)
      /\ UNCHANGED <<saw, counted, dead, ticks>>
  <2>1. c \in Hitters /\ doing[c] = "refunding" /\ KeyOf(c) = "hits" /\ n0 \in Int
    BY DEF RefundTakes, KeyOf, HitsHold, RateTypeOK, Windows
  <2>2. /\ count' = [count EXCEPT !["hits"] = n0 - 1] /\ count'["hits"] = n0 - 1
        /\ left' = [left EXCEPT !["hits"] = IF Exists("hits") THEN @ ELSE Forever]
    <3>1. n0 + -1 = n0 - 1
      BY <2>1
    <3>2. count' = [count EXCEPT !["hits"] = n0 + -1]
      BY <2>1 DEF RefundTakes, Adds
    <3>3. count' = [count EXCEPT !["hits"] = n0 - 1]
      BY <3>1, <3>2
    <3>4. count'["hits"] = n0 - 1
      BY <3>3 DEF RateTypeOK, Windows
    <3>5. QED
      BY <2>1, <3>3, <3>4 DEF RefundTakes, Adds
  <2>3. QED
    BY <2>1, <2>2 DEF RefundTakes, Does, RateTypeOK
<1>2. RateTypeOK'
  BY <1>1 DEF RateTypeOK, Windows, Forever
<1>3. /\ count'["spent"] = count["spent"] /\ left'["spent"] = left["spent"]
      /\ \A d \in Callers \ {c} : doing'[d] = doing[d]
      /\ Acting' = Acting \ {c} /\ Exists("hits")'
  BY <1>1 DEF RateTypeOK, Windows, Acting, Exists, Forever
<1>4. ASSUME ~crossed'
      PROVE  /\ Cardinality(Acting') <= count'["hits"]
             /\ \A n \in Nat : Cardinality({d \in Acting' : saw'[d] <= n}) <= n
  <2>1. c \in Acting /\ ~crossed /\ Exists("hits")
    BY <1>1, <1>4 DEF Acting, HitsHold
  <2>2. Cardinality(Acting') = Cardinality(Acting) - 1
    BY <1>3, <2>1, ActiveFinite, FS_RemoveElement
  <2>3. Cardinality(Acting) <= count["hits"]
    BY <2>1 DEF HitsHold
  <2>4. Cardinality(Acting') <= count'["hits"]
    BY <1>1, <2>1, <2>2, <2>3, ActiveFinite
  <2>5. ASSUME NEW n \in Nat PROVE Cardinality({d \in Acting' : saw'[d] <= n}) <= n
    <3>1. {d \in Acting' : saw'[d] <= n} \subseteq Low(n)
      BY <1>1, <1>3 DEF Low
    <3>2. Cardinality({d \in Acting' : saw'[d] <= n}) <= Cardinality(Low(n))
          /\ Cardinality({d \in Acting' : saw'[d] <= n}) \in Nat
      BY <3>1, ActiveFinite, FS_Subset, FS_CardinalityType
    <3>3. Cardinality(Low(n)) <= n
      BY <2>1 DEF HitsHold, Low
    <3>4. QED
      BY <3>2, <3>3, ActiveFinite
  <2>6. QED
    BY <2>4, <2>5
<1>5. HitsHold'
  BY <1>1, <1>3, <1>4 DEF HitsHold, Callers
<1>6. TtlHolds'
  <2>1. \A d \in Callers : doing[d] = "counted" => d # c /\ doing'[d] = "counted" /\ (StartsWindow(d)' <=> StartsWindow(d))
    BY <1>1, <1>3 DEF StartsWindow
  <2>2. ASSUME left'["hits"] = Forever, ~(count'["hits"] <= 0)
        PROVE  left["hits"] = Forever /\ ~(count["hits"] <= 0)
    BY <1>1, <2>2
  <2>3. QED
    BY <1>1, <1>3, <2>1, <2>2 DEF TtlHolds, Windows
<1>7. QED
  BY <1>2, <1>5, <1>6

LEMMA RefundFloorsKeeps ==
  ASSUME RateInv, NEW c \in Callers, RefundFloors(c)
  PROVE  RateInv'
<1> USE RateAssumption DEF RateInv
<1>1. /\ c \in Hitters /\ doing[c] = "negative" /\ crossed' = TRUE
      /\ count' = [count EXCEPT !["hits"] = 0]
      /\ left' = [left EXCEPT !["hits"] = IF @ = 0 THEN Forever ELSE @] /\ left'["hits"] # 0
      /\ doing' = [doing EXCEPT ![c] = "done"]
      /\ UNCHANGED <<saw, counted, dead, ticks>>
  BY DEF RefundFloors, Does, HitsHold, RateTypeOK, Windows, Forever
<1>2. RateTypeOK'
  BY <1>1 DEF RateTypeOK, Windows, Forever
<1>3. HitsHold'
  BY <1>1, <1>2 DEF HitsHold, RateTypeOK, Exists
<1>4. TtlHolds'
  BY <1>1 DEF TtlHolds, StartsWindow
<1>5. QED
  BY <1>2, <1>3, <1>4

LEMMA RateTickKeeps ==
  ASSUME RateInv, Tick
  PROVE  RateInv'
<1> USE RateAssumption DEF RateInv
<1>1. /\ \A k \in Windows : left'[k] = IF left[k] \in 1..Window THEN left[k] - 1 ELSE left[k]
      /\ counted' = (IF left'["hits"] = 0 THEN {} ELSE counted)
      /\ crossed' = (crossed /\ left'["hits"] > 0)
      /\ ticks < MaxTicks /\ ticks' = ticks + 1
      /\ UNCHANGED <<doing, count, saw, dead>>
  BY DEF Tick
<1>2. /\ left' \in [Windows -> 0..Forever]
      /\ \A k \in Windows : (left'[k] = Forever => left[k] = Forever) /\ (left'[k] > 0 => left[k] > 0)
  <2>1. left \in [Windows -> 0..Forever]
    BY DEF RateTypeOK
  <2>2. left' = [k \in Windows |-> IF left[k] \in 1..Window THEN left[k] - 1 ELSE left[k]]
    BY DEF Tick
  <2>3. QED
    BY <1>1, <2>1, <2>2 DEF Forever
<1>p. left'["hits"] \in Nat /\ (left'["hits"] = Forever => left'["hits"] > 0)
  BY <1>2 DEF Windows, Forever
<1>g. ~Exists("hits")' => left'["hits"] = 0 /\ counted' = {} /\ ~crossed'
  <2>1. ~(left'["hits"] > 0) => left'["hits"] = 0
    BY <1>p
  <2>2. ~Exists("hits")' => ~(left'["hits"] > 0)
    BY DEF Exists
  <2>3. crossed' => left'["hits"] > 0
    BY <1>1
  <2>4. QED
    BY <2>1, <2>2, <2>3, <1>1
<1>3. RateTypeOK'
  BY <1>1, <1>2 DEF RateTypeOK
<1>4. counted' \subseteq counted /\ Acting' \subseteq Acting /\ IsFiniteSet(counted')
  <2>1. counted' \subseteq counted
    BY <1>1
  <2>2. QED
    BY <1>1, <2>1, FS_Subset DEF Acting, HitsHold
<1>5. HitsHold'
  <2>1. ASSUME ~crossed'
        PROVE  /\ Exists("hits")' => Cardinality(Acting') <= count'["hits"]
               /\ \A n \in Nat : Cardinality({c \in Acting' : saw'[c] <= n}) <= n
    <3>1. CASE crossed
      <4>1. ~Exists("hits")'
        BY <1>1, <2>1, <3>1 DEF Exists
      <4>a. Acting' = {}
        BY <4>1, <1>g, <1>4 DEF Acting
      <4>2. \A n : {c \in Acting' : saw'[c] <= n} = {}
        BY <4>a
      <4>3. QED
        BY <4>1, <4>a, <4>2, FS_EmptySet
    <3>2. CASE ~crossed
      <4>1. Exists("hits")' => Exists("hits") /\ count'["hits"] = count["hits"]
        BY <1>1, <1>2 DEF Exists, Windows
      <4>2. \A c \in Acting' : saw'[c] = saw[c]
        BY <1>1
      <4>3. QED
        BY <3>2, <4>1, <4>2, <1>4, FewerKeep
    <3>3. QED
      BY <3>1, <3>2
  <2>2. ~Exists("hits")' => counted' = {} /\ ~crossed'
    BY <1>g
  <2>3. QED
    BY <1>1, <1>4, <2>1, <2>2 DEF HitsHold
<1>6. TtlHolds'
  <2>1. "hits" \in Windows /\ left'["hits"] = Forever => (crossed => crossed')
    BY <1>1, <1>p
  <2>2. \A c : StartsWindow(c)' <=> StartsWindow(c)
    BY <1>1 DEF StartsWindow
  <2>3. QED
    BY <1>1, <1>2, <2>1, <2>2 DEF TtlHolds
<1>7. QED
  BY <1>3, <1>5, <1>6

LEMMA PeekKeeps ==
  ASSUME RateInv, NEW c \in Callers, Peek(c)
  PROVE  RateInv'
<1> USE RateAssumption DEF RateInv
<1>1. /\ \A d \in Callers \ {c} : doing'[d] = doing[d]
      /\ left' = left /\ dead' = dead /\ c \notin Hitters /\ doing[c] = "idle" /\ doing'[c] \in {"granted", "denied"}
      /\ UNCHANGED <<count, saw, counted, crossed, ticks>>
  BY DEF Peek, Does, KeyOf, Windows, RateTypeOK, Within, BudgetLeft
<1>2. RateTypeOK'
  BY <1>1 DEF RateTypeOK, Peek, Does, KeyOf
<1>3. Exists("hits")' <=> Exists("hits")
  BY <1>1 DEF Exists
<1>4. HitsHold'
  <2>1. Acting' \subseteq Acting /\ \A d \in Acting' : saw'[d] = saw[d]
    BY <1>1 DEF Acting, HitsHold, Callers
  <2>2. ~crossed => /\ Exists("hits")' => Cardinality(Acting') <= count'["hits"]
                    /\ \A n \in Nat : Cardinality({d \in Acting' : saw'[d] <= n}) <= n
    BY <1>1, <1>3, <2>1, FewerKeep
  <2>3. QED
    BY <1>1, <1>3, <2>2 DEF HitsHold, Callers
<1>5. TtlHolds'
  <2>1. \A d \in Callers : StartsWindow(d)' <=> StartsWindow(d)
    BY <1>1 DEF StartsWindow
  <2>2. QED
    BY <1>1, <2>1 DEF TtlHolds
<1>6. QED
  BY <1>2, <1>4, <1>5

LEMMA ExpireKeeps ==
  ASSUME RateInv, NEW c \in Callers, Expire(c)
  PROVE  RateInv'
<1> USE RateAssumption DEF RateInv
<1>1. /\ \A d \in Callers \ {c} : doing'[d] = doing[d]
      /\ left' = [left EXCEPT ![KeyOf(c)] = IF StartsWindow(c) /\ Exists(KeyOf(c)) THEN Window ELSE @]
      /\ doing[c] = "counted" /\ doing'[c] \in {"done", "granted", "denied"}
      /\ c \in Hitters /\ doing'[c] = "granted" => saw[c] <= MaxHits
      /\ KeyOf(c) \in Windows /\ dead' = dead
      /\ UNCHANGED <<count, saw, counted, crossed, ticks>>
  BY DEF Expire, Does, KeyOf, Windows, RateTypeOK, Within
<1>2. RateTypeOK'
  BY <1>1 DEF RateTypeOK, Forever, Expire, Does
<1>3. Exists("hits")' <=> Exists("hits")
  BY <1>1 DEF Exists
<1>4. HitsHold'
  <2>1. Acting' \subseteq Acting /\ \A d \in Acting' : saw'[d] = saw[d]
    BY <1>1 DEF Acting, HitsHold, Callers
  <2>2. ~crossed => /\ Exists("hits")' => Cardinality(Acting') <= count'["hits"]
                    /\ \A n \in Nat : Cardinality({d \in Acting' : saw'[d] <= n}) <= n
    BY <1>1, <1>3, <2>1, FewerKeep
  <2>3. QED
    BY <1>1, <1>3, <2>2 DEF HitsHold, Callers
<1>5. TtlHolds'
  <2>1. \A d \in Callers : StartsWindow(d)' <=> StartsWindow(d)
    BY <1>1 DEF StartsWindow
  <2>2. QED
    BY <1>1, <2>1 DEF TtlHolds, RateTypeOK, Forever, Exists
<1>6. QED
  BY <1>2, <1>4, <1>5

LEMMA RefundAsksKeeps ==
  ASSUME RateInv, NEW c \in Callers, RefundAsks(c)
  PROVE  RateInv'
<1> USE RateAssumption DEF RateInv
<1>1. /\ \A d \in Callers \ {c} : doing'[d] = doing[d]
      /\ left' = left /\ dead' = dead /\ c \in Hitters /\ doing[c] = "granted" /\ doing'[c] \in {"refunding", "done"}
      /\ UNCHANGED <<count, saw, counted, crossed, ticks>>
  BY DEF RefundAsks, Does, KeyOf, Windows, RateTypeOK, Within
<1>2. RateTypeOK'
  BY <1>1 DEF RateTypeOK, RefundAsks, Does, KeyOf
<1>3. Exists("hits")' <=> Exists("hits")
  BY <1>1 DEF Exists
<1>4. HitsHold'
  <2>1. Acting' \subseteq Acting /\ \A d \in Acting' : saw'[d] = saw[d]
    BY <1>1 DEF Acting, HitsHold, Callers
  <2>2. ~crossed => /\ Exists("hits")' => Cardinality(Acting') <= count'["hits"]
                    /\ \A n \in Nat : Cardinality({d \in Acting' : saw'[d] <= n}) <= n
    BY <1>1, <1>3, <2>1, FewerKeep
  <2>3. QED
    BY <1>1, <1>3, <2>2 DEF HitsHold, Callers
<1>5. TtlHolds'
  <2>1. \A d \in Callers : StartsWindow(d)' <=> StartsWindow(d)
    BY <1>1 DEF StartsWindow
  <2>2. QED
    BY <1>1, <2>1 DEF TtlHolds
<1>6. QED
  BY <1>2, <1>4, <1>5

LEMMA DiesKeeps ==
  ASSUME RateInv, NEW c \in Callers, Dies(c)
  PROVE  RateInv'
<1> USE RateAssumption DEF RateInv
<1>1. /\ \A d \in Callers \ {c} : doing'[d] = doing[d]
      /\ left' = left /\ doing[c] = "counted" /\ doing'[c] = "done" /\ dead' = dead \cup {c}
      /\ UNCHANGED <<count, saw, counted, crossed, ticks>>
  BY DEF Dies, Does, KeyOf, Windows, RateTypeOK, Within
<1>2. RateTypeOK'
  BY <1>1 DEF RateTypeOK, Dies, Does, KeyOf
<1>3. Exists("hits")' <=> Exists("hits")
  BY <1>1 DEF Exists
<1>4. HitsHold'
  <2>1. Acting' \subseteq Acting /\ \A d \in Acting' : saw'[d] = saw[d]
    BY <1>1 DEF Acting, HitsHold, Callers
  <2>2. ~crossed => /\ Exists("hits")' => Cardinality(Acting') <= count'["hits"]
                    /\ \A n \in Nat : Cardinality({d \in Acting' : saw'[d] <= n}) <= n
    BY <1>1, <1>3, <2>1, FewerKeep
  <2>3. QED
    BY <1>1, <1>3, <2>2 DEF HitsHold, Callers
<1>5. TtlHolds'
  <2>1. \A d \in Callers : StartsWindow(d)' <=> StartsWindow(d)
    BY <1>1 DEF StartsWindow
  <2>2. QED
    BY <1>1, <2>1 DEF TtlHolds
<1>6. QED
  BY <1>2, <1>4, <1>5

LEMMA WindowFollows ==
  ASSUME RateInv
  PROVE  WindowHolds
<1> USE RateAssumption DEF RateInv
<1>1. ASSUME ~crossed PROVE Cardinality({c \in counted : doing[c] = "granted"}) <= MaxHits
  <2>1. {c \in counted : doing[c] = "granted"} \subseteq Low(MaxHits)
    BY DEF HitsHold, Low, Acting
  <2>2. Cardinality(Low(MaxHits)) <= MaxHits
    BY <1>1 DEF HitsHold, Low
  <2>3. Cardinality({c \in counted : doing[c] = "granted"}) <= Cardinality(Low(MaxHits))
        /\ Cardinality({c \in counted : doing[c] = "granted"}) \in Nat
    BY <2>1, ActiveFinite, FS_Subset, FS_CardinalityType
  <2>4. QED
    BY <2>2, <2>3, ActiveFinite
<1>2. QED
  BY <1>1 DEF WindowHolds, TtlHolds

LEMMA RateAlways == RateSpec => [](RateTypeOK /\ WindowHolds)
<1>1. RateInit => RateInv
  <2> SUFFICES ASSUME RateInit PROVE RateInv
    OBVIOUS
  <2>1. RateTypeOK
    <3>1. 0 \in 0..Forever /\ 0 \in Int /\ 0 \in 0..MaxTicks
      BY RateAssumption DEF Forever
    <3>2. QED
      BY <3>1 DEF RateInit, RateTypeOK
  <2>2. Acting = {} /\ \A n : {c \in Acting : saw[c] <= n} = {}
    BY DEF RateInit, Acting
  <2>3. HitsHold
    <3>1. \A n \in Nat : Cardinality({}) <= n
      BY FS_EmptySet
    <3>2. ~Exists("hits") /\ IsFiniteSet({})
      BY FS_EmptySet DEF RateInit, Windows, Exists
    <3>3. \A c \in Callers : doing[c] = "idle"
      BY DEF RateInit
    <3>4. QED
      BY <2>2, <3>1, <3>2, <3>3 DEF RateInit, HitsHold, Callers
  <2>4. TtlHolds
    BY RateAssumption DEF RateInit, TtlHolds, Windows
  <2>5. QED
    BY <2>1, <2>3, <2>4 DEF RateInv
<1>2. RateInv /\ [RateNext]_rateVars => RateInv'
  <2> SUFFICES ASSUME RateInv, [RateNext]_rateVars PROVE RateInv'
    OBVIOUS
  <2>1. CASE RateNext
    BY <2>1, HitKeeps, PeekKeeps, RecordKeeps, ExpireKeeps, RefundAsksKeeps, RefundTakesKeeps,
       RefundFloorsKeeps, DiesKeeps, RateTickKeeps DEF RateNext
  <2>2. CASE UNCHANGED rateVars
    BY <2>2 DEF rateVars, RateInv, RateTypeOK, HitsHold, TtlHolds, Acting, Exists, StartsWindow
  <2>3. QED
    BY <2>1, <2>2
<1>3. RateInv => RateTypeOK /\ WindowHolds
  BY WindowFollows DEF RateInv
<1>4. QED
  BY <1>1, <1>2, <1>3, PTL DEF RateSpec

-----------------------------------------------------------------------------
(***************************************************************************)
(* Calls in a sliding window.  The log has a hit for each caller that was  *)
(* let through, as long as that caller is in the window.                   *)
(***************************************************************************)

LetAfter(u) == {g \in let : g.at > u}
LogAfter(u) == {h \in log : h.score > u}

\* While nobody's clock is ahead and no member was added twice, the log has a
\* hit for each caller let through as long as that one is in the window.
SlidesHold ==
    /\ IsFiniteSet(log) /\ IsFiniteSet(let)
    /\ \A g \in let : g.at <= clock /\ g.who \in slid
    /\ ~collided /\ ~skewed =>
          /\ \A h \in log : h.score <= clock
          /\ \A u \in Int : u >= clock - SlideWindow =>
                Cardinality(LetAfter(u)) <= Cardinality(LogAfter(u))
          /\ SlidingHolds

SlideInv == SlideTypeOK /\ SlidesHold

LEMMA AfterFinite ==
  ASSUME SlideInv
  PROVE  \A u : /\ IsFiniteSet(LetAfter(u)) /\ Cardinality(LetAfter(u)) \in Nat
                /\ IsFiniteSet(LogAfter(u)) /\ Cardinality(LogAfter(u)) \in Nat
<1>1. \A u : LetAfter(u) \subseteq let /\ LogAfter(u) \subseteq log
  BY DEF LetAfter, LogAfter
<1>2. IsFiniteSet(let) /\ IsFiniteSet(log)
  BY DEF SlideInv, SlidesHold
<1>3. QED
  BY <1>1, <1>2, FS_Subset, FS_CardinalityType

LEMMA SlideTickKeeps ==
  ASSUME SlideInv, SlideTick
  PROVE  SlideInv'
<1> USE SlideAssumption DEF SlideInv
<1>1. /\ clock \in Nat /\ clock' = clock + 1 /\ clock' \in 0..SlideTicks
      /\ UNCHANGED <<log, seq, slid, let, unanswered, skewed, collided>>
  BY DEF SlideTick, SlideTypeOK
<1>2. SlideTypeOK'
  BY <1>1 DEF SlideTypeOK
<1>3. \A u : LetAfter(u)' = LetAfter(u) /\ LogAfter(u)' = LogAfter(u)
  BY <1>1 DEF LetAfter, LogAfter
<1>4. \A g \in let : g.at \in Nat /\ g.at <= clock
  BY DEF SlideTypeOK, SlidesHold
<1>5. ASSUME ~collided, ~skewed PROVE SlidingHolds'
  <2>1. ASSUME NEW t \in 0..clock'
        PROVE  Cardinality({g \in let : g.at \in (t - SlideWindow + 1)..t}) <= SlideLimit
    <3>1. CASE t \in 0..clock
      BY <3>1, <1>5 DEF SlidesHold, SlidingHolds
    <3>2. CASE t = clock + 1
      <4> DEFINE old == {g \in let : g.at \in (t - SlideWindow + 1)..t}
                 new == {g \in let : g.at \in (clock - SlideWindow + 1)..clock}
      <4>1. old \subseteq new /\ new \subseteq let
        BY <3>2, <1>1, <1>4
      <4>2. IsFiniteSet(new)
        BY <4>1, FS_Subset DEF SlidesHold
      <4>3. Cardinality(old) <= Cardinality(new) /\ Cardinality(old) \in Nat /\ Cardinality(new) \in Nat
        BY <4>1, <4>2, FS_Subset, FS_CardinalityType
      <4>4. Cardinality(new) <= SlideLimit
        BY <1>1, <1>5 DEF SlidesHold, SlidingHolds
      <4>5. QED
        BY <4>3, <4>4
    <3>3. QED
      BY <2>1, <3>1, <3>2, <1>1
  <2>2. QED
    BY <2>1, <1>1 DEF SlidingHolds
<1>6. ASSUME ~collided, ~skewed
      PROVE  /\ \A h \in log : h.score <= clock'
             /\ \A u \in Int : u >= clock' - SlideWindow =>
                   Cardinality(LetAfter(u)) <= Cardinality(LogAfter(u))
  <2>1. \A h \in log : h.score \in Nat
    BY DEF SlideTypeOK
  <2>2. \A u \in Int : u >= clock' - SlideWindow => u >= clock - SlideWindow
    BY <1>1
  <2>3. QED
    BY <1>1, <1>6, <2>1, <2>2 DEF SlidesHold
<1>7. \A g \in let : g.at <= clock' /\ g.who \in slid
  BY <1>1, <1>4 DEF SlidesHold
<1>8. SlidesHold'
  BY <1>1, <1>3, <1>5, <1>6, <1>7 DEF SlidesHold
<1>9. QED
  BY <1>2, <1>8

\* What a call drops is older than the window.
LEMMA LiveKeeps ==
  ASSUME SlideInv, NEW u \in Int, u >= clock - SlideWindow
  PROVE  {h \in Live(clock) : h.score > u} = LogAfter(u)
<1>1. clock \in Nat /\ SlideWindow \in Nat /\ \A h \in log : h.score \in Nat
  BY SlideAssumption DEF SlideInv, SlideTypeOK
<1>2. QED
  BY <1>1 DEF Live, LogAfter

LEMMA PeekSlideKeeps ==
  ASSUME SlideInv, NEW s \in Servers, PeekSlide(s)
  PROVE  SlideInv'
<1> USE SlideAssumption DEF SlideInv
<1>1. /\ log' = Live(clock + Ahead[s]) /\ log' \subseteq log /\ Ahead[s] \in Nat
      /\ skewed' = (skewed \/ Ahead[s] > 0) /\ clock \in Nat
      /\ UNCHANGED <<seq, slid, let, unanswered, collided, clock>>
  BY DEF PeekSlide, Live, SlideTypeOK
<1>2. SlideTypeOK'
  BY <1>1 DEF SlideTypeOK
<1>3. IsFiniteSet(log')
  BY <1>1, FS_Subset DEF SlidesHold
<1>4. ASSUME ~collided', ~skewed'
      PROVE  /\ \A h \in log' : h.score <= clock'
             /\ \A u \in Int : u >= clock' - SlideWindow =>
                   Cardinality(LetAfter(u)') <= Cardinality(LogAfter(u)')
  <2>1. ~collided /\ ~skewed /\ Ahead[s] = 0 /\ log' = Live(clock)
    <3>1. ~collided /\ ~skewed /\ ~(Ahead[s] > 0)
      BY <1>1, <1>4
    <3>2. Ahead[s] = 0 /\ clock + Ahead[s] = clock
      BY <3>1, <1>1
    <3>3. QED
      BY <1>1, <3>1, <3>2
  <2>2. \A u \in Int : u >= clock - SlideWindow => LogAfter(u)' = LogAfter(u)
    <3>1. \A u : LogAfter(u)' = {h \in Live(clock) : h.score > u}
      BY <2>1 DEF LogAfter
    <3>2. QED
      BY <3>1, LiveKeeps
  <2>3. \A u : LetAfter(u)' = LetAfter(u)
    BY <1>1 DEF LetAfter
  <2>4. QED
    BY <1>1, <2>1, <2>2, <2>3 DEF SlidesHold
<1>5. ~collided' /\ ~skewed' => SlidingHolds'
  BY <1>1 DEF SlidesHold, SlidingHolds
<1>6. SlidesHold'
  BY <1>1, <1>3, <1>4, <1>5 DEF SlidesHold
<1>7. QED
  BY <1>2, <1>6

LEMMA SlideKeeps ==
  ASSUME SlideInv, NEW c \in Sliders, Slide(c)
  PROVE  SlideInv'
<1> USE SlideAssumption DEF SlideInv
<1> DEFINE s == ServerOf[c]
           live == Live(NowAt(c))
           hit == [score |-> NowAt(c), member |-> <<NowAt(c), NextSeq(s)>>]
           pass == [at |-> clock, who |-> c]
<1>1. /\ c \notin slid /\ slid' = slid \cup {c} /\ seq' = [seq EXCEPT ![s] = NextSeq(s)]
      /\ skewed' = (skewed \/ Ahead[s] > 0) /\ clock' = clock /\ UNCHANGED unanswered
      /\ IF Cardinality(live) < SlideLimit
         THEN /\ log' = live \cup {hit} /\ let' = let \cup {pass}
              /\ collided' = (collided \/ hit \in log)
         ELSE log' = live /\ let' = let /\ (collided' <=> collided)
  <2>1. /\ log' = live \cup (IF UnderLimit(c) THEN {hit} ELSE {})
        /\ collided' = (collided \/ (UnderLimit(c) /\ hit \in log))
        /\ let' = let \cup (IF UnderLimit(c) THEN {pass} ELSE {})
    BY DEF Slide, RunScript, NewHit
  <2>2. UnderLimit(c) <=> Cardinality(live) < SlideLimit
    BY DEF UnderLimit
  <2>3. CASE UnderLimit(c)
    BY <2>1, <2>2, <2>3 DEF Slide, Call
  <2>4. CASE ~UnderLimit(c)
    BY <2>1, <2>2, <2>4 DEF Slide, Call
  <2>5. QED
    BY <2>3, <2>4
<1>2. /\ s \in Servers /\ Ahead[s] \in Nat /\ clock \in Nat /\ NowAt(c) \in Nat /\ NowAt(c) = clock + Ahead[s]
      /\ seq[s] \in 0..Seqs - 1 /\ NextSeq(s) \in 0..Seqs - 1
      /\ live \subseteq log
  <2>1. s \in Servers
    BY DEF Servers
  <2>2. seq[s] \in 0..Seqs - 1 /\ clock \in Nat
    BY <2>1 DEF SlideTypeOK
  <2>3. NextSeq(s) \in 0..Seqs - 1
    BY <2>2 DEF NextSeq
  <2>4. QED
    BY <2>1, <2>2, <2>3 DEF NowAt, Live
<1> HIDE DEF s
<1>3. /\ hit \in [score : Nat, member : Nat \X (0..Seqs - 1)] /\ hit.score = NowAt(c)
      /\ pass \in [at : 0..SlideTicks, who : Sliders] /\ pass.at = clock /\ pass.who = c /\ pass \notin let
  BY <1>1, <1>2 DEF SlideTypeOK, SlidesHold
<1>4. IsFiniteSet(live) /\ Cardinality(live) \in Nat
  BY <1>2, FS_Subset, FS_CardinalityType DEF SlidesHold
<1> HIDE DEF hit, pass
<1>5. SlideTypeOK'
  <2>1. log' \subseteq log \cup {hit} /\ let' \subseteq let \cup {pass}
    BY <1>1, <1>2
  <2>2. log' \subseteq [score : Nat, member : Nat \X (0..Seqs - 1)]
    BY <1>3, <2>1 DEF SlideTypeOK
  <2>3. let' \subseteq [at : 0..SlideTicks, who : Sliders]
    BY <1>3, <2>1 DEF SlideTypeOK
  <2>4. seq' \in [Servers -> 0..Seqs - 1]
    BY <1>1, <1>2 DEF SlideTypeOK
  <2>5. slid' \subseteq Sliders /\ unanswered' \subseteq slid' /\ clock' \in 0..SlideTicks
    BY <1>1 DEF SlideTypeOK
  <2>6. collided' \in BOOLEAN
    BY DEF Slide, RunScript
  <2>7. skewed' \in BOOLEAN
    BY <1>1 DEF SlideTypeOK
  <2>8. QED
    BY <2>2, <2>3, <2>4, <2>5, <2>6, <2>7 DEF SlideTypeOK
<1>6. /\ IsFiniteSet(log') /\ IsFiniteSet(let')
      /\ \A g \in let' : g.at <= clock' /\ g.who \in slid'
  <2>1. IsFiniteSet(live \cup {hit}) /\ IsFiniteSet(let \cup {pass})
    BY <1>4, FS_AddElement DEF SlidesHold
  <2>2. IsFiniteSet(log') /\ IsFiniteSet(let') /\ let' \subseteq let \cup {pass}
    BY <1>1, <1>4, <2>1 DEF SlidesHold
  <2>3. QED
    BY <1>1, <1>2, <1>3, <2>2 DEF SlidesHold
<1>7. ASSUME ~collided', ~skewed'
      PROVE  /\ \A h \in log' : h.score <= clock'
             /\ \A u \in Int : u >= clock' - SlideWindow =>
                   Cardinality(LetAfter(u)') <= Cardinality(LogAfter(u)')
             /\ SlidingHolds'
  <2>1. ~collided /\ ~skewed /\ NowAt(c) = clock /\ live = Live(clock)
    <3>1. ~collided /\ ~skewed /\ ~(Ahead[s] > 0)
      BY <1>1, <1>7
    <3>2. Ahead[s] = 0 /\ clock + Ahead[s] = clock
      BY <3>1, <1>2
    <3>3. QED
      BY <1>2, <3>1, <3>2
  <2> HIDE DEF live
  <2>2. \A h \in log' : h.score <= clock'
    BY <2>1, <1>1, <1>2, <1>3 DEF SlidesHold
  <2>3. CASE Cardinality(live) < SlideLimit
    <3>1. log' = live \cup {hit} /\ let' = let \cup {pass} /\ hit \notin log
      BY <2>3, <1>1, <1>7
    <3>2. ASSUME NEW u \in Int, u >= clock' - SlideWindow
          PROVE  Cardinality(LetAfter(u)') <= Cardinality(LogAfter(u)')
      <4>1. /\ {h \in live : h.score > u} = LogAfter(u)
            /\ Cardinality(LetAfter(u)) <= Cardinality(LogAfter(u))
        BY <2>1, <3>2, <1>1, LiveKeeps DEF SlidesHold
      <4>2. CASE clock > u
        <5>1. /\ LetAfter(u)' = LetAfter(u) \cup {pass} /\ pass \notin LetAfter(u)
              /\ LogAfter(u)' = LogAfter(u) \cup {hit} /\ hit \notin LogAfter(u)
          BY <3>1, <4>1, <4>2, <2>1, <1>3 DEF LetAfter, LogAfter
        <5>2. /\ Cardinality(LetAfter(u)') = Cardinality(LetAfter(u)) + 1
              /\ Cardinality(LogAfter(u)') = Cardinality(LogAfter(u)) + 1
          BY <5>1, AfterFinite, FS_AddElement
        <5>3. QED
          BY <5>2, <4>1, AfterFinite
      <4>3. CASE ~(clock > u)
        <5>1. LetAfter(u)' = LetAfter(u) /\ LogAfter(u)' = LogAfter(u)
          BY <3>1, <4>1, <4>3, <2>1, <1>3 DEF LetAfter, LogAfter
        <5>2. QED
          BY <5>1, <4>1
      <4>4. QED
        BY <4>2, <4>3
    <3>3. ASSUME NEW t \in 0..clock'
          PROVE  Cardinality({g \in let' : g.at \in (t - SlideWindow + 1)..t}) <= SlideLimit
      <4> DEFINE span == {g \in let : g.at \in (t - SlideWindow + 1)..t}
                 span2 == {g \in let' : g.at \in (t - SlideWindow + 1)..t}
                 edge == clock - SlideWindow
      <4>1. IsFiniteSet(span) /\ Cardinality(span) \in Nat /\ Cardinality(span) <= SlideLimit
        <5>1. span \subseteq let
          OBVIOUS
        <5>2. Cardinality(span) <= SlideLimit
          BY <2>1, <3>3, <1>1 DEF SlidesHold, SlidingHolds
        <5>3. QED
          BY <5>1, <5>2, FS_Subset, FS_CardinalityType DEF SlidesHold
      <4>2. CASE t < clock
        <5>1. span2 = span
          BY <3>1, <3>3, <4>2, <1>1, <1>2, <1>3
        <5>2. QED
          BY <5>1, <4>1
      <4>3. CASE t = clock
        <5>1. span2 \subseteq LetAfter(edge) \cup {pass}
          BY <3>1, <4>3, <1>2 DEF LetAfter, SlideTypeOK
        <5>2. Cardinality(LetAfter(edge)) <= Cardinality(LogAfter(edge)) /\ LogAfter(edge) = live
          <6>1. edge \in Int /\ edge >= clock - SlideWindow
            BY <1>2
          <6>2. LogAfter(edge) = live
            BY <2>1 DEF LogAfter, Live
          <6>3. QED
            BY <6>1, <6>2, <2>1 DEF SlidesHold
        <5>3. pass \notin LetAfter(edge)
          BY <1>3 DEF LetAfter
        <5>4. IsFiniteSet(LetAfter(edge) \cup {pass})
              /\ Cardinality(LetAfter(edge) \cup {pass}) = Cardinality(LetAfter(edge)) + 1
          BY <5>3, AfterFinite, FS_AddElement
        <5>5. Cardinality(span2) <= Cardinality(LetAfter(edge) \cup {pass}) /\ Cardinality(span2) \in Nat
          BY <5>1, <5>4, FS_Subset, FS_CardinalityType
        <5>6. QED
          BY <5>2, <5>4, <5>5, <2>3, <1>4, AfterFinite
      <4>4. QED
        BY <3>3, <4>2, <4>3, <1>1, <1>2
    <3>4. QED
      BY <2>2, <3>2, <3>3 DEF SlidingHolds
  <2>4. CASE ~(Cardinality(live) < SlideLimit)
    <3>1. log' = live /\ let' = let
      BY <2>4, <1>1
    <3>2. \A u : LetAfter(u)' = LetAfter(u) /\ LogAfter(u)' = {h \in live : h.score > u}
      BY <3>1 DEF LetAfter, LogAfter
    <3>3. \A u \in Int : u >= clock - SlideWindow => {h \in live : h.score > u} = LogAfter(u)
      BY <2>1, LiveKeeps
    <3>4. SlidingHolds'
      BY <3>1, <2>1, <1>1 DEF SlidesHold, SlidingHolds
    <3>5. QED
      BY <2>1, <2>2, <3>2, <3>3, <3>4, <1>1 DEF SlidesHold
  <2>5. QED
    BY <2>3, <2>4
<1>8. SlidesHold'
  BY <1>6, <1>7 DEF SlidesHold
<1>9. QED
  BY <1>5, <1>8

\* A call whose answer is lost may have left its hit, which only lowers what is
\* let through after it.
LEMMA SlideFailsKeeps ==
  ASSUME SlideInv, NEW c \in Sliders, SlideFails(c)
  PROVE  SlideInv'
<1> USE SlideAssumption DEF SlideInv
<1> DEFINE s == ServerOf[c]
           live == Live(NowAt(c))
           hit == NewHit(c)
<1>1. /\ slid' = slid \cup {c} /\ seq' = [seq EXCEPT ![s] = NextSeq(s)]
      /\ skewed' = (skewed \/ Ahead[s] > 0) /\ clock' = clock
      /\ unanswered' = unanswered \cup {c} /\ let' = let
  BY DEF SlideFails, Call
<1>2. /\ s \in Servers /\ Ahead[s] \in Nat /\ clock \in Nat /\ NowAt(c) \in Nat /\ NowAt(c) = clock + Ahead[s]
      /\ seq[s] \in 0..Seqs - 1 /\ NextSeq(s) \in 0..Seqs - 1
  <2>1. s \in Servers
    BY DEF Servers
  <2>2. seq[s] \in 0..Seqs - 1 /\ clock \in Nat
    BY <2>1 DEF SlideTypeOK
  <2>3. NextSeq(s) \in 0..Seqs - 1
    BY <2>2 DEF NextSeq
  <2>4. QED
    BY <2>1, <2>2, <2>3 DEF NowAt
<1>3. /\ hit \in [score : Nat, member : Nat \X (0..Seqs - 1)] /\ hit.score = NowAt(c)
  BY <1>2 DEF NewHit
<1>4. /\ log' \in {log, live, live \cup {hit}} /\ (collided => collided')
      /\ collided' \in BOOLEAN
  <2>1. CASE RunScript(c)
    <3>1. /\ log' = live \cup (IF UnderLimit(c) THEN {hit} ELSE {})
          /\ collided' = (collided \/ (UnderLimit(c) /\ hit \in log))
      BY <2>1 DEF RunScript
    <3>2. CASE UnderLimit(c)
      BY <3>1, <3>2 DEF SlideTypeOK
    <3>3. CASE ~UnderLimit(c)
      BY <3>1, <3>3 DEF SlideTypeOK
    <3>4. QED
      BY <3>2, <3>3
  <2>2. CASE UNCHANGED <<log, collided>>
    BY <2>2 DEF SlideTypeOK
  <2>3. QED
    BY <2>1, <2>2 DEF SlideFails
<1> HIDE DEF s, hit
<1>5. live \subseteq log
  BY DEF Live
<1>6. SlideTypeOK'
  BY <1>1, <1>2, <1>3, <1>4, <1>5 DEF SlideTypeOK
<1>7. IsFiniteSet(log')
  <2>1. IsFiniteSet(log) /\ IsFiniteSet(live)
    BY <1>5, FS_Subset DEF SlidesHold
  <2>2. IsFiniteSet(live \cup {hit})
    BY <2>1, FS_AddElement
  <2>3. QED
    BY <1>4, <2>1, <2>2
<1>8. ASSUME ~collided', ~skewed'
      PROVE  /\ \A h \in log' : h.score <= clock'
             /\ \A u \in Int : u >= clock' - SlideWindow =>
                   Cardinality(LetAfter(u)') <= Cardinality(LogAfter(u)')
             /\ SlidingHolds'
  <2>1. ~collided /\ ~skewed /\ NowAt(c) = clock /\ live = Live(clock)
    <3>1. ~collided /\ ~skewed /\ ~(Ahead[s] > 0)
      BY <1>1, <1>4, <1>8
    <3>2. Ahead[s] = 0 /\ clock + Ahead[s] = clock
      BY <3>1, <1>2
    <3>3. QED
      BY <1>2, <3>1, <3>2
  <2>2. \A h \in log' : h.score <= clock'
    BY <2>1, <1>1, <1>2, <1>3, <1>4, <1>5 DEF SlidesHold
  <2>3. ASSUME NEW u \in Int, u >= clock' - SlideWindow
        PROVE  Cardinality(LetAfter(u)') <= Cardinality(LogAfter(u)')
    <3>1. LetAfter(u)' = LetAfter(u) /\ Cardinality(LetAfter(u)) <= Cardinality(LogAfter(u))
      BY <2>1, <2>3, <1>1 DEF SlidesHold, LetAfter
    <3>2. {h \in live : h.score > u} = LogAfter(u)
      BY <2>1, <2>3, <1>1, LiveKeeps
    <3>3. LogAfter(u) \subseteq LogAfter(u)' /\ LogAfter(u)' \subseteq log'
      <4> HIDE DEF live
      <4>1. LogAfter(u) \subseteq live /\ LogAfter(u) \subseteq log
        BY <3>2 DEF LogAfter
      <4>2. LogAfter(u)' = {h \in log' : h.score > u}
        BY DEF LogAfter
      <4>3. QED
        BY <4>1, <4>2, <1>4 DEF LogAfter
    <3>4. Cardinality(LogAfter(u)) <= Cardinality(LogAfter(u)') /\ Cardinality(LogAfter(u)') \in Nat
      BY <3>3, <1>7, FS_Subset, FS_CardinalityType
    <3>5. QED
      BY <3>1, <3>4, AfterFinite
  <2>4. SlidingHolds'
    BY <2>1, <1>1 DEF SlidesHold, SlidingHolds
  <2>5. QED
    BY <2>2, <2>3, <2>4
<1>9. SlidesHold'
  BY <1>1, <1>7, <1>8 DEF SlidesHold
<1>10. QED
  BY <1>6, <1>9

LEMMA SlideAlways == SlideSpec => [](SlideTypeOK /\ SlidingHolds)
<1>1. SlideInit => SlideInv
  <2> SUFFICES ASSUME SlideInit PROVE SlideInv
    OBVIOUS
  <2> USE SlideAssumption DEF SlideInit
  <2>1. SlideTypeOK
    <3>1. 0 \in 0..Seqs - 1 /\ 0 \in 0..SlideTicks
      OBVIOUS
    <3>2. QED
      BY <3>1 DEF SlideTypeOK
  <2>2. IsFiniteSet({}) /\ Cardinality({}) = 0
    BY FS_EmptySet
  <2>3. \A u : LetAfter(u) = {} /\ LogAfter(u) = {}
    BY DEF LetAfter, LogAfter
  <2>4. SlidingHolds
    <3>1. \A t : {g \in let : g.at \in (t - SlideWindow + 1)..t} = {}
      OBVIOUS
    <3>2. QED
      BY <2>2, <3>1 DEF SlidingHolds
  <2>5. QED
    BY <2>1, <2>2, <2>3, <2>4 DEF SlideInv, SlidesHold
<1>2. SlideInv /\ [SlideNext]_slideVars => SlideInv'
  <2> SUFFICES ASSUME SlideInv, [SlideNext]_slideVars PROVE SlideInv'
    OBVIOUS
  <2>1. CASE SlideNext
    BY <2>1, SlideTickKeeps, SlideKeeps, SlideFailsKeeps, PeekSlideKeeps DEF SlideNext
  <2>2. CASE UNCHANGED slideVars
    BY <2>2 DEF slideVars, SlideInv, SlideTypeOK, SlidesHold, SlidingHolds, LetAfter, LogAfter
  <2>3. QED
    BY <2>1, <2>2
<1>3. SlideInv => SlideTypeOK /\ SlidingHolds
  BY DEF SlideInv, SlidesHold, SlidingHolds
<1>4. QED
  BY <1>1, <1>2, <1>3, PTL DEF SlideSpec

\* The limits hold for every number of devices and callers: nobody stays
\* connected without a slot or an order to go, unless a Redis call, a kick or a
\* gateway is lost, and no window lets more through than it may, but where
\* clocks differ, members collide, a refund is late or a call got no answer (the
\* connection registry and both rate limiters).
THEOREM LimitsHoldAlways == CapSpec /\ RateSpec /\ SlideSpec => []LimitsHold
<1>1. /\ CapTypeOK /\ CapHolds
      /\ RateTypeOK /\ WindowHolds
      /\ SlideTypeOK /\ SlidingHolds
      => LimitsHold
  BY DEF LimitsHold
<1>2. QED
  BY <1>1, CapAlways, RateAlways, SlideAlways, PTL

-----------------------------------------------------------------------------
(***************************************************************************)
(* Fetches.  What a fetch owes lies ahead of its cursor, and a counted     *)
(* range is worth the one fetch that its confirmation allows.              *)
(***************************************************************************)

\* The members of S below i.
BelowIn(S, i) == {j \in S : j < i}

LEMMA BelowCounts ==
  ASSUME NEW S, IsFiniteSet(S), S \subseteq Nat
  PROVE  \A i \in S : /\ BelowIn(S, i) \subseteq S /\ i \notin BelowIn(S, i)
                      /\ IsFiniteSet(BelowIn(S, i)) /\ Cardinality(BelowIn(S, i)) \in Nat
                      /\ Cardinality(S) \in Nat /\ Cardinality(BelowIn(S, i)) < Cardinality(S)
<1> TAKE i \in S
<1>1. BelowIn(S, i) \subseteq S /\ i \notin BelowIn(S, i)
  BY DEF BelowIn
<1>2. /\ IsFiniteSet(BelowIn(S, i)) /\ Cardinality(BelowIn(S, i)) \in Nat /\ Cardinality(S) \in Nat
      /\ Cardinality(BelowIn(S, i)) <= Cardinality(S) /\ Cardinality(BelowIn(S, i)) # Cardinality(S)
  BY <1>1, FS_Subset, FS_CardinalityType
<1>3. QED
  BY <1>1, <1>2

\* A finite set of numbers has a highest one.
LEMMA HighestIsIn ==
  ASSUME NEW S, IsFiniteSet(S), S \subseteq Nat, S # {}
  PROVE  Highest(S) \in S /\ \A j \in S : j <= Highest(S)
<1> DEFINE Above(i) == Cardinality(S) - Cardinality(BelowIn(S, i))
           N == {Above(i) : i \in S}
<1>0. \A i \in S : /\ i \notin BelowIn(S, i) /\ Cardinality(BelowIn(S, i)) \in Nat
                   /\ IsFiniteSet(BelowIn(S, i))
                   /\ Cardinality(S) \in Nat /\ Cardinality(BelowIn(S, i)) < Cardinality(S)
  BY BelowCounts
<1>1. N \subseteq Nat /\ N # {}
  <2>1. \A i \in S : Above(i) \in Nat
    BY <1>0
  <2>2. QED
    BY <2>1
<1>2. PICK n \in N : \A m \in N : n <= m
  BY <1>1, LeastExists
<1>3. PICK i \in S : n = Above(i)
  BY <1>2
<1>4. ASSUME NEW j \in S, ~(j <= i) PROVE FALSE
  <2>1. i < j /\ \A k \in S : k < i => k < j
    BY <1>4
  <2>2. BelowIn(S, i) \subseteq BelowIn(S, j) /\ i \in BelowIn(S, j)
    BY <2>1 DEF BelowIn
  <2>3. /\ Cardinality(BelowIn(S, i)) <= Cardinality(BelowIn(S, j))
        /\ Cardinality(BelowIn(S, i)) # Cardinality(BelowIn(S, j))
    BY <1>0, <2>2, FS_Subset
  <2>4. Above(i) <= Above(j)
    BY <1>2, <1>3
  <2>5. QED
    BY <1>0, <2>3, <2>4
<1>5. \E k \in S : \A j \in S : j <= k
  BY <1>4
<1>6. QED
  BY <1>5 DEF Highest

\* The lowest n are a part from below, and all when they are no more than n.
LEMMA LowestIsLow ==
  ASSUME NEW S, IsFiniteSet(S), S \subseteq Nat, NEW n \in Nat
  PROVE  /\ Lowest(S, n) \subseteq S /\ IsFiniteSet(Lowest(S, n))
         /\ \A i \in Lowest(S, n), j \in S : j <= i => j \in Lowest(S, n)
         /\ Cardinality(S) <= n => Lowest(S, n) = S
<1>1. Lowest(S, n) = {i \in S : Cardinality(BelowIn(S, i)) < n}
  BY DEF Lowest, BelowIn
<1>0. \A i \in S : /\ IsFiniteSet(BelowIn(S, i)) /\ Cardinality(BelowIn(S, i)) \in Nat
                   /\ Cardinality(S) \in Nat /\ Cardinality(BelowIn(S, i)) < Cardinality(S)
  BY BelowCounts
<1>2. Lowest(S, n) \subseteq S /\ IsFiniteSet(Lowest(S, n))
  BY <1>1, FS_Subset
<1>3. ASSUME NEW i \in Lowest(S, n), NEW j \in S, j <= i
      PROVE  j \in Lowest(S, n)
  <2>1. i \in S /\ \A k \in S : k < j => k < i
    <3>1. i \in S /\ i \in Nat /\ j \in Nat
      BY <1>2
    <3>2. QED
      BY <1>3, <3>1
  <2>2. BelowIn(S, j) \subseteq BelowIn(S, i)
    BY <2>1 DEF BelowIn
  <2>3. Cardinality(BelowIn(S, j)) <= Cardinality(BelowIn(S, i))
    BY <1>0, <2>1, <2>2, FS_Subset
  <2>4. Cardinality(BelowIn(S, i)) < n
    BY <1>1
  <2>5. Cardinality(BelowIn(S, j)) < n
    BY <1>0, <2>1, <2>3, <2>4
  <2>6. QED
    BY <1>1, <2>5
<1>4. ASSUME Cardinality(S) <= n PROVE Lowest(S, n) = S
  <2>1. \A i \in S : Cardinality(BelowIn(S, i)) < n
    BY <1>0, <1>4
  <2>2. QED
    BY <1>1, <2>1
<1>5. QED
  BY <1>2, <1>3, <1>4

-----------------------------------------------------------------------------
BulkTyped ==
    /\ BulkTypeOK
    /\ turn \in [Turns -> [open : BOOLEAN, pending : Confirms, dirty : BOOLEAN]]
    /\ chain \in [Turns -> [span : Spans \cup {{}}, after : Ids \cup {FromStart}, owed : SUBSET Ids,
                            seen : SUBSET Ids, ended : BOOLEAN]]

\* What a fetch owes and has not returned lies after its cursor.
OwedLiesAhead ==
    \A t \in Turns :
        /\ chain[t].owed \subseteq chain[t].span \cap inChat
        /\ ~capped => \A i \in chain[t].owed : i \in chain[t].seen \/ i > chain[t].after
        /\ ~capped /\ chain[t].ended => chain[t].owed \subseteq chain[t].seen

\* The confirmation a turn works with, or the committed one when none is open,
\* is worth one more fetch.
IsWorth(c) == c.span # {}
ConfirmIsCounted ==
    ~shared /\ ~undone =>
        /\ fetches <= counts
        /\ \A t, u \in Turns : turn[t].open /\ turn[u].open => t = u
        /\ \A t \in Turns : turn[t].open /\ ~turn[t].dirty => turn[t].pending = agentRow
        /\ \A t \in Turns : turn[t].open /\ IsWorth(turn[t].pending) => fetches + 1 <= counts
        /\ (\A t \in Turns : ~turn[t].open) /\ IsWorth(agentRow) => fetches + 1 <= counts

BulkInv == BulkTyped /\ OwedLiesAhead /\ ConfirmIsCounted

LEMMA BulkInitHolds == BulkInit => BulkInv
<1> SUFFICES ASSUME BulkInit PROVE BulkInv
  OBVIOUS
<1> USE BulkAssumption
<1>1. /\ NoConfirm \in Confirms /\ ~IsWorth(NoConfirm)
      /\ NoChain \in [span : Spans \cup {{}}, after : Ids \cup {FromStart}, owed : SUBSET Ids,
                      seen : SUBSET Ids, ended : BOOLEAN]
  BY DEF NoConfirm, Confirms, IsWorth, NoChain
<1>2. /\ turn \in [Turns -> [open : BOOLEAN, pending : Confirms, dirty : BOOLEAN]]
      /\ chain \in [Turns -> [span : Spans \cup {{}}, after : Ids \cup {FromStart}, owed : SUBSET Ids,
                              seen : SUBSET Ids, ended : BOOLEAN]]
      /\ \A t \in Turns : chain[t] = NoChain /\ ~turn[t].open
  BY <1>1 DEF BulkInit
<1>3. BulkTypeOK
  <2>1. /\ inChat \subseteq Ids /\ agentRow \in Confirms /\ counts = 0 /\ fetches = 0 /\ capped = FALSE
        /\ shared = FALSE /\ undone = FALSE /\ moves = 0 /\ minute = 0
    BY <1>1 DEF BulkInit
  <2>2. MaxCounts \in Nat /\ 2 * MaxCounts \in Nat /\ Minutes \in Nat /\ MaxMoves \in Nat
    OBVIOUS
  <2>3. \A t \in Turns :
          /\ turn[t].open \in BOOLEAN /\ turn[t].pending \in Confirms /\ turn[t].dirty \in BOOLEAN
          /\ chain[t].span \in Spans \cup {{}} /\ chain[t].after \in Ids \cup {FromStart}
          /\ chain[t].seen \subseteq Ids /\ chain[t].owed \subseteq Ids
    BY <1>2
  <2>4. QED
    <3>1. counts \in 0..MaxCounts /\ fetches \in 0..2 * MaxCounts /\ moves \in 0..MaxMoves /\ minute \in 0..Minutes
      BY <2>1, <2>2
    <3>2. QED
      BY <2>1, <2>3, <3>1, Zenon DEF BulkTypeOK
<1>4. OwedLiesAhead
  BY <1>2 DEF OwedLiesAhead, NoChain
<1>5. ConfirmIsCounted
  BY <1>1, <1>2 DEF BulkInit, ConfirmIsCounted
<1>6. QED
  BY <1>2, <1>3, <1>4, <1>5 DEF BulkInv, BulkTyped

LEMMA OpenTurnKeeps ==
  ASSUME BulkInv, NEW t \in Turns, OpenTurn(t)
  PROVE  BulkInv'
<1> USE DEF BulkInv
<1>1. /\ turn'[t] = [open |-> TRUE, pending |-> agentRow, dirty |-> FALSE]
      /\ \A u \in Turns : u # t => turn'[u] = turn[u]
      /\ turn' \in [Turns -> [open : BOOLEAN, pending : Confirms, dirty : BOOLEAN]]
      /\ UNCHANGED <<inChat, agentRow, chain, counts, fetches, capped, undone, moves, minute>>
      /\ ~turn[t].open
  BY DEF OpenTurn, BulkTyped, BulkTypeOK
<1>2. /\ shared' \in BOOLEAN /\ (shared => shared')
      /\ ~shared' => \A u \in Turns : ~turn[u].open
  BY DEF OpenTurn
<1>3. BulkTyped'
  BY <1>1, <1>2 DEF BulkTyped, BulkTypeOK
<1>4. OwedLiesAhead'
  BY <1>1 DEF OwedLiesAhead
<1>5. ConfirmIsCounted'
  BY <1>1, <1>2 DEF ConfirmIsCounted
<1>6. QED
  BY <1>3, <1>4, <1>5

\* Setting a turn's confirmation when that is counted.
LEMMA SetsIsCounted ==
  ASSUME BulkInv, NEW t \in Turns, NEW c \in Confirms, turn[t].open, Sets(t, c),
         UNCHANGED <<agentRow, shared, undone>>, counts' \in Nat, fetches' \in Nat,
         ~shared /\ ~undone => fetches' <= counts',
         ~shared /\ ~undone /\ IsWorth(c) => fetches' + 1 <= counts'
  PROVE  /\ turn' \in [Turns -> [open : BOOLEAN, pending : Confirms, dirty : BOOLEAN]]
         /\ ConfirmIsCounted'
<1>1. /\ turn'[t].open /\ turn'[t].pending = c /\ turn'[t].dirty = (turn[t].dirty \/ c # turn[t].pending)
      /\ \A u \in Turns : u # t => turn'[u] = turn[u]
      /\ turn' \in [Turns -> [open : BOOLEAN, pending : Confirms, dirty : BOOLEAN]]
  BY ZenonT(30) DEF Sets, BulkInv, BulkTyped
<1>2. ASSUME ~shared, ~undone
      PROVE  /\ \A u, v \in Turns : turn'[u].open /\ turn'[v].open => u = v
             /\ \A u \in Turns : turn'[u].open /\ ~turn'[u].dirty => turn'[u].pending = agentRow
             /\ \A u \in Turns : turn'[u].open /\ IsWorth(turn'[u].pending) => fetches' + 1 <= counts'
  BY <1>1, <1>2 DEF BulkInv, ConfirmIsCounted
<1>3. ConfirmIsCounted'
  BY <1>1, <1>2 DEF ConfirmIsCounted
<1>4. QED
  BY <1>1, <1>3

LEMMA CountRangeKeeps ==
  ASSUME BulkInv, NEW t \in Turns, NEW s \in Spans, CountRange(t, s)
  PROVE  BulkInv'
<1> USE DEF BulkInv
<1>1. /\ NoConfirm \in Confirms /\ ~IsWorth(NoConfirm)
      /\ [span |-> s, at |-> minute] \in Confirms
  BY BulkAssumption DEF NoConfirm, Confirms, IsWorth, BulkTyped, BulkTypeOK
<1>2. /\ turn[t].open /\ counts \in Nat /\ fetches \in Nat /\ counts' \in 0..MaxCounts
      /\ UNCHANGED <<inChat, agentRow, chain, fetches, capped, shared, undone, moves, minute>>
      /\ \/ Sets(t, NoConfirm) /\ UNCHANGED counts
         \/ Sets(t, [span |-> s, at |-> minute]) /\ counts' = counts + 1
  BY BulkAssumption DEF CountRange, BulkTyped, BulkTypeOK
<1>3. ~shared /\ ~undone => fetches <= counts
  BY DEF ConfirmIsCounted
<1>4. /\ turn' \in [Turns -> [open : BOOLEAN, pending : Confirms, dirty : BOOLEAN]]
      /\ ConfirmIsCounted'
  <2>1. CASE Sets(t, NoConfirm) /\ UNCHANGED counts
    BY <1>1, <1>2, <1>3, <2>1, SetsIsCounted
  <2>2. CASE Sets(t, [span |-> s, at |-> minute]) /\ counts' = counts + 1
    <3>1. counts' \in Nat /\ fetches' \in Nat
      BY <1>2, <2>2
    <3>2. ~shared /\ ~undone => (fetches' <= counts' /\ fetches' + 1 <= counts')
      BY <1>2, <1>3, <2>2
    <3>3. QED
      BY <1>1, <1>2, <2>2, <3>1, <3>2, SetsIsCounted
  <2>3. QED
    BY <1>2, <2>1, <2>2
<1>5. BulkTyped'
  BY <1>2, <1>4 DEF BulkTyped, BulkTypeOK
<1>6. OwedLiesAhead'
  BY <1>2 DEF OwedLiesAhead
<1>7. QED
  BY <1>4, <1>5, <1>6

\* A page that is no smaller than what was found is all that is owed.
LEMMA FetchKeeps ==
  ASSUME BulkInv, NEW t \in Turns, NEW s \in Spans, NEW limit \in {1, MaxFetch}, NEW first \in BOOLEAN,
         Fetch(t, s, limit, first)
  PROVE  BulkInv'
<1> USE DEF BulkInv
<1> DEFINE me == IF first THEN [NoChain EXCEPT !.span = s, !.owed = s \cap inChat] ELSE chain[t]
           rest == {i \in s \cap inChat : i > me.after}
           found == Lowest(rest, limit)
           page == Lowest(found, PageRows)
           more == HasMore(page, found)
           next == [me EXCEPT !.seen = @ \cup page, !.ended = ~more,
                              !.after = IF page = {} THEN @ ELSE Highest(page)]
<1>1. /\ s \subseteq Ids /\ s # {} /\ inChat \subseteq Ids /\ Ids \subseteq Nat /\ IsFiniteSet(Ids) /\ FromStart \in Nat
      /\ \A i \in Ids : i > FromStart
      /\ limit \in Nat /\ PageRows \in Nat /\ MaxFetch \in Nat
      /\ NoConfirm \in Confirms /\ ~IsWorth(NoConfirm)
      /\ counts \in Nat /\ fetches \in Nat /\ fetches < 2 * MaxCounts /\ MaxCounts \in Nat
  <2>1. fetches < 2 * MaxCounts
    BY DEF Fetch
  <2>2. NoConfirm \in Confirms /\ ~IsWorth(NoConfirm)
    BY BulkAssumption DEF NoConfirm, Confirms, IsWorth
  <2>3. inChat \subseteq Ids /\ counts \in 0..MaxCounts /\ fetches \in 0..2 * MaxCounts
    BY Zenon DEF BulkTyped, BulkTypeOK
  <2>4. \A i \in Ids : i > FromStart
    <3>1. \A i \in Ids : i \in Nat /\ i # 0
      BY BulkAssumption
    <3>2. QED
      BY <3>1 DEF FromStart
  <2>5. MaxCounts \in Nat /\ 2 * MaxCounts \in Nat /\ MaxFetch \in Nat /\ PageRows \in Nat /\ limit \in Nat
    BY BulkAssumption
  <2>6. counts \in Nat /\ fetches \in Nat /\ FromStart \in Nat
    BY <2>3, <2>5 DEF FromStart
  <2>7. s \subseteq Ids /\ s # {} /\ Ids \subseteq Nat /\ IsFiniteSet(Ids)
    BY BulkAssumption
  <2>8. QED
    BY <2>1, <2>2, <2>3, <2>4, <2>5, <2>6, <2>7
<1>2. /\ turn[t].open /\ turn[t].pending.span = s
      /\ ~first => chain[t].span = s
      /\ UNCHANGED <<inChat, agentRow, counts, shared, undone, moves, minute>>
      /\ \/ Sets(t, NoConfirm) /\ UNCHANGED <<chain, fetches, capped>>
         \/ /\ CountOf(s) <= MaxFetch
            /\ Spends(t, more)
            /\ chain' = [chain EXCEPT ![t] = next]
            /\ fetches' = fetches + (IF more THEN 0 ELSE 1)
            /\ capped' = (capped \/ limit < MaxFetch)
  <2>1. Cardinality(s \cap inChat) \in Nat
    BY <1>1, FS_Subset, FS_CardinalityType
  <2>2. QED
    BY <1>1, <2>1 DEF Fetch, Confirmed, CountOf
<1>3. /\ me \in [span : Spans \cup {{}}, after : Ids \cup {FromStart}, owed : SUBSET Ids,
                 seen : SUBSET Ids, ended : BOOLEAN]
      /\ me.span = s /\ me.owed \subseteq s \cap inChat
      /\ ~capped => \A i \in me.owed : i \in me.seen \/ i > me.after
  <2>1. CASE first
    BY <1>1, <2>1 DEF NoChain
  <2>2. CASE ~first
    BY <1>2, <2>2 DEF OwedLiesAhead, BulkTyped
  <2>3. QED
    BY <2>1, <2>2
<1> HIDE DEF me
<1>4. /\ rest \subseteq s \cap inChat /\ rest \subseteq Ids /\ rest \subseteq Nat /\ IsFiniteSet(rest)
      /\ CountOf(s) <= MaxFetch /\ ~(limit < MaxFetch) => Cardinality(rest) <= limit
  <2>1. rest \subseteq s \cap inChat /\ rest \subseteq Nat /\ s \cap inChat \subseteq Ids /\ rest \subseteq Ids
    BY <1>1
  <2>2. /\ IsFiniteSet(s \cap inChat) /\ IsFiniteSet(rest) /\ Cardinality(rest) \in Nat
        /\ Cardinality(s \cap inChat) \in Nat /\ Cardinality(rest) <= Cardinality(s \cap inChat)
    <3>1. IsFiniteSet(s \cap inChat)
      BY <1>1, <2>1, FS_Subset
    <3>2. QED
      BY <3>1, <2>1, FS_Subset, FS_CardinalityType
  <2>3. QED
    BY <1>1, <2>1, <2>2 DEF CountOf
<1> HIDE DEF rest
<1>5. /\ found \subseteq rest /\ IsFiniteSet(found)
      /\ CountOf(s) <= MaxFetch /\ ~(limit < MaxFetch) => found = rest
  BY <1>1, <1>4, LowestIsLow
<1> HIDE DEF found
<1>6. /\ page \subseteq found /\ IsFiniteSet(page)
      /\ \A i \in page, j \in found : j <= i => j \in page
      /\ page \subseteq Ids /\ page \subseteq Nat
      /\ ~more => page = found
  <2>1. found \subseteq Nat /\ page \subseteq found /\ IsFiniteSet(page)
        /\ \A i \in page, j \in found : j <= i => j \in page
    BY <1>1, <1>4, <1>5, LowestIsLow
  <2>2. Cardinality(page) \in Nat /\ Cardinality(found) \in Nat /\ Cardinality(page) <= Cardinality(found)
        /\ (Cardinality(page) = Cardinality(found) => page = found)
    BY <2>1, <1>5, FS_Subset, FS_CardinalityType
  <2>3. ~more => page = found
    BY <2>2 DEF HasMore
  <2>4. QED
    BY <2>1, <2>3, <1>4, <1>5
<1> HIDE DEF page
<1>7. page # {} => Highest(page) \in page
  BY <1>6, HighestIsIn
<1> HIDE DEF more
<1>8. CASE Sets(t, NoConfirm) /\ UNCHANGED <<chain, fetches, capped>>
  <2>1. /\ turn' \in [Turns -> [open : BOOLEAN, pending : Confirms, dirty : BOOLEAN]]
        /\ ConfirmIsCounted'
    <3>1. ~shared /\ ~undone => fetches' <= counts'
      BY <1>2, <1>8 DEF ConfirmIsCounted
    <3>2. QED
      BY <1>1, <1>2, <1>8, <3>1, SetsIsCounted
  <2>2. BulkTyped'
    BY <1>2, <1>8, <2>1 DEF BulkTyped, BulkTypeOK
  <2>3. OwedLiesAhead'
    BY <1>2, <1>8 DEF OwedLiesAhead
  <2>4. QED
    BY <2>1, <2>2, <2>3
<1>9. CASE /\ CountOf(s) <= MaxFetch
           /\ Spends(t, more)
           /\ chain' = [chain EXCEPT ![t] = next]
           /\ fetches' = fetches + (IF more THEN 0 ELSE 1)
           /\ capped' = (capped \/ limit < MaxFetch)
  <2>1. /\ next \in [span : Spans \cup {{}}, after : Ids \cup {FromStart}, owed : SUBSET Ids,
                     seen : SUBSET Ids, ended : BOOLEAN]
        /\ next.span = s /\ next.owed = me.owed /\ next.seen = me.seen \cup page /\ next.ended = ~more
        /\ next.after = IF page = {} THEN me.after ELSE Highest(page)
    BY <1>3, <1>6, <1>7
  <2> HIDE DEF next
  <2>2. /\ chain'[t] = next /\ \A u \in Turns : u # t => chain'[u] = chain[u]
        /\ chain' \in [Turns -> [span : Spans \cup {{}}, after : Ids \cup {FromStart}, owed : SUBSET Ids,
                                 seen : SUBSET Ids, ended : BOOLEAN]]
    BY <1>9, <2>1 DEF BulkTyped
  <2>3. /\ turn' \in [Turns -> [open : BOOLEAN, pending : Confirms, dirty : BOOLEAN]]
        /\ ConfirmIsCounted'
    <3>1. ~shared /\ ~undone => fetches + 1 <= counts
      BY <1>1, <1>2 DEF ConfirmIsCounted, IsWorth
    <3>2. CASE more
      <4>1. UNCHANGED <<turn, fetches>>
        BY <1>1, <1>9, <3>2 DEF Spends
      <4>2. QED
        BY <1>2, <4>1 DEF BulkTyped, ConfirmIsCounted
    <3>3. CASE ~more
      <4>1. Sets(t, NoConfirm) /\ fetches' = fetches + 1
        BY <1>1, <1>9, <3>3 DEF Spends
      <4>2. (~shared /\ ~undone => fetches' <= counts') /\ counts' \in Nat /\ fetches' \in Nat
        BY <1>1, <1>2, <3>1, <4>1
      <4>3. QED
        BY <1>1, <1>2, <4>1, <4>2, SetsIsCounted
    <3>4. QED
      BY <3>2, <3>3
  <2>4. BulkTyped'
    <3>1. fetches' \in 0..2 * MaxCounts /\ capped' \in BOOLEAN
      BY <1>1, <1>9
    <3>2. QED
      BY <1>2, <2>2, <2>3, <3>1 DEF BulkTyped, BulkTypeOK
  <2>5. OwedLiesAhead'
    <3>1. next.owed \subseteq next.span \cap inChat
      BY <1>3, <2>1
    <3>2. ASSUME ~capped' PROVE \A i \in next.owed : i \in next.seen \/ i > next.after
      <4>1. found = rest /\ ~capped
        BY <1>5, <1>9, <3>2
      <4>2. ASSUME NEW i \in next.owed, i \notin next.seen PROVE i > next.after
        <5>1. i > me.after /\ i \in s \cap inChat /\ i \notin page
          BY <1>3, <2>1, <4>1, <4>2
        <5>2. i \in found /\ i \in Nat
          BY <1>1, <4>1, <5>1 DEF rest
        <5>3. CASE page = {}
          BY <2>1, <5>1, <5>3
        <5>4. CASE page # {}
          <6>1. Highest(page) \in page /\ ~(i <= Highest(page))
            BY <1>6, <1>7, <5>1, <5>2, <5>4
          <6>2. next.after = Highest(page)
            BY <2>1, <5>4
          <6>3. Highest(page) \in Nat
            BY <1>6, <6>1
          <6>4. QED
            BY <5>2, <6>1, <6>2, <6>3
        <5>5. QED
          BY <5>3, <5>4
      <4>3. QED
        BY <4>2
    <3>3. ASSUME ~capped', ~more PROVE next.owed \subseteq next.seen
      <4>1. page = rest /\ ~capped
        BY <1>5, <1>6, <1>9, <3>3
      <4>2. QED
        BY <1>3, <2>1, <4>1 DEF rest
    <3>4. ASSUME NEW u \in Turns, u # t
          PROVE  /\ chain'[u].owed \subseteq chain'[u].span \cap inChat'
                 /\ ~capped' => \A i \in chain'[u].owed : i \in chain'[u].seen \/ i > chain'[u].after
                 /\ ~capped' /\ chain'[u].ended => chain'[u].owed \subseteq chain'[u].seen
      <4>1. ~capped' => ~capped
        BY <1>9
      <4>2. QED
        BY <1>2, <2>2, <3>4, <4>1 DEF OwedLiesAhead
    <3>5. QED
      BY <1>2, <2>1, <2>2, <3>1, <3>2, <3>3, <3>4 DEF OwedLiesAhead
  <2>6. QED
    BY <2>3, <2>4, <2>5
<1>10. QED
  BY <1>2, <1>8, <1>9

LEMMA EndTurnKeeps ==
  ASSUME BulkInv, NEW t \in Turns, EndTurn(t)
  PROVE  BulkInv'
<1> USE DEF BulkInv
<1>1. /\ ~turn'[t].open /\ turn[t].open
      /\ \A u \in Turns : u # t => turn'[u] = turn[u]
      /\ turn' \in [Turns -> [open : BOOLEAN, pending : Confirms, dirty : BOOLEAN]]
      /\ UNCHANGED <<inChat, chain, counts, fetches, capped, shared, moves, minute>>
  BY DEF EndTurn, BulkTyped
<1>2. /\ agentRow' \in Confirms /\ undone' \in BOOLEAN /\ (undone => undone')
      /\ ~undone' => agentRow' = (IF turn[t].dirty THEN turn[t].pending ELSE agentRow)
  <2>1. agentRow \in Confirms /\ turn[t].pending \in Confirms /\ undone \in BOOLEAN
    BY DEF BulkTyped, BulkTypeOK
  <2>2. CASE agentRow' = (IF turn[t].dirty THEN turn[t].pending ELSE agentRow) /\ UNCHANGED undone
    BY <2>1, <2>2
  <2>3. CASE undone' = TRUE /\ UNCHANGED agentRow
    BY <2>1, <2>3
  <2>4. QED
    BY <2>2, <2>3 DEF EndTurn
<1>3. BulkTyped'
  BY <1>1, <1>2 DEF BulkTyped, BulkTypeOK
<1>4. OwedLiesAhead'
  BY <1>1 DEF OwedLiesAhead
<1>5. ASSUME ~shared, ~undone' PROVE agentRow' = turn[t].pending /\ \A u \in Turns : ~turn'[u].open
  BY <1>1, <1>2, <1>5 DEF ConfirmIsCounted
<1>6. ConfirmIsCounted'
  BY <1>1, <1>2, <1>5 DEF ConfirmIsCounted
<1>7. QED
  BY <1>3, <1>4, <1>6

LEMMA ChatMovesKeep ==
  ASSUME BulkInv, NEW i \in Ids, Arrives(i) \/ Deleted(i)
  PROVE  BulkInv'
<1> USE DEF BulkInv
<1>1. /\ inChat' \subseteq Ids /\ moves' \in 0..MaxMoves
      /\ UNCHANGED <<agentRow, turn, counts, fetches, capped, shared, undone, minute>>
  BY BulkAssumption DEF Arrives, Deleted, BulkTyped, BulkTypeOK
<1>2. /\ chain' \in [Turns -> [span : Spans \cup {{}}, after : Ids \cup {FromStart}, owed : SUBSET Ids,
                               seen : SUBSET Ids, ended : BOOLEAN]]
      /\ \A t \in Turns : /\ chain'[t].owed \subseteq chain[t].owed
                          /\ chain'[t].owed \subseteq chain'[t].span \cap inChat'
                          /\ chain'[t].seen = chain[t].seen /\ chain'[t].after = chain[t].after
                          /\ chain'[t].ended = chain[t].ended
  <2>1. CASE Arrives(i)
    BY <2>1 DEF Arrives, BulkTyped, OwedLiesAhead
  <2>2. CASE Deleted(i)
    <3>1. \A t \in Turns :
             /\ chain[t] \in [span : Spans \cup {{}}, after : Ids \cup {FromStart}, owed : SUBSET Ids,
                              seen : SUBSET Ids, ended : BOOLEAN]
             /\ chain'[t] = [chain[t] EXCEPT !.owed = @ \ {i}]
      BY <2>2 DEF Deleted, BulkTyped
    <3>2. \A t \in Turns :
             /\ chain'[t] \in [span : Spans \cup {{}}, after : Ids \cup {FromStart}, owed : SUBSET Ids,
                               seen : SUBSET Ids, ended : BOOLEAN]
             /\ chain'[t].owed = chain[t].owed \ {i} /\ chain'[t].span = chain[t].span
             /\ chain'[t].seen = chain[t].seen /\ chain'[t].after = chain[t].after
             /\ chain'[t].ended = chain[t].ended
      <4> TAKE t \in Turns
      <4> DEFINE old == chain[t]
      <4>1. /\ old \in [span : Spans \cup {{}}, after : Ids \cup {FromStart}, owed : SUBSET Ids,
                         seen : SUBSET Ids, ended : BOOLEAN]
            /\ chain'[t] = [old EXCEPT !.owed = @ \ {i}]
        BY <3>1
      <4> HIDE DEF old
      <4>2. [old EXCEPT !.owed = @ \ {i}] =
            [span |-> old.span, after |-> old.after, owed |-> old.owed \ {i}, seen |-> old.seen, ended |-> old.ended]
        BY <4>1
      <4>3. QED
        BY <4>1, <4>2 DEF old
    <3>3. chain' = [t \in Turns |-> chain'[t]] /\ inChat' = inChat \ {i}
      BY <2>2 DEF Deleted
    <3>4. \A t \in Turns : chain[t].owed \subseteq chain[t].span \cap inChat
      BY DEF OwedLiesAhead
    <3>5. QED
      BY <3>2, <3>3, <3>4
  <2>3. QED
    BY <2>1, <2>2
<1>3. BulkTyped'
  BY <1>1, <1>2 DEF BulkTyped, BulkTypeOK
<1>4. OwedLiesAhead'
  BY <1>1, <1>2 DEF OwedLiesAhead
<1>5. ConfirmIsCounted'
  BY <1>1 DEF ConfirmIsCounted
<1>6. QED
  BY <1>3, <1>4, <1>5

LEMMA BulkStep == BulkInv /\ [BulkNext]_bulkVars => BulkInv'
<1> SUFFICES ASSUME BulkInv, [BulkNext]_bulkVars PROVE BulkInv'
  OBVIOUS
<1>1. CASE MinutePasses
  <2>1. /\ minute' \in 0..Minutes
        /\ UNCHANGED <<inChat, agentRow, turn, chain, counts, fetches, capped, shared, undone, moves>>
    BY <1>1, BulkAssumption DEF MinutePasses, BulkInv, BulkTyped, BulkTypeOK
  <2>2. QED
    BY <2>1 DEF BulkInv, BulkTyped, BulkTypeOK, OwedLiesAhead, ConfirmIsCounted
<1>2. CASE UNCHANGED bulkVars
  BY <1>2 DEF bulkVars, BulkInv, BulkTyped, BulkTypeOK, OwedLiesAhead, ConfirmIsCounted
<1>3. QED
  BY <1>1, <1>2, OpenTurnKeeps, CountRangeKeeps, FetchKeeps, EndTurnKeeps, ChatMovesKeep DEF
     BulkNext

LEMMA BulkAlways == BulkSpec => [](BulkTypeOK /\ LastPageIsLast /\ OneFetchPerCount)
<1>1. BulkInv => (BulkTypeOK /\ LastPageIsLast /\ OneFetchPerCount)
  BY DEF BulkInv, BulkTyped, OwedLiesAhead, ConfirmIsCounted, LastPageIsLast, OneFetchPerCount
<1>2. QED
  BY <1>1, BulkInitHolds, BulkStep, PTL DEF BulkSpec

-----------------------------------------------------------------------------
(***************************************************************************)
(* Documents.  Whoever is between the count of documents and the commit is *)
(* alone there, and every file is of one document or of one upload.        *)
(***************************************************************************)

CommitSteps == {"unsent", "fetched", "counted", "flushed", "unembedded", "done", "refused"}
CommitsUnderWay == {"counted", "flushed", "unembedded"}

KnowTyped ==
    /\ KnowTypeOK
    /\ commit \in [Commits -> [step : CommitSteps, file : Files \cup {NoFile}]]
    /\ removal \in [Removals -> [step : {"unsent", "found", "dropped", "done"}, doc : Commits \cup {"none"}]]
    /\ IsFiniteSet(DOMAIN docs)

\* Who is between its count and its commit is alone, and counted a free place.
PlaceIsFree ==
    ~crowded =>
        /\ Cardinality(DOMAIN docs) <= MaxDocs
        /\ \A p, q \in Commits : commit[p].step \in CommitsUnderWay /\ commit[q].step \in CommitsUnderWay => p = q
        /\ \A q \in Commits : commit[q].step \in CommitsUnderWay => Cardinality(DOMAIN docs) < MaxDocs

\* A document is of the commit that made it, and only that one named its file;
\* what a removal took is a document that is or was there.
FilesAreOwn ==
    /\ \A d \in DOMAIN docs : commit[d].step = "done" /\ docs[d].file = commit[d].file
    /\ \A r \in Removals : removal[r].step \in {"found", "dropped"} =>
            removal[r].doc \in Commits /\ commit[removal[r].doc].step = "done"
    /\ \A p, q \in Commits :
            commit[p].file # NoFile /\ commit[p].file = commit[q].file => p = q \/ shares
    /\ \A q \in Commits : commit[q].step = "unsent" => commit[q].file = NoFile
    /\ \A q \in Commits :
            commit[q].step \in CommitsUnderWay \cup {"fetched"} =>
                commit[q].file \in bucket \cup {NoFile} \/ shares \/ q \in unread

KnowInv == KnowTyped /\ PlaceIsFree /\ FilesAreOwn /\ DocHasItsFile

LEMMA KnowInitHolds == KnowInit => KnowInv
<1> SUFFICES ASSUME KnowInit PROVE KnowInv
  OBVIOUS
<1> USE KnowledgeAssumption
<1>1. DOMAIN docs = {} /\ Cardinality(DOMAIN docs) = 0 /\ IsFiniteSet(DOMAIN docs)
  BY FS_EmptySet DEF KnowInit
<1>2. KnowTyped
  <2>1. commit \in [Commits -> [step : CommitSteps, file : Files \cup {NoFile}]]
    BY DEF KnowInit, NoCommit, CommitSteps
  <2>2. removal \in [Removals -> [step : {"unsent", "found", "dropped", "done"}, doc : Commits \cup {"none"}]]
    BY DEF KnowInit, NoRemoval
  <2>3. KnowTypeOK
    <3>1. \A d \in DOMAIN docs : docs[d].file \in Files \cup {NoFile} /\ docs[d].embedded \in BOOLEAN
      BY <1>1
    <3>2. /\ \A q \in Commits : commit[q].step \in CommitSteps
          /\ \A r \in Removals : removal[r].step \in {"unsent", "found", "dropped", "done"}
      BY <2>1, <2>2
    <3>3. /\ bucket \subseteq Files /\ crowded \in BOOLEAN /\ shares \in BOOLEAN
          /\ stranded \subseteq Commits /\ unread \subseteq Commits /\ knowFaults = 0
      BY Zenon DEF KnowInit
    <3>4. QED
      BY <1>1, <3>1, <3>2, <3>3 DEF KnowTypeOK, CommitSteps
  <2>4. QED
    BY <1>1, <2>1, <2>2, <2>3 DEF KnowTyped
<1>3. PlaceIsFree
  BY <1>1 DEF KnowInit, PlaceIsFree, NoCommit, CommitsUnderWay
<1>4. FilesAreOwn
  BY <1>1 DEF KnowInit, FilesAreOwn, NoCommit, NoRemoval
<1>5. DocHasItsFile
  BY <1>1 DEF DocHasItsFile
<1>6. QED
  BY <1>2, <1>3, <1>4, <1>5 DEF KnowInv

\* An object is put, and no document loses its own.
LEMMA ObjectComes ==
  ASSUME KnowInv, NEW f \in Files, Upload(f)
  PROVE  KnowInv'
<1>1. /\ bucket \subseteq bucket' /\ bucket' \subseteq Files
      /\ UNCHANGED <<docs, commit, removal, crowded, shares, stranded, unread, knowFaults>>
  BY DEF Upload, KnowInv, KnowTyped, KnowTypeOK
<1>2. KnowTyped' /\ PlaceIsFree'
  BY <1>1 DEF KnowInv, KnowTyped, KnowTypeOK, PlaceIsFree
<1>3. FilesAreOwn' /\ DocHasItsFile'
  BY <1>1 DEF KnowInv, FilesAreOwn, DocHasItsFile
<1>4. QED
  BY <1>2, <1>3 DEF KnowInv

\* A commit starts: it has read its object, or has text, or is refused.
LEMMA CommitBegins ==
  ASSUME KnowInv, NEW q \in Commits, CommitFile(q) \/ CommitText(q)
  PROVE  KnowInv'
<1> USE DEF KnowInv
<1>1. PICK f \in Files \cup {NoFile}, s \in {"fetched", "refused"} :
          /\ commit' = [commit EXCEPT ![q] = [step |-> s, file |-> f]]
          /\ f \in bucket \cup {NoFile} \/ q \in unread'
          /\ f # NoFile => shares' = (shares \/ \E p \in Commits : commit[p].file = f)
          /\ f = NoFile => shares' = shares
  BY KnowledgeAssumption DEF CommitFile, CommitText
<1>2. /\ commit[q].step = "unsent" /\ UNCHANGED <<bucket, docs, removal, crowded, stranded, knowFaults>>
      /\ shares => shares'
      /\ shares' \in BOOLEAN
      /\ unread \subseteq unread' /\ unread' \subseteq Commits
  BY DEF CommitFile, CommitText, KnowTyped, KnowTypeOK
<1>3. /\ \A p \in Commits : p # q => commit'[p] = commit[p]
      /\ commit'[q].step = s /\ commit'[q].file = f
      /\ commit' \in [Commits -> [step : CommitSteps, file : Files \cup {NoFile}]]
  BY <1>1 DEF KnowTyped, CommitSteps
<1>4. KnowTyped'
  BY <1>2, <1>3 DEF KnowTyped, KnowTypeOK
<1>5. PlaceIsFree'
  BY <1>2, <1>3 DEF PlaceIsFree, CommitsUnderWay
<1>6. FilesAreOwn'
  <2>1. q \notin DOMAIN docs /\ DOMAIN docs \subseteq Commits
    BY <1>2 DEF FilesAreOwn, KnowTyped, KnowTypeOK
  <2>2. \A d \in DOMAIN docs : commit'[d].step = "done" /\ docs[d].file = commit'[d].file
    BY <2>1, <1>3 DEF FilesAreOwn
  <2>3. \A r \in Removals : removal[r].step \in {"found", "dropped"} =>
            removal[r].doc \in Commits /\ commit'[removal[r].doc].step = "done"
    BY <1>2, <1>3 DEF FilesAreOwn
  <2>4. \A p \in Commits : p # q => commit[p].file # f \/ f = NoFile \/ shares'
    BY <1>1
  <2>5. \A p, o \in Commits :
            commit'[p].file # NoFile /\ commit'[p].file = commit'[o].file => p = o \/ shares'
    BY <2>4, <1>2, <1>3 DEF FilesAreOwn
  <2>6. \A o \in Commits : commit'[o].step = "unsent" => commit'[o].file = NoFile
    BY <1>3 DEF FilesAreOwn
  <2>7. \A o \in Commits :
            commit'[o].step \in CommitsUnderWay \cup {"fetched"} =>
                commit'[o].file \in bucket \cup {NoFile} \/ shares' \/ o \in unread'
    BY <1>1, <1>2, <1>3 DEF FilesAreOwn, CommitsUnderWay
  <2>8. QED
    BY <1>2, <2>2, <2>3, <2>5, <2>6, <2>7 DEF FilesAreOwn
<1>7. DocHasItsFile'
  BY <1>2 DEF DocHasItsFile
<1>8. QED
  BY <1>4, <1>5, <1>6, <1>7

\* The steps between, none of which makes a document.
LEMMA CommitGoesOn ==
  ASSUME KnowInv, NEW q \in Commits, UNCHANGED <<bucket, docs, removal, shares, stranded, unread>>,
         NEW s, Step(q, s), knowFaults' \in 0..KnowFaults, crowded' \in BOOLEAN, crowded => crowded',
         \/ CheckQuota(q) /\ s \in {"counted", "refused"}
         \/ commit[q].step \in CommitsUnderWay /\ s \in {"flushed", "unembedded", "refused"}
  PROVE  KnowInv'
<1> USE DEF KnowInv
<1>1. commit[q].step \in CommitsUnderWay \cup {"fetched"}
  BY DEF CheckQuota
<1>2. /\ s \in CommitsUnderWay \cup {"refused"}
      /\ s \in CommitSteps /\ s \notin {"unsent", "done", "fetched"}
  BY DEF CommitSteps, CommitsUnderWay
<1>3. /\ \A p \in Commits : p # q => commit'[p] = commit[p]
      /\ commit'[q].step = s /\ \A p \in Commits : commit'[p].file = commit[p].file
      /\ commit' \in [Commits -> [step : CommitSteps, file : Files \cup {NoFile}]]
  BY <1>2 DEF KnowTyped, Step
<1>4. KnowTyped'
  BY <1>2, <1>3 DEF KnowTyped, KnowTypeOK
<1>5. PlaceIsFree'
  <2>1. CASE s = "refused"
    BY <2>1, <1>3 DEF PlaceIsFree, CommitsUnderWay
  <2>2. CASE commit[q].step \in CommitsUnderWay
    BY <2>2, <1>3 DEF PlaceIsFree
  <2>3. CASE CheckQuota(q) /\ s = "counted"
    <3>1. /\ crowded' = (crowded \/ \E p \in Commits : commit[p].step \in CommitsUnderWay)
          /\ commit[q].step = "fetched"
      BY <2>3 DEF CheckQuota, CommitsUnderWay
    <3>2. Cardinality(DOMAIN docs) < MaxDocs
      BY <2>3, <1>3 DEF CheckQuota, Step, WithinQuota
    <3>3. QED
      BY <3>1, <3>2, <1>3 DEF PlaceIsFree
  <2>4. QED
    BY <2>1, <2>2, <2>3
<1>6. FilesAreOwn'
  <2>1. q \notin DOMAIN docs /\ DOMAIN docs \subseteq Commits
    BY <1>1 DEF FilesAreOwn, KnowTyped, KnowTypeOK, CommitsUnderWay
  <2>2. \A d \in DOMAIN docs : commit'[d].step = "done" /\ docs[d].file = commit'[d].file
    BY <2>1, <1>3 DEF FilesAreOwn
  <2>3. \A r \in Removals : removal[r].step \in {"found", "dropped"} =>
            removal[r].doc \in Commits /\ commit'[removal[r].doc].step = "done"
    BY <1>1, <1>3 DEF FilesAreOwn, CommitsUnderWay
  <2>4. \A p, o \in Commits :
            commit'[p].file # NoFile /\ commit'[p].file = commit'[o].file => p = o \/ shares
    BY <1>3 DEF FilesAreOwn
  <2>5. \A o \in Commits : commit'[o].step = "unsent" => commit'[o].file = NoFile
    BY <1>2, <1>3 DEF FilesAreOwn
  <2>6. \A o \in Commits :
            commit'[o].step \in CommitsUnderWay \cup {"fetched"} =>
                commit'[o].file \in bucket \cup {NoFile} \/ shares \/ o \in unread
    BY <1>1, <1>3 DEF FilesAreOwn
  <2>7. QED
    BY <2>2, <2>3, <2>4, <2>5, <2>6 DEF FilesAreOwn
<1>7. DocHasItsFile'
  BY DEF DocHasItsFile
<1>8. QED
  BY <1>4, <1>5, <1>6, <1>7

\* A commit ends: its document is there.
LEMMA CommitEnds ==
  ASSUME KnowInv, NEW q \in Commits, NEW vectors \in BOOLEAN, Saved(q, vectors), Step(q, "done"),
         commit[q].step \in CommitsUnderWay, knowFaults' = knowFaults,
         UNCHANGED <<bucket, removal, crowded, shares, stranded, unread>>
  PROVE  KnowInv'
<1> USE DEF KnowInv
<1>1. /\ \A p \in Commits : p # q => commit'[p] = commit[p]
      /\ commit'[q].step = "done" /\ \A p \in Commits : commit'[p].file = commit[p].file
      /\ commit' \in [Commits -> [step : CommitSteps, file : Files \cup {NoFile}]]
  BY DEF KnowTyped, Step, CommitSteps
<1>2. /\ DOMAIN docs' = DOMAIN docs \cup {q} /\ docs'[q] = [file |-> commit[q].file, embedded |-> vectors]
      /\ \A d \in DOMAIN docs : d # q => docs'[d] = docs[d]
  BY DEF Saved
<1>3. /\ IsFiniteSet(DOMAIN docs') /\ Cardinality(DOMAIN docs) \in Nat
      /\ Cardinality(DOMAIN docs') <= Cardinality(DOMAIN docs) + 1 /\ Cardinality(DOMAIN docs') \in Nat
  <2>1. IsFiniteSet(DOMAIN docs)
    BY DEF KnowTyped
  <2>2. /\ IsFiniteSet(DOMAIN docs \cup {q}) /\ Cardinality(DOMAIN docs) \in Nat
        /\ \/ Cardinality(DOMAIN docs \cup {q}) = Cardinality(DOMAIN docs)
           \/ Cardinality(DOMAIN docs \cup {q}) = Cardinality(DOMAIN docs) + 1
    BY <2>1, FS_AddElement, FS_CardinalityType
  <2>3. QED
    BY <1>2, <2>2
<1>4. /\ q \notin DOMAIN docs /\ commit[q].step # "unsent" /\ commit[q].step # "done"
      /\ commit[q].file \in Files \cup {NoFile}
  BY DEF FilesAreOwn, CommitsUnderWay, KnowTyped
<1>5. KnowTyped'
  <2>1. \A d \in DOMAIN docs' : docs'[d].file \in Files \cup {NoFile} /\ docs'[d].embedded \in BOOLEAN
    BY <1>2, <1>4 DEF KnowTyped, KnowTypeOK
  <2>2. \A p \in Commits : commit'[p].step \in CommitSteps
    BY <1>1
  <2>3. QED
    BY <1>1, <1>2, <1>3, <2>1, <2>2 DEF KnowTyped, KnowTypeOK
<1>6. PlaceIsFree'
  <2>1. ~crowded => \A p \in Commits : commit'[p].step \notin CommitsUnderWay
    BY <1>1 DEF PlaceIsFree, CommitsUnderWay
  <2>2. ~crowded => Cardinality(DOMAIN docs') <= MaxDocs
    BY <1>3, KnowledgeAssumption DEF PlaceIsFree
  <2>3. QED
    BY <2>1, <2>2 DEF PlaceIsFree
<1>7. FilesAreOwn'
  <2>1. \A d \in DOMAIN docs' : commit'[d].step = "done" /\ docs'[d].file = commit'[d].file
    BY <1>1, <1>2 DEF FilesAreOwn, KnowTyped, KnowTypeOK
  <2>2. \A r \in Removals : removal[r].step \in {"found", "dropped"} =>
            removal[r].doc \in Commits /\ commit'[removal[r].doc].step = "done"
    BY <1>1 DEF FilesAreOwn
  <2>3. \A p, o \in Commits :
            commit'[p].file # NoFile /\ commit'[p].file = commit'[o].file => p = o \/ shares
    BY <1>1 DEF FilesAreOwn
  <2>4. \A o \in Commits : commit'[o].step = "unsent" => commit'[o].file = NoFile
    BY <1>1 DEF FilesAreOwn
  <2>5. \A o \in Commits :
            commit'[o].step \in CommitsUnderWay \cup {"fetched"} =>
                commit'[o].file \in bucket \cup {NoFile} \/ shares \/ o \in unread
    BY <1>1 DEF FilesAreOwn
  <2>6. QED
    BY <2>1, <2>2, <2>3, <2>4, <2>5 DEF FilesAreOwn
<1>8. DocHasItsFile'
  <2>1. docs'[q].file \in bucket \cup {NoFile} \/ shares \/ q \in unread
    BY <1>2 DEF FilesAreOwn
  <2>2. QED
    BY <1>2, <1>4, <2>1 DEF DocHasItsFile
<1>9. QED
  BY <1>5, <1>6, <1>7, <1>8

\* The object goes, or its deletion fails and it stays.
LEMMA ObjectGoes ==
  ASSUME KnowInv, NEW r \in Removals, DropObject(r)
  PROVE  KnowInv'
<1> USE DEF KnowInv
<1> DEFINE d == removal[r].doc
<1>1. /\ d \in Commits /\ commit[d].step = "done" /\ removal[r].step = "found"
      /\ FileOf(r) = commit[d].file
  BY DEF DropObject, FilesAreOwn, FileOf
<1>2. /\ bucket \ {commit[d].file} \subseteq bucket' /\ bucket' \subseteq bucket
      /\ knowFaults' \in 0..KnowFaults
      /\ UNCHANGED <<docs, commit, crowded, shares, stranded, unread>>
  BY <1>1, KnowledgeAssumption DEF DropObject, KnowFault, KnowTyped, KnowTypeOK
<1>3. /\ removal'[r].step = "dropped" /\ removal'[r].doc = d
      /\ removal' \in [Removals -> [step : {"unsent", "found", "dropped", "done"}, doc : Commits \cup {"none"}]]
      /\ \A o \in Removals : o # r => removal'[o] = removal[o]
  BY DEF DropObject, KnowTyped
<1> HIDE DEF d
<1>4. KnowTyped'
  BY <1>2, <1>3 DEF KnowTyped, KnowTypeOK
<1>5. PlaceIsFree'
  BY <1>2 DEF PlaceIsFree
<1>6. \A q \in Commits : q # d /\ commit[q].file \in bucket \cup {NoFile} =>
          commit[q].file \in bucket' \cup {NoFile} \/ shares
  BY <1>1, <1>2 DEF FilesAreOwn
<1>7. FilesAreOwn'
  <2>1. \A o \in Removals : removal'[o].step \in {"found", "dropped"} =>
            removal'[o].doc \in Commits /\ commit[removal'[o].doc].step = "done"
    BY <1>1, <1>3 DEF FilesAreOwn
  <2>2. \A q \in Commits :
            commit[q].step \in CommitsUnderWay \cup {"fetched"} =>
                commit[q].file \in bucket' \cup {NoFile} \/ shares \/ q \in unread
    BY <1>1, <1>6 DEF FilesAreOwn, CommitsUnderWay
  <2>3. QED
    BY <1>2, <2>1, <2>2 DEF FilesAreOwn
<1>8. DocHasItsFile'
  <2>1. ASSUME NEW c \in DOMAIN docs
        PROVE  \/ docs[c].file \in bucket' \cup {NoFile} \/ shares \/ c \in unread
               \/ c \in stranded \/ \E o \in Removals : removal'[o].doc = c /\ removal'[o].step = "dropped"
    <3>1. c \in Commits /\ docs[c].file = commit[c].file
      BY DEF FilesAreOwn, KnowTyped, KnowTypeOK
    <3>2. CASE c = d
      BY <3>2, <1>3
    <3>3. CASE \E o \in Removals : removal[o].doc = c /\ removal[o].step = "dropped"
      BY <3>3, <1>1, <1>3
    <3>4. QED
      BY <3>1, <3>2, <3>3, <1>6 DEF DocHasItsFile
  <2>2. QED
    BY <2>1, <1>2 DEF DocHasItsFile
<1>9. QED
  BY <1>4, <1>5, <1>7, <1>8

\* A removal finds its document, takes the row away, or dies.
LEMMA RemovalGoesOn ==
  ASSUME KnowInv, NEW r \in Removals, FindDoc(r) \/ DropRow(r) \/ RemovalDies(r)
  PROVE  KnowInv'
<1> USE DEF KnowInv
<1>1. PICK s \in {"found", "done"} :
          /\ removal'[r].step = s
          /\ removal' \in [Removals -> [step : {"unsent", "found", "dropped", "done"}, doc : Commits \cup {"none"}]]
          /\ \A o \in Removals : o # r => removal'[o] = removal[o]
          /\ s = "found" => removal'[r].doc \in DOMAIN docs
          /\ removal[r].step = "dropped" => s = "done"
  <2>1. DOMAIN docs \subseteq Commits
    BY DEF KnowTyped, KnowTypeOK
  <2>2. CASE FindDoc(r)
    BY <2>1, <2>2 DEF FindDoc, KnowTyped
  <2>3. CASE DropRow(r) \/ RemovalDies(r)
    BY <2>1, <2>3 DEF DropRow, RemovalDies, KnowTyped
  <2>4. QED
    BY <2>2, <2>3
<1>2. /\ DOMAIN docs' \subseteq DOMAIN docs /\ \A d \in DOMAIN docs' : docs'[d] = docs[d]
      /\ removal[r].step = "dropped" => removal[r].doc \notin DOMAIN docs' \/ removal[r].doc \in stranded'
      /\ removal[r].step = "dropped" => removal[r].doc \in Commits
      /\ stranded \subseteq stranded' /\ stranded' \subseteq Commits
      /\ knowFaults' \in 0..KnowFaults
      /\ UNCHANGED <<bucket, commit, crowded, shares, unread>>
  <2>1. removal[r].step = "dropped" => removal[r].doc \in Commits
    BY DEF FilesAreOwn
  <2>2. CASE FindDoc(r)
    BY <2>1, <2>2 DEF FindDoc, KnowTyped, KnowTypeOK
  <2>3. CASE DropRow(r)
    BY <2>1, <2>3 DEF DropRow, RowGoes, KnowTyped, KnowTypeOK
  <2>4. CASE RemovalDies(r)
    BY <2>1, <2>4, KnowledgeAssumption DEF RemovalDies, KnowFault, KnowTyped, KnowTypeOK
  <2>5. QED
    BY <2>2, <2>3, <2>4
<1>3. /\ IsFiniteSet(DOMAIN docs') /\ Cardinality(DOMAIN docs') <= Cardinality(DOMAIN docs)
      /\ Cardinality(DOMAIN docs') \in Nat /\ Cardinality(DOMAIN docs) \in Nat
  BY <1>2, FS_Subset, FS_CardinalityType DEF KnowTyped
<1>4. KnowTyped'
  BY <1>1, <1>2, <1>3 DEF KnowTyped, KnowTypeOK
<1>5. PlaceIsFree'
  BY <1>2, <1>3, KnowledgeAssumption DEF PlaceIsFree
<1>6. FilesAreOwn'
  <2>1. \A o \in Removals : removal'[o].step \in {"found", "dropped"} =>
            removal'[o].doc \in Commits /\ commit[removal'[o].doc].step = "done"
    BY <1>1 DEF FilesAreOwn, KnowTyped, KnowTypeOK
  <2>2. \A d \in DOMAIN docs' : commit[d].step = "done" /\ docs'[d].file = commit[d].file
    BY <1>2 DEF FilesAreOwn
  <2>3. QED
    BY <1>2, <2>1, <2>2 DEF FilesAreOwn
<1>7. DocHasItsFile'
  <2>1. ASSUME NEW c \in DOMAIN docs'
        PROVE  \/ docs'[c].file \in bucket \cup {NoFile} \/ shares \/ c \in unread
               \/ c \in stranded' \/ \E o \in Removals : removal'[o].doc = c /\ removal'[o].step = "dropped"
    <3>1. CASE \E o \in Removals : removal[o].doc = c /\ removal[o].step = "dropped"
      BY <3>1, <1>1, <1>2
    <3>2. QED
      BY <3>1, <1>2 DEF DocHasItsFile
  <2>2. QED
    BY <2>1, <1>2 DEF DocHasItsFile
<1>8. QED
  BY <1>4, <1>5, <1>6, <1>7

LEMMA KnowStep == KnowInv /\ [KnowNext]_knowVars => KnowInv'
<1> SUFFICES ASSUME KnowInv, [KnowNext]_knowVars PROVE KnowInv'
  OBVIOUS
<1>1. ASSUME NEW q \in Commits, CheckQuota(q) \/ FlushRows(q) \/ CommitDies(q)
      PROVE  KnowInv'
  <2>1. PICK s \in {"counted", "refused", "flushed"} :
            /\ Step(q, s)
            /\ \/ CheckQuota(q) /\ s \in {"counted", "refused"}
               \/ commit[q].step \in CommitsUnderWay /\ s \in {"flushed", "refused"}
    BY <1>1 DEF CheckQuota, FlushRows, CommitDies, CommitsUnderWay
  <2>2. knowFaults' \in 0..KnowFaults /\ crowded' \in BOOLEAN /\ (crowded => crowded')
    <3>1. CASE CheckQuota(q)
      BY <3>1 DEF CheckQuota, KnowInv, KnowTyped, KnowTypeOK
    <3>2. CASE FlushRows(q)
      BY <3>2 DEF FlushRows, KnowInv, KnowTyped, KnowTypeOK
    <3>3. CASE CommitDies(q)
      BY <3>3, KnowledgeAssumption DEF CommitDies, KnowFault, KnowInv, KnowTyped, KnowTypeOK
    <3>4. QED
      BY <1>1, <3>1, <3>2, <3>3
  <2>3. UNCHANGED <<bucket, docs, removal, shares, stranded, unread>>
    BY <1>1 DEF CheckQuota, FlushRows, CommitDies
  <2>4. QED
    BY <2>1, <2>2, <2>3, CommitGoesOn
<1>2. ASSUME NEW q \in Commits, Embed(q) \/ CommitUnembedded(q)
      PROVE  KnowInv'
  <2>1. /\ commit[q].step \in CommitsUnderWay /\ UNCHANGED <<bucket, removal, crowded, shares, stranded, unread>>
        /\ \/ \E vectors \in BOOLEAN : Saved(q, vectors) /\ Step(q, "done") /\ UNCHANGED knowFaults
           \/ KnowFault /\ Step(q, "unembedded") /\ UNCHANGED docs
    BY <1>2 DEF Embed, CommitUnembedded, CommitsUnderWay
  <2>2. CASE KnowFault /\ Step(q, "unembedded") /\ UNCHANGED docs
    <3>1. knowFaults' \in 0..KnowFaults /\ crowded' \in BOOLEAN /\ (crowded => crowded')
      BY <2>1, <2>2, KnowledgeAssumption DEF KnowFault, KnowInv, KnowTyped, KnowTypeOK
    <3>2. QED
      BY <2>1, <2>2, <3>1, CommitGoesOn
  <2>3. QED
    BY <2>1, <2>2, CommitEnds
<1>3. CASE UNCHANGED knowVars
  BY <1>3 DEF knowVars, KnowInv, KnowTyped, KnowTypeOK, PlaceIsFree, FilesAreOwn, DocHasItsFile
<1>4. QED
  BY <1>1, <1>2, <1>3, ObjectComes, CommitBegins, ObjectGoes, RemovalGoesOn DEF KnowNext

LEMMA KnowAlways == KnowSpec => [](KnowTypeOK /\ QuotaIsKept /\ DocHasItsFile)
<1>1. KnowInv => (KnowTypeOK /\ QuotaIsKept /\ DocHasItsFile)
  BY DEF KnowInv, KnowTyped, PlaceIsFree, QuotaIsKept
<1>2. QED
  BY <1>1, KnowInitHolds, KnowStep, PTL DEF KnowSpec

-----------------------------------------------------------------------------
(***************************************************************************)
(* What a turn may do.  A refusal takes a change of the restrictions that  *)
(* came after the turn's copy was loaded, and the next turn in that place  *)
(* loads the row anew; after a question the row says so, and the copy of   *)
(* the triggers that is written back is no worse than the row.             *)
(***************************************************************************)

RunRecords == [pc : {"idle", "judge", "route", "ask", "loop", "sending"},
               limits : Limits, at : Nat, target : ToolChats \cup {OwnChat}]

\* A refusal takes a change that came after the turn's copy was loaded, and the
\* place's next turn loads the row anew.
CopiesAge ==
    \A r \in ToolRuns :
        /\ runs[r].at <= changes
        /\ runs[r].pc # "idle" /\ runs[r].at = changes => runs[r].limits = limits
        /\ runs[r].pc = "sending" => MayMessage(runs[r].limits, runs[r].target)
        /\ refusals[r] <= IF runs[r].pc = "idle" THEN changes ELSE runs[r].at

\* After a question the row says so, and the turn that routes next loaded it.
QuestionStands ==
    /\ ~twice /\ (asked = "routed" => builder = "clarify")
    /\ runs[OwnChat].pc = "route" /\ ~copy.odd => copy.builder = builder
    /\ runs[OwnChat].pc = "ask" /\ ~copy.odd => builder = "clarify" /\ asked # "routed"

\* The copy that is written back is no worse than the row.
CopyIsBuilt ==
    \A k \in WakeKeys \ WakeFlags :
        wakes[k] = "standing" \/ copy.wakes[k] = "standing" => k \in vetted

GatesInv == ToolTypeOK /\ CopiesAge /\ OnlyAgedTurnsCross /\ QuestionStands /\ CopyIsBuilt

LEMMA NoTurnIsTyped == NoTurn \in RunRecords /\ NoCopy \in [builder : BuilderStates, wakes : [WakeKeys -> WakeKinds], odd : BOOLEAN]
  BY ToolsAssumption DEF NoTurn, NoCopy, RunRecords, Limits, DefaultLimits, Permissions, BuilderStates,
     Destinations, NoWakes, WakeKinds

LEMMA GatesInitHolds == GatesInit => GatesInv
<1> SUFFICES ASSUME GatesInit PROVE GatesInv
  OBVIOUS
<1> USE ToolsAssumption DEF GatesInit
<1>1. ToolTypeOK
  <2>1. DefaultLimits \in Limits
    BY DEF DefaultLimits, Limits, Permissions
  <2>2. runs \in [ToolRuns -> RunRecords]
    BY NoTurnIsTyped
  <2>3. QED
    BY <2>1, <2>2, NoTurnIsTyped
    DEF ToolTypeOK, RunRecords, BuilderStates, Destinations, NoWakes, WakeKinds
<1>2. CopiesAge
  BY DEF CopiesAge, NoTurn
<1>3. OnlyAgedTurnsCross /\ QuestionStands
  BY DEF OnlyAgedTurnsCross, QuestionStands, NoTurn
<1>4. CopyIsBuilt
  BY DEF CopyIsBuilt, NoCopy, NoWakes
<1>5. QED
  BY <1>1, <1>2, <1>3, <1>4 DEF GatesInv

\* What a router may resolve is a state, and never a second question.
LEMMA OutcomesAreStates ==
  ASSUME NEW previous \in BuilderStates, NEW s \in Outcomes(previous)
  PROVE  /\ s \in BuilderStates /\ (previous = "clarify" => s # "clarify")
  BY DEF Outcomes, Resolved, BuilderStates, Destinations

\* A trigger is set in the builder's state only.
LEMMA TriggerIsBuilders ==
  ASSUME ToolTypeOK, Calls(OwnChat, "trigger")
  PROVE  copy.builder = "builder_agent"
<1>1. "trigger" \in BuilderTools[copy.builder] /\ copy.builder \in BuilderStates
  BY DEF Calls, ToolTypeOK
<1>2. ASSUME copy.builder # "builder_agent" PROVE FALSE
  <2>1. CASE copy.builder = "one_off_action"
    <3>1. BuilderTools[copy.builder] = ExecutionTools \cup {"look up", "disposable", "drop", "later"}
      BY <1>1, <2>1 DEF BuilderTools
    <3>2. QED
      BY <1>1, <3>1 DEF ExecutionTools
  <2>2. CASE copy.builder # "one_off_action"
    <3>1. BuilderTools[copy.builder] = {}
      BY <1>1, <1>2, <2>2 DEF BuilderTools
    <3>2. QED
      BY <1>1, <3>1
  <2>3. QED
    BY <2>1, <2>2
<1>3. QED
  BY <1>2

-----------------------------------------------------------------------------
(* The steps of a turn, by what they do to it. *)

\* The turn is over and its place free; nothing else that counts.
LEMMA OverIsTyped ==
  ASSUME ToolTypeOK, NEW r \in ToolRuns, Over(r)
  PROVE  /\ runs' \in [ToolRuns -> RunRecords]
         /\ copy' \in [builder : BuilderStates, wakes : [WakeKeys -> WakeKinds], odd : BOOLEAN]
         /\ runs'[r].pc = "idle" /\ runs'[r].at = 0
         /\ \A q \in ToolRuns : q # r => runs'[q] = runs[q]
         /\ \A k \in WakeKeys : copy'.wakes[k] = "standing" => copy.wakes[k] = "standing"
         /\ r # OwnChat => copy' = copy
<1>1. runs \in [ToolRuns -> RunRecords]
  BY DEF ToolTypeOK, RunRecords
<1>2. NoTurn.pc = "idle" /\ NoTurn.at = 0
  BY DEF NoTurn
<1>3. \A k \in WakeKeys : NoCopy.wakes[k] # "standing"
  BY DEF NoCopy, NoWakes
<1>4. QED
  BY <1>1, <1>2, <1>3, NoTurnIsTyped DEF Over, ToolTypeOK

\* Leaving a place is harmless, refused or not.
LEMMA OverKeeps ==
  ASSUME GatesInv, NEW r \in ToolRuns, Over(r),
         UNCHANGED <<limits, builder, wakes, pairs, changes, overstep, vetted, asked, twice>>,
         seats' \subseteq seats, refusals' \in [ToolRuns -> Nat],
         \A q \in ToolRuns : q # r => refusals'[q] = refusals[q],
         refusals'[r] <= changes
  PROVE  GatesInv'
<1> USE ToolsAssumption DEF GatesInv
<1>1. ToolTypeOK'
  BY OverIsTyped DEF ToolTypeOK, RunRecords
<1>2. CopiesAge'
  <2> SUFFICES ASSUME NEW q \in ToolRuns
               PROVE  /\ runs'[q].at <= changes
                      /\ runs'[q].pc # "idle" /\ runs'[q].at = changes => runs'[q].limits = limits
                      /\ runs'[q].pc = "sending" => MayMessage(runs'[q].limits, runs'[q].target)
                      /\ refusals'[q] <= IF runs'[q].pc = "idle" THEN changes ELSE runs'[q].at
    BY DEF CopiesAge, MayMessage
  <2>1. CASE q = r
    BY <2>1, OverIsTyped DEF ToolTypeOK
  <2>2. CASE q # r
    BY <2>2, OverIsTyped DEF CopiesAge
  <2>3. QED
    BY <2>1, <2>2
<1>3. OnlyAgedTurnsCross'
  BY DEF OnlyAgedTurnsCross
<1>4. QuestionStands'
  <2>1. CASE r = OwnChat
    BY <2>1, OverIsTyped DEF QuestionStands
  <2>2. CASE r # OwnChat
    BY <2>2, OverIsTyped DEF QuestionStands
  <2>3. QED
    BY <2>1, <2>2
<1>5. CopyIsBuilt'
  BY OverIsTyped DEF CopyIsBuilt
<1>6. QED
  BY <1>1, <1>2, <1>3, <1>4, <1>5

\* What the row did not permit when it was refused was changed since.
LEMMA RefusedIsAged ==
  ASSUME GatesInv, NEW r \in ToolRuns, runs[r].pc # "idle", runs[r].limits # limits,
         refusals' = [refusals EXCEPT ![r] = @ + 1]
  PROVE  /\ refusals' \in [ToolRuns -> Nat] /\ refusals'[r] <= changes
         /\ \A q \in ToolRuns : q # r => refusals'[q] = refusals[q]
<1>1. runs[r].at < changes /\ refusals[r] <= runs[r].at /\ refusals[r] \in Nat
      /\ runs[r].at \in Nat /\ changes \in Nat
  <2>1. refusals[r] \in Nat /\ runs[r].at \in Nat /\ changes \in Nat
    BY DEF GatesInv, ToolTypeOK
  <2>2. runs[r].at <= changes /\ runs[r].at # changes /\ refusals[r] <= runs[r].at
    BY DEF GatesInv, CopiesAge
  <2>3. QED
    BY <2>1, <2>2
<1>2. QED
  BY <1>1 DEF GatesInv, ToolTypeOK

\* Whatever leaves the restrictions, the turns and the refusals alone.
LEMMA CopiesStayAged ==
  ASSUME CopiesAge, UNCHANGED <<limits, runs, changes, refusals>>
  PROVE  CopiesAge'
  BY DEF CopiesAge, MayMessage

\* Whatever leaves the states alone and brings no turn to the router.
LEMMA QuestionStays ==
  ASSUME QuestionStands, UNCHANGED <<builder, asked, twice>>,
         copy'.builder = copy.builder, copy'.odd = copy.odd,
         \/ runs'[OwnChat].pc = runs[OwnChat].pc
         \/ runs'[OwnChat].pc \notin {"route", "ask"}
  PROVE  QuestionStands'
  BY DEF QuestionStands

\* What is done against the restrictions was done by an aged copy.
LEMMA CrossingIsAged ==
  ASSUME GatesInv, NEW r \in ToolRuns, NEW act \in {"open", "read"}, NEW permitted \in BOOLEAN,
         Crosses(r, act, permitted), runs[r].pc # "idle",
         runs[r].limits = limits => permitted
  PROVE  /\ overstep' \subseteq [act : {"open", "read"}, aged : BOOLEAN]
         /\ \A x \in overstep' : x.aged
<1>1. overstep \subseteq [act : {"open", "read"}, aged : BOOLEAN] /\ \A x \in overstep : x.aged
  BY DEF GatesInv, ToolTypeOK, OnlyAgedTurnsCross
<1>2. CASE permitted
  BY <1>1, <1>2 DEF Crosses
<1>3. CASE ~permitted
  <2>1. runs[r].at # changes
    BY <1>3 DEF GatesInv, CopiesAge
  <2>2. overstep' = overstep \cup {[act |-> act, aged |-> TRUE]}
    BY <1>3, <2>1 DEF Crosses
  <2> DEFINE new == [act |-> act, aged |-> TRUE]
  <2>3. new \in [act : {"open", "read"}, aged : BOOLEAN] /\ new.aged
    OBVIOUS
  <2> HIDE DEF new
  <2>4. overstep' = overstep \cup {new}
    BY <2>2 DEF new
  <2>5. QED
    BY <1>1, <2>3, <2>4
<1>4. QED
  BY <1>2, <1>3

LEMMA StartKeeps ==
  ASSUME GatesInv, NEW r \in ToolRuns, StartRun(r) PROVE GatesInv'
<1> USE ToolsAssumption DEF StartRun, GatesInv
<1>1. PICK pc \in {IF r = OwnChat THEN "route" ELSE "judge", "loop"} :
        runs' = [runs EXCEPT ![r] = [pc |-> pc, limits |-> limits, at |-> changes,
                                     target |-> OwnChat]]
  BY Zenon
<1>2. /\ runs'[r] = [pc |-> pc, limits |-> limits, at |-> changes, target |-> OwnChat]
      /\ pc \in {"judge", "route", "loop"} /\ runs[r].pc = "idle"
      /\ \A q \in ToolRuns : q # r => runs'[q] = runs[q]
      /\ runs' \in [ToolRuns -> RunRecords]
  BY <1>1 DEF ToolTypeOK, RunRecords
<1>3. ToolTypeOK'
  BY <1>2 DEF ToolTypeOK, RunRecords
<1>4. CopiesAge'
  <2> SUFFICES ASSUME NEW q \in ToolRuns
               PROVE  /\ runs'[q].at <= changes
                      /\ runs'[q].pc # "idle" /\ runs'[q].at = changes => runs'[q].limits = limits
                      /\ runs'[q].pc = "sending" => MayMessage(runs'[q].limits, runs'[q].target)
                      /\ refusals[q] <= IF runs'[q].pc = "idle" THEN changes ELSE runs'[q].at
    BY DEF CopiesAge, MayMessage
  <2>1. CASE q = r
    BY <1>2, <2>1 DEF CopiesAge, ToolTypeOK
  <2>2. CASE q # r
    BY <1>2, <2>2 DEF CopiesAge
  <2>3. QED
    BY <2>1, <2>2
<1>5. QuestionStands'
  <2>1. CASE r = OwnChat
    BY <1>2, <2>1 DEF QuestionStands
  <2>2. CASE r # OwnChat
    BY <1>2, <2>2, QuestionStays
  <2>3. QED
    BY <2>1, <2>2
<1>6. CopyIsBuilt' /\ OnlyAgedTurnsCross'
  BY DEF CopyIsBuilt, OnlyAgedTurnsCross
<1>7. QED
  BY <1>3, <1>4, <1>5, <1>6

\* A turn moves on to another step with its copy and nothing else.
LEMMA TurnKeeps ==
  ASSUME GatesInv, NEW r \in ToolRuns, runs[r].pc # "idle", NEW pc \in {"ask", "loop"}, Turn(r, pc),
         UNCHANGED <<limits, changes, refusals>>
  PROVE  /\ runs' \in [ToolRuns -> RunRecords] /\ CopiesAge'
         /\ runs'[r].pc = pc /\ \A q \in ToolRuns : q # r => runs'[q] = runs[q]
<1> USE DEF GatesInv
<1>1. /\ runs' \in [ToolRuns -> RunRecords]
      /\ runs'[r].pc = pc /\ runs'[r].limits = runs[r].limits /\ runs'[r].at = runs[r].at
      /\ \A q \in ToolRuns : q # r => runs'[q] = runs[q]
  BY DEF Turn, ToolTypeOK, RunRecords
<1>2. CopiesAge'
  BY <1>1 DEF CopiesAge, MayMessage
<1>3. QED
  BY <1>1, <1>2

LEMMA JudgeKeeps ==
  ASSUME GatesInv, NEW r \in ToolRuns, JudgeGate(r) PROVE GatesInv'
<1> USE ToolsAssumption
<1>1. CASE Turn(r, "loop") /\ copy' = copy
  <2>1. runs' \in [ToolRuns -> RunRecords] /\ CopiesAge' /\ runs'[r].pc = "loop"
        /\ \A q \in ToolRuns : q # r => runs'[q] = runs[q]
    BY <1>1, TurnKeeps DEF JudgeGate
  <2>2. ToolTypeOK'
    BY <1>1, <2>1 DEF GatesInv, JudgeGate, ToolTypeOK, RunRecords
  <2>3. QuestionStands'
    BY <1>1, <2>1, QuestionStays DEF GatesInv, JudgeGate
  <2>4. QED
    BY <1>1, <2>1, <2>2, <2>3 DEF GatesInv, JudgeGate, CopyIsBuilt, OnlyAgedTurnsCross
<1>2. CASE Over(r)
  <2>1. refusals[r] \in Nat /\ refusals[r] <= changes
    BY DEF GatesInv, CopiesAge, ToolTypeOK
  <2>2. QED
    BY <1>2, <2>1, OverKeeps DEF JudgeGate, GatesInv, ToolTypeOK
<1>3. QED
  BY <1>1, <1>2 DEF JudgeGate

\* The router's outcome goes to the copy and, when it differs, to the row.
LEMMA RouteKeeps ==
  ASSUME GatesInv, NEW s \in BuilderStates, NEW odd \in BOOLEAN, GoesOnIn(s, odd),
         copy.odd => odd, ~odd => s \in Outcomes(copy.builder)
  PROVE  GatesInv'
<1> USE ToolsAssumption DEF GatesInv
<1>1. /\ builder \in BuilderStates /\ copy.builder \in BuilderStates
      /\ copy \in [builder : BuilderStates, wakes : [WakeKeys -> WakeKinds], odd : BOOLEAN]
  BY DEF ToolTypeOK
<1>2. /\ runs' \in [ToolRuns -> RunRecords] /\ CopiesAge'
      /\ runs'[OwnChat].pc = IF s = "clarify" THEN "ask" ELSE "loop"
  BY TurnKeeps DEF GoesOnIn
<1>3. /\ copy' \in [builder : BuilderStates, wakes : [WakeKeys -> WakeKinds], odd : BOOLEAN]
      /\ copy'.builder = s /\ copy'.odd = odd /\ copy'.wakes = copy.wakes
      /\ builder' \in BuilderStates /\ asked' \in {"no", "routed", "odd"}
  BY <1>1 DEF GoesOnIn, ToolTypeOK
<1>4. ToolTypeOK'
  BY <1>2, <1>3 DEF GoesOnIn, ToolTypeOK, RunRecords
<1>5. QuestionStands'
  <2>1. CASE s # "clarify"
    BY <1>2, <1>3, <2>1 DEF GoesOnIn, QuestionStands
  <2>2. CASE s = "clarify" /\ odd
    BY <1>2, <1>3, <2>2 DEF GoesOnIn, QuestionStands
  <2>3. CASE s = "clarify" /\ ~odd
    <3>1. copy.builder # "clarify" /\ copy.builder = builder /\ asked # "routed"
      BY <1>1, <2>3, OutcomesAreStates DEF GoesOnIn, QuestionStands, ToolTypeOK
    <3>2. QED
      BY <1>2, <1>3, <2>3, <3>1 DEF GoesOnIn, QuestionStands
  <2>4. QED
    BY <2>1, <2>2, <2>3
<1>6. CopyIsBuilt' /\ OnlyAgedTurnsCross'
  BY <1>3 DEF GoesOnIn, CopyIsBuilt, OnlyAgedTurnsCross
<1>7. QED
  BY <1>2, <1>4, <1>5, <1>6

LEMMA RoutersKeep ==
  ASSUME GatesInv, RouteOwnerTurn \/ RouteFrozen PROVE GatesInv'
<1>1. copy.builder \in BuilderStates /\ copy.odd \in BOOLEAN
  BY DEF GatesInv, ToolTypeOK
<1>2. CASE RouteOwnerTurn
  <2>1. PICK s \in Outcomes(copy.builder) : GoesOnIn(s, copy.odd)
    BY <1>2 DEF RouteOwnerTurn
  <2>2. QED
    BY <1>1, <2>1, OutcomesAreStates, RouteKeeps
<1>3. CASE RouteFrozen
  BY <1>1, <1>3, RouteKeeps DEF RouteFrozen
<1>4. QED
  BY <1>2, <1>3

LEMMA AskKeeps == ASSUME GatesInv, AskClarify PROVE GatesInv'
<1> USE ToolsAssumption DEF AskClarify, GatesInv
<1>1. OwnChat \in ToolRuns /\ Over(OwnChat)
  OBVIOUS
<1>2. ToolTypeOK'
  BY <1>1, OverIsTyped DEF ToolTypeOK, RunRecords
<1>3. CopiesAge'
  <2> SUFFICES ASSUME NEW q \in ToolRuns
               PROVE  /\ runs'[q].at <= changes
                      /\ runs'[q].pc # "idle" /\ runs'[q].at = changes => runs'[q].limits = limits
                      /\ runs'[q].pc = "sending" => MayMessage(runs'[q].limits, runs'[q].target)
                      /\ refusals[q] <= IF runs'[q].pc = "idle" THEN changes ELSE runs'[q].at
    BY DEF CopiesAge, MayMessage
  <2>1. CASE q = OwnChat
    BY <1>1, <2>1, OverIsTyped DEF CopiesAge, ToolTypeOK
  <2>2. CASE q # OwnChat
    BY <1>1, <2>2, OverIsTyped DEF CopiesAge
  <2>3. QED
    BY <2>1, <2>2
<1>4. QuestionStands'
  BY <1>1, OverIsTyped DEF QuestionStands
<1>5. CopyIsBuilt' /\ OnlyAgedTurnsCross'
  BY <1>1, OverIsTyped DEF CopyIsBuilt, OnlyAgedTurnsCross
<1>6. QED
  BY <1>2, <1>3, <1>4, <1>5

LEMMA EndKeeps == ASSUME GatesInv, NEW r \in ToolRuns, EndRun(r) PROVE GatesInv'
<1>1. refusals[r] <= changes /\ refusals \in [ToolRuns -> Nat]
  BY DEF GatesInv, CopiesAge, ToolTypeOK
<1>2. QED
  BY <1>1, OverKeeps DEF EndRun

-----------------------------------------------------------------------------
(* The tool calls. *)

\* A turn that its own copy lets message the chat waits to.
LEMMA SendingKeeps ==
  ASSUME GatesInv, NEW r \in ToolRuns, runs[r].pc # "idle",
         NEW c \in ToolChats, MayMessage(runs[r].limits, c),
         runs' = [runs EXCEPT ![r].pc = "sending", ![r].target = c],
         UNCHANGED <<limits, changes, refusals>>
  PROVE  /\ runs' \in [ToolRuns -> RunRecords] /\ CopiesAge'
         /\ runs'[r].pc = "sending" /\ \A q \in ToolRuns : q # r => runs'[q] = runs[q]
<1> USE DEF GatesInv
<1>1. /\ runs' \in [ToolRuns -> RunRecords]
      /\ runs'[r].pc = "sending" /\ runs'[r].target = c
      /\ runs'[r].limits = runs[r].limits /\ runs'[r].at = runs[r].at
      /\ \A q \in ToolRuns : q # r => runs'[q] = runs[q]
  BY DEF ToolTypeOK, RunRecords
<1>2. CopiesAge'
  BY <1>1 DEF CopiesAge, MayMessage
<1>3. QED
  BY <1>1, <1>2

LEMMA SendGateKeeps ==
  ASSUME GatesInv, NEW r \in ToolRuns, NEW c \in ToolChats, SendGate(r, c) PROVE GatesInv'
<1> USE ToolsAssumption
<1>1. runs' \in [ToolRuns -> RunRecords] /\ CopiesAge' /\ runs'[r].pc = "sending"
      /\ \A q \in ToolRuns : q # r => runs'[q] = runs[q]
  BY SendingKeeps DEF SendGate, Calls
<1>2. ToolTypeOK'
  BY <1>1 DEF GatesInv, SendGate, ToolTypeOK, RunRecords
<1>3. QuestionStands'
  BY <1>1, QuestionStays DEF GatesInv, SendGate
<1>4. QED
  BY <1>1, <1>2, <1>3 DEF GatesInv, SendGate, CopyIsBuilt, OnlyAgedTurnsCross

LEMMA SendToNewKeeps ==
  ASSUME GatesInv, NEW r \in ToolRuns, NEW c \in ToolChats \ ToolGroups, SendToNew(r, c)
  PROVE  GatesInv'
<1> USE ToolsAssumption
<1>1. /\ overstep' \subseteq [act : {"open", "read"}, aged : BOOLEAN]
      /\ \A x \in overstep' : x.aged
  <2>1. runs[r].pc # "idle" /\ MayOpen(limits) \in BOOLEAN /\ Crosses(r, "open", MayOpen(limits))
        /\ (runs[r].limits = limits => MayOpen(limits))
    BY DEF SendToNew, Calls, MayOpen
  <2>2. QED
    BY <2>1, CrossingIsAged
<1>2. /\ runs' \in [ToolRuns -> RunRecords] /\ CopiesAge'
      /\ runs'[OwnChat].pc = runs[OwnChat].pc \/ runs'[OwnChat].pc = "sending"
  <2>1. CASE MayMessage(runs[r].limits, c)
    BY <2>1, SendingKeeps DEF SendToNew, Calls
  <2>2. CASE ~MayMessage(runs[r].limits, c)
    BY <2>2, CopiesStayAged DEF SendToNew, GatesInv, ToolTypeOK, RunRecords
  <2>3. QED
    BY <2>1, <2>2
<1>3. ToolTypeOK'
  BY <1>1, <1>2 DEF GatesInv, SendToNew, ToolTypeOK, RunRecords
<1>4. QuestionStands'
  BY <1>2, QuestionStays DEF GatesInv, SendToNew
<1>5. QED
  BY <1>1, <1>2, <1>3, <1>4 DEF GatesInv, SendToNew, CopyIsBuilt, OnlyAgedTurnsCross

LEMMA DeliverKeeps == ASSUME GatesInv, NEW r \in ToolRuns, Deliver(r) PROVE GatesInv'
<1> USE ToolsAssumption
<1>1. CASE runs[r].target \in seats /\ InsertIsRefused(runs[r].target)
  <2>1. runs[r].pc # "idle" /\ runs[r].limits # limits
    BY <1>1 DEF Deliver, InsertIsRefused, GatesInv, CopiesAge
  <2>2. Over(r) /\ refusals' = [refusals EXCEPT ![r] = @ + 1]
    BY <1>1 DEF Deliver, Refused
  <2>3. QED
    BY <2>1, <2>2, RefusedIsAged, OverKeeps DEF Deliver
<1>2. CASE ~(runs[r].target \in seats /\ InsertIsRefused(runs[r].target))
  <2>1. Turn(r, "loop") /\ UNCHANGED <<copy, refusals>>
    BY <1>2 DEF Deliver
  <2>2. runs' \in [ToolRuns -> RunRecords] /\ CopiesAge' /\ runs'[r].pc = "loop"
        /\ \A q \in ToolRuns : q # r => runs'[q] = runs[q]
    BY <2>1, TurnKeeps DEF Deliver
  <2>3. ToolTypeOK'
    BY <2>1, <2>2 DEF GatesInv, Deliver, ToolTypeOK, RunRecords
  <2>4. QuestionStands'
    BY <2>1, <2>2, QuestionStays DEF GatesInv, Deliver
  <2>5. QED
    BY <2>1, <2>2, <2>3, <2>4 DEF GatesInv, Deliver, CopyIsBuilt, OnlyAgedTurnsCross
<1>3. QED
  BY <1>1, <1>2

LEMMA LeaveKeeps ==
  ASSUME GatesInv, NEW r \in ToolRuns, NEW c \in ToolChats, LeaveChat(r, c) PROVE GatesInv'
<1> USE ToolsAssumption
<1>1. CASE LeaveIsRefused(c)
  <2>1. runs[r].pc # "idle" /\ runs[r].limits # limits
    BY <1>1 DEF LeaveChat, Calls, LeaveIsRefused
  <2>2. Over(r) /\ refusals' = [refusals EXCEPT ![r] = @ + 1] /\ seats' = seats
    BY <1>1 DEF LeaveChat, Refused
  <2>3. QED
    BY <2>1, <2>2, RefusedIsAged, OverKeeps DEF LeaveChat
<1>2. CASE ~LeaveIsRefused(c)
  <2>1. seats' = seats \ {c} /\ UNCHANGED <<limits, builder, wakes, pairs, runs, copy, changes,
                                            refusals, overstep, vetted, asked, twice>>
    BY <1>2 DEF LeaveChat
  <2>2. CopiesAge' /\ QuestionStands'
    BY <2>1, CopiesStayAged, QuestionStays DEF GatesInv
  <2>3. QED
    BY <2>1, <2>2 DEF GatesInv, ToolTypeOK, CopyIsBuilt, OnlyAgedTurnsCross
<1>3. QED
  BY <1>1, <1>2

LEMMA ReadsKeep ==
  ASSUME GatesInv, NEW r \in ToolRuns,
         (\E c \in ToolChats : ReadChat(r, c)) \/ SearchChats(r)
  PROVE  GatesInv'
<1> USE ToolsAssumption
<1>1. /\ runs[r].pc # "idle"
      /\ UNCHANGED <<limits, builder, wakes, pairs, seats, runs, copy, changes, refusals,
                     vetted, asked, twice>>
  BY DEF ReadChat, SearchChats, Calls
<1>2. /\ overstep' \subseteq [act : {"open", "read"}, aged : BOOLEAN]
      /\ \A x \in overstep' : x.aged
  <2>1. ASSUME NEW c \in ToolChats, ReadChat(r, c)
        PROVE  /\ overstep' \subseteq [act : {"open", "read"}, aged : BOOLEAN]
               /\ \A x \in overstep' : x.aged
    <3>1. Crosses(r, "read", c \notin limits.blocked) /\ (c \notin limits.blocked) \in BOOLEAN
          /\ (runs[r].limits = limits => c \notin limits.blocked)
      BY <2>1 DEF ReadChat
    <3>2. QED
      BY <1>1, <3>1, CrossingIsAged
  <2>2. ASSUME SearchChats(r)
        PROVE  /\ overstep' \subseteq [act : {"open", "read"}, aged : BOOLEAN]
               /\ \A x \in overstep' : x.aged
    <3> DEFINE fine == seats \ runs[r].limits.blocked \subseteq seats \ limits.blocked
    <3>1. Crosses(r, "read", fine) /\ fine \in BOOLEAN /\ (runs[r].limits = limits => fine)
      BY <2>2 DEF SearchChats
    <3> HIDE DEF fine
    <3>2. QED
      BY <1>1, <3>1, CrossingIsAged
  <2>3. QED
    BY <2>1, <2>2
<1>3. CopiesAge' /\ QuestionStands'
  BY <1>1, CopiesStayAged, QuestionStays DEF GatesInv
<1>4. QED
  BY <1>1, <1>2, <1>3 DEF GatesInv, ToolTypeOK, CopyIsBuilt, OnlyAgedTurnsCross

LEMMA LookUpKeeps ==
  ASSUME GatesInv, NEW c \in ToolChats \ ToolGroups, LookUpUser(c) PROVE GatesInv'
<1> USE ToolsAssumption DEF LookUpUser, GatesInv
<1>1. CopiesAge' /\ QuestionStands'
  BY CopiesStayAged, QuestionStays
<1>2. QED
  BY <1>1 DEF ToolTypeOK, CopyIsBuilt, OnlyAgedTurnsCross

\* Writing the whole column is safe when each standing entry is accounted for.
LEMMA WritingKeeps ==
  ASSUME GatesInv, NEW w \in [WakeKeys -> WakeKinds], WritesTriggers(w),
         vetted \subseteq vetted', vetted' \subseteq WakeKeys,
         \A k \in WakeKeys \ WakeFlags :
            w[k] = "standing" => copy.wakes[k] = "standing" \/ k \in vetted'
  PROVE  GatesInv'
<1> USE DEF WritesTriggers, GatesInv
<1>1. copy' \in [builder : BuilderStates, wakes : [WakeKeys -> WakeKinds], odd : BOOLEAN]
      /\ copy'.wakes = w /\ copy'.builder = copy.builder /\ copy'.odd = copy.odd
  BY DEF ToolTypeOK
<1>2. ToolTypeOK'
  BY <1>1 DEF ToolTypeOK
<1>3. CopiesAge' /\ QuestionStands'
  BY <1>1, CopiesStayAged, QuestionStays
<1>4. CopyIsBuilt' /\ OnlyAgedTurnsCross'
  BY <1>1 DEF CopyIsBuilt, OnlyAgedTurnsCross
<1>5. QED
  BY <1>2, <1>3, <1>4

LEMMA TriggersKeep ==
  ASSUME GatesInv, NEW k \in WakeKeys, NEW kind \in WakeKinds,
         SetTrigger(k, kind) \/ SetDisposable(k, kind) \/ DropTrigger(k) \/ ScheduleLater
  PROVE  GatesInv'
<1> USE DEF WakeKinds
<1>1. copy.wakes \in [WakeKeys -> WakeKinds] /\ vetted \subseteq WakeKeys /\ ToolTypeOK
  BY DEF GatesInv, ToolTypeOK
<1>2. CASE SetTrigger(k, kind)
  <2>1. copy.builder = "builder_agent"
    BY <1>1, <1>2, TriggerIsBuilders DEF SetTrigger
  <2>2. QED
    BY <1>1, <1>2, <2>1, WritingKeeps DEF SetTrigger
<1>3. CASE SetDisposable(k, kind)
  BY <1>1, <1>3, WritingKeeps DEF SetDisposable
<1>4. CASE DropTrigger(k)
  BY <1>1, <1>4, WritingKeeps DEF DropTrigger
<1>5. CASE ScheduleLater
  BY <1>1, <1>5, WritingKeeps DEF ScheduleLater
<1>6. QED
  BY <1>2, <1>3, <1>4, <1>5

-----------------------------------------------------------------------------
(* The owner. *)

\* A change of the restrictions ages every copy.
LEMMA ChangingAges ==
  ASSUME GatesInv, UNCHANGED <<runs, refusals>>, changes' = changes + 1
  PROVE  CopiesAge'
<1>1. changes \in Nat /\ \A r \in ToolRuns : runs[r].at \in Nat /\ refusals[r] \in Nat
  BY DEF GatesInv, ToolTypeOK
<1>2. QED
  BY <1>1 DEF GatesInv, CopiesAge, MayMessage

LEMMA OwnersKeep ==
  ASSUME GatesInv,
         \/ \E l \in OwnerLimits : ChangeLimits(l)
         \/ ResetAgent
         \/ \E k \in WakeKeys, kind \in WakeKinds : ChangeTriggers(k, kind)
  PROVE  GatesInv'
<1> USE ToolsAssumption
<1>1. DefaultLimits \in Limits /\ changes \in Nat
  BY DEF DefaultLimits, Limits, Permissions, GatesInv, ToolTypeOK
<1>2. ASSUME NEW l \in OwnerLimits, ChangeLimits(l) PROVE GatesInv'
  <2>1. CopiesAge' /\ QuestionStands'
    BY <1>2, ChangingAges, QuestionStays DEF ChangeLimits, GatesInv
  <2>2. QED
    BY <1>1, <1>2, <2>1 DEF GatesInv, ChangeLimits, ToolTypeOK, CopyIsBuilt, OnlyAgedTurnsCross
<1>3. ASSUME ResetAgent PROVE GatesInv'
  <2>1. /\ copy' \in [builder : BuilderStates, wakes : [WakeKeys -> WakeKinds], odd : BOOLEAN]
        /\ copy'.wakes = copy.wakes /\ copy'.odd = (runs[OwnChat].pc # "idle")
        /\ NoWakes \in [WakeKeys -> WakeKinds] /\ "one_off_action" \in BuilderStates
    BY <1>3 DEF ResetAgent, GatesInv, ToolTypeOK, NoWakes, WakeKinds, BuilderStates, Destinations
  <2>2. CopiesAge'
    <3>1. CASE limits = DefaultLimits
      BY <1>3, <3>1, CopiesStayAged DEF ResetAgent, GatesInv
    <3>2. CASE limits # DefaultLimits
      BY <1>3, <3>2, ChangingAges DEF ResetAgent
    <3>3. QED
      BY <3>1, <3>2
  <2>3. QuestionStands'
    BY <1>3, <2>1 DEF ResetAgent, GatesInv, QuestionStands
  <2>4. CopyIsBuilt' /\ OnlyAgedTurnsCross'
    BY <1>3, <2>1 DEF ResetAgent, GatesInv, CopyIsBuilt, OnlyAgedTurnsCross, NoWakes
  <2>5. ToolTypeOK'
    BY <1>1, <1>3, <2>1 DEF ResetAgent, GatesInv, ToolTypeOK
  <2>6. QED
    BY <2>2, <2>3, <2>4, <2>5 DEF GatesInv
<1>4. ASSUME NEW k \in WakeKeys, NEW kind \in WakeKinds, ChangeTriggers(k, kind) PROVE GatesInv'
  <2>1. CopiesAge' /\ QuestionStands'
    BY <1>4, CopiesStayAged, QuestionStays DEF ChangeTriggers, GatesInv
  <2>2. wakes' \in [WakeKeys -> WakeKinds] /\ vetted' \subseteq WakeKeys
    BY <1>4 DEF ChangeTriggers, GatesInv, ToolTypeOK
  <2>3. CopyIsBuilt'
    BY <1>4 DEF ChangeTriggers, GatesInv, ToolTypeOK, CopyIsBuilt
  <2>4. QED
    BY <1>4, <2>1, <2>2, <2>3 DEF GatesInv, ChangeTriggers, ToolTypeOK, OnlyAgedTurnsCross
<1>5. QED
  BY <1>2, <1>3, <1>4

LEMMA JoinKeeps == ASSUME GatesInv, NEW c \in ToolChats, JoinChat(c) PROVE GatesInv'
<1> USE ToolsAssumption DEF JoinChat, GatesInv
<1>1. CopiesAge' /\ QuestionStands'
  BY CopiesStayAged, QuestionStays
<1>2. QED
  BY <1>1 DEF ToolTypeOK, CopyIsBuilt, OnlyAgedTurnsCross

LEMMA GatesStep == GatesInv /\ [GatesNext]_toolVars => GatesInv'
<1> SUFFICES ASSUME GatesInv, [GatesNext]_toolVars PROVE GatesInv'
  OBVIOUS
<1>1. CASE UNCHANGED toolVars
  <2> USE <1>1 DEF toolVars, GatesInv
  <2>1. CopiesAge' /\ QuestionStands'
    BY CopiesStayAged, QuestionStays
  <2>2. QED
    BY <2>1 DEF ToolTypeOK, CopyIsBuilt, OnlyAgedTurnsCross
<1>2. ASSUME NEW r \in ToolRuns, StartRun(r) \/ JudgeGate(r) \/ EndRun(r) \/ Deliver(r)
      PROVE  GatesInv'
  BY <1>2, StartKeeps, JudgeKeeps, EndKeeps, DeliverKeeps
<1>3. ASSUME NEW r \in ToolRuns, SearchChats(r) \/ \E c \in ToolChats : ReadChat(r, c)
      PROVE  GatesInv'
  BY <1>3, ReadsKeep
<1>4. ASSUME NEW r \in ToolRuns, NEW c \in ToolChats, SendGate(r, c) \/ LeaveChat(r, c)
      PROVE  GatesInv'
  BY <1>4, SendGateKeeps, LeaveKeeps
<1>5. ASSUME NEW r \in ToolRuns, NEW c \in ToolChats \ ToolGroups, SendToNew(r, c)
      PROVE  GatesInv'
  BY <1>5, SendToNewKeeps
<1>6. ASSUME RouteOwnerTurn \/ RouteFrozen \/ AskClarify PROVE GatesInv'
  BY <1>6, RoutersKeep, AskKeeps
<1>7. ASSUME NEW k \in WakeKeys, NEW kind \in WakeKinds,
             SetTrigger(k, kind) \/ SetDisposable(k, kind) \/ DropTrigger(k)
      PROVE  GatesInv'
  BY <1>7, TriggersKeep
<1>8. ASSUME ScheduleLater PROVE GatesInv'
  <2>1. copy.wakes \in [WakeKeys -> WakeKinds] /\ vetted \subseteq WakeKeys
    BY DEF GatesInv, ToolTypeOK
  <2>2. QED
    BY <1>8, <2>1, WritingKeeps DEF ScheduleLater
<1>9. ASSUME \/ \E l \in OwnerLimits : ChangeLimits(l)
             \/ ResetAgent
             \/ \E k \in WakeKeys, kind \in WakeKinds : ChangeTriggers(k, kind)
      PROVE  GatesInv'
  BY <1>9, OwnersKeep
<1>10. ASSUME NEW c \in ToolChats \ ToolGroups, LookUpUser(c) PROVE GatesInv'
  BY <1>10, LookUpKeeps
<1>11. ASSUME NEW c \in ToolChats, JoinChat(c) PROVE GatesInv'
  BY <1>11, JoinKeeps
<1>12. {"brief", "standing"} \subseteq WakeKinds
  BY DEF WakeKinds
<1>13. QED
  BY <1>1, <1>2, <1>3, <1>4, <1>5, <1>6, <1>7, <1>8, <1>9, <1>10, <1>11, <1>12 DEF GatesNext

\* The gates of an agent's tools, for any owner.
LEMMA GatesAlways ==
  GatesSpec => [](/\ ToolTypeOK /\ RefusalsAreFew /\ OnlyAgedTurnsCross
                  /\ OneClarify /\ StandingIsBuilt)
<1>1. GatesInv => /\ ToolTypeOK /\ RefusalsAreFew /\ OnlyAgedTurnsCross
                  /\ OneClarify /\ StandingIsBuilt
  <2> SUFFICES ASSUME GatesInv
               PROVE  /\ ToolTypeOK /\ RefusalsAreFew /\ OnlyAgedTurnsCross
                      /\ OneClarify /\ StandingIsBuilt
    OBVIOUS
  <2>1. RefusalsAreFew
    BY DEF GatesInv, CopiesAge, ToolTypeOK, RefusalsAreFew
  <2>2. QED
    BY <2>1 DEF GatesInv, QuestionStands, CopyIsBuilt, OneClarify, StandingIsBuilt
<1>2. QED
  BY <1>1, GatesInitHolds, GatesStep, PTL DEF GatesSpec

\* Whatever else moves in a chat, a fetch that says it has ended returned all
\* of its range, and a confirmation is worth one fetch unless turns overlapped;
\* an owner's documents keep to the quota, and each has its file, but for
\* commits that overlapped and removals that died (bulk fetch and knowledge).
\* Whatever a turn calls while the owner changes what it may do, the database
\* refuses it once per change at most, only an aged copy oversteps, the owner is
\* not asked twice, and no one-off turn makes a chat's wake-up permanent (tools).
THEOREM ToolsHoldAlways == BulkSpec /\ KnowSpec /\ GatesSpec => []ToolsHold
<1>1. /\ BulkTypeOK /\ LastPageIsLast /\ OneFetchPerCount
      /\ KnowTypeOK /\ QuotaIsKept /\ DocHasItsFile
      /\ ToolTypeOK /\ RefusalsAreFew /\ OnlyAgedTurnsCross /\ OneClarify /\ StandingIsBuilt
      => ToolsHold
  BY DEF ToolsHold
<1>2. QED
  BY <1>1, BulkAlways, KnowAlways, GatesAlways, PTL

-----------------------------------------------------------------------------
(***************************************************************************)
(* Tasks.  What the row promises is also promised by the copy in the mind  *)
(* of the session that holds the row: replies that were heard, one goal    *)
(* per chat, and an entry that tells the owner of each task that ended.    *)
(***************************************************************************)

\* What the row is, and what it becomes when the session that holds it commits.
Boards == {row} \cup {mind[s] : s \in holder}

RepliesIn(b) == \A t \in b.open : heard[t] \subseteq b.got[t]
GoalsIn(b) ==
    \A t, u \in b.open \ (expired \cup Relay) : TaskChats[t] \cap TaskChats[u] # {} => t = u
NoticesIn(b) == \A t \in spawned \ b.open : Summary(t) \in b.sched
EntriesDue(b) == \A e \in b.sched : fires[e] > 0 \/ e \in due

\* A task that was not committed has no replies, and is open at most in a
\* session that has nothing left to do but to commit it.
SpawnsCounted ==
    /\ row.open \subseteq spawned
    /\ \A s \in Sessions : job[s][1] # "last" => mind[s].open \subseteq spawned
    /\ \A t \in Tasks \ spawned :
         heard[t] = {} /\ row.got[t] = {} /\ \A s \in Sessions : mind[s].got[t] = {}

\* Who holds the row has written; a request and a disabled agent left their mark;
\* what fires was counted.
MarksKept ==
    /\ holder = {} \/ \E s \in Sessions : holder = {s}
    /\ \A s \in holder : job[s][1] \in {"last", "sweep", "request", "turn", "reply"}
    /\ enabled \/ "disabled" \in lapse
    /\ \A s \in Sessions : job[s][1] \in {"request", "resync"} => lapse # {}
    /\ \A e \in firing : fires[e] > 0

BoardsKeep ==
    /\ "overlap" \notin lapse => \A b \in Boards : RepliesIn(b) /\ GoalsIn(b)
    /\ lapse \cap {"overlap", "cap", "reset", "dropped"} = {} => \A b \in Boards : NoticesIn(b)
    /\ lapse = {} => \A b \in Boards : EntriesDue(b) /\ row.sched \subseteq b.sched

BoardInv == BoardTypeOK /\ SpawnsCounted /\ MarksKept /\ BoardsKeep

LEMMA JobHeads ==
    /\ \A j \in Jobs : j[1] \in {"none", "fresh", "sweep", "request", "resync", "last", "turn", "reply"}
    /\ \A h \in {"none", "fresh", "sweep", "request", "resync", "last"} : <<h>> \in Jobs /\ <<h>>[1] = h
    /\ \A t \in Tasks, h \in {"turn", "reply"} : <<h, t>> \in Jobs /\ <<h, t>>[1] = h
BY DEF Jobs

LEMMA BoardShapes ==
    /\ NoTriggers \in Triggers /\ NoTriggers.open = {} /\ \A t \in Tasks : NoTriggers.got[t] = {}
    /\ \A t \in Tasks : Summary(t) \in Entries /\ Openers(t) \subseteq Entries /\ TaskChats[t] \subseteq Peers
BY BoardAssumption DEF NoTriggers, Triggers, Entries, Peers

LEMMA BoardInitHolds == BoardInit => BoardInv
<1> SUFFICES ASSUME BoardInit PROVE BoardInv
  OBVIOUS
<1>1. /\ holder = {} /\ lapse = {} /\ spawned = {} /\ expired = {} /\ due = {} /\ firing = {} /\ enabled = TRUE
      /\ row = NoTriggers /\ \A s \in Sessions : mind[s] = NoTriggers /\ job[s] = <<"none">>
      /\ mind \in [Sessions -> Triggers] /\ job \in [Sessions -> Jobs]
      /\ heard = [t \in Tasks |-> {}] /\ fires = [e \in Entries |-> 0] /\ used = [loads |-> 0, faults |-> 0]
  BY JobHeads, BoardShapes DEF BoardInit
<1>2. BoardTypeOK
  <2>1. Cardinality(holder) = 0
    BY <1>1, FS_EmptySet
  <2>2. used \in [loads : 0..MaxLoads, faults : 0..BoardFaults] /\ fires \in [Entries -> 0..MaxFires]
    BY <1>1, BoardAssumption
  <2>3. heard \in [Tasks -> SUBSET Peers] /\ row \in Triggers
    BY <1>1, BoardShapes
  <2>4. QED
    BY <1>1, <2>1, <2>2, <2>3, 0 <= 1 DEF BoardTypeOK
<1>3. SpawnsCounted
  BY <1>1, BoardShapes DEF SpawnsCounted
<1>4. MarksKept
  BY <1>1, JobHeads DEF MarksKept
<1>5. Boards = {NoTriggers}
  BY <1>1 DEF Boards
<1>6. RepliesIn(NoTriggers) /\ GoalsIn(NoTriggers) /\ NoticesIn(NoTriggers) /\ EntriesDue(NoTriggers)
  BY <1>1 DEF RepliesIn, GoalsIn, NoticesIn, EntriesDue, NoTriggers
<1>7. BoardsKeep
  BY <1>1, <1>5, <1>6 DEF BoardsKeep
<1>8. QED
  BY <1>2, <1>3, <1>4, <1>7 DEF BoardInv

-----------------------------------------------------------------------------
LEMMA DisturbsTyped ==
  ASSUME BoardInv, Disturbs
  PROVE  used' \in [loads : 0..MaxLoads, faults : 0..BoardFaults]
<1>1. /\ used \in [loads : 0..MaxLoads, faults : 0..BoardFaults]
      /\ used' = [used EXCEPT !.faults = @ + 1] /\ used.faults < BoardFaults /\ BoardFaults \in Nat
  BY BoardAssumption DEF Disturbs, BoardInv, BoardTypeOK
<1>2. used' = [loads |-> used.loads, faults |-> used.faults + 1] /\ used.faults \in 0..BoardFaults
      /\ used.loads \in 0..MaxLoads
  BY <1>1
<1>3. used.faults + 1 \in 0..BoardFaults
  BY <1>1, <1>2
<1>4. QED
  BY <1>2, <1>3

\* A write that only adds to the schedule, gives a notice for what it closes
\* and keeps the replies of what stays open.
LEMMA WriteKeeps ==
  ASSUME BoardInv, NEW s \in Sessions, NEW b \in Triggers, NEW why \in SUBSET {"cap"}, NEW j \in Jobs,
         Persist(s, b, why), Then(s, j), j[1] \in {"last", "sweep", "turn", "reply"},
         j[1] = "last" \/ b.open \subseteq spawned,
         \A t \in Tasks \ spawned : b.got[t] = {},
         \A t \in spawned : t \in mind[s].open /\ t \notin b.open => Summary(t) \in b.sched \/ "cap" \in why,
         mind[s].sched \subseteq b.sched,
         \A t \in b.open : t \notin spawned \/ (t \in mind[s].open /\ mind[s].got[t] \subseteq b.got[t]),
         GoalsIn(mind[s]) => GoalsIn(b)
  PROVE  BoardInv'
<1> USE DEF BoardInv
<1>0. \E more \in {{}, {"fault"}} :
          /\ Flush(s, b, why \cup more) /\ (UNCHANGED used \/ Disturbs)
          /\ due' \in {due, b.sched, due \cup b.sched}
          /\ more = {} => due' = IF b.sched = mind[s].sched THEN due ELSE b.sched
  <2>1. CASE Flush(s, b, why) /\ UNCHANGED used /\ due' = IF b.sched = mind[s].sched THEN due ELSE DueAfter(b)
    <3>1. why \cup {} = why
      OBVIOUS
    <3>2. QED
      BY <2>1, <3>1 DEF DueAfter
  <2>2. CASE /\ Flush(s, b, why \cup {"fault"}) /\ Disturbs
             /\ due' \in IF b.sched = mind[s].sched THEN {due} ELSE HalfDue(b)
    BY <2>2 DEF HalfDue, DueAfter
  <2>3. QED
    BY <2>1, <2>2 DEF Persist
<1>1. /\ holder \subseteq {s} /\ holder' = {s} /\ mind' = [mind EXCEPT ![s] = b]
      /\ lapse \cup why \subseteq lapse' /\ lapse' \subseteq lapse \cup why \cup {"fault", "overlap"}
      /\ holder = {} /\ mind[s] # row => "overlap" \in lapse'
      /\ lapse' = {} => due' = IF b.sched = mind[s].sched THEN due ELSE b.sched
      /\ due' \in {due, b.sched, due \cup b.sched}
      /\ UNCHANGED <<row, enabled, firing, fires, expired, heard, spawned>>
      /\ used' \in [loads : 0..MaxLoads, faults : 0..BoardFaults]
      /\ job' = [job EXCEPT ![s] = j]
  <2>1. used' \in [loads : 0..MaxLoads, faults : 0..BoardFaults]
    BY <1>0, DisturbsTyped DEF BoardTypeOK
  <2>2. QED
    BY <1>0, <2>1 DEF Flush, Then
<1>2. /\ mind' \in [Sessions -> Triggers] /\ mind'[s] = b /\ \A r \in Sessions : r # s => mind'[r] = mind[r]
      /\ job' \in [Sessions -> Jobs] /\ job'[s] = j /\ \A r \in Sessions : r # s => job'[r] = job[r]
  BY <1>1 DEF BoardTypeOK
<1>3. Boards' = {row, b}
  BY <1>1, <1>2 DEF Boards
<1>4. "overlap" \notin lapse' => (mind[s] \in Boards /\ row \in Boards /\ "overlap" \notin lapse)
  BY <1>1 DEF Boards
<1>5. lapse \subseteq lapse' /\ lapse' \subseteq Excuses /\ ("cap" \in why => "cap" \in lapse')
  BY <1>1 DEF BoardTypeOK, Excuses
<1>6. BoardTypeOK'
  <2>1. Cardinality(holder') <= 1
    <3>1. Cardinality({s}) = 1
      BY FS_Singleton
    <3>2. QED
      BY <1>1, <3>1
  <2>2. due' \subseteq Entries
    BY <1>1 DEF BoardTypeOK, Triggers
  <2>3. QED
    BY <1>1, <1>2, <1>5, <2>1, <2>2 DEF BoardTypeOK
<1>7. SpawnsCounted'
  BY <1>1, <1>2 DEF SpawnsCounted
<1>8. MarksKept'
  BY <1>1, <1>2, <1>5 DEF MarksKept
<1>9. ASSUME "overlap" \notin lapse' PROVE RepliesIn(b)' /\ GoalsIn(b)' /\ RepliesIn(row)' /\ GoalsIn(row)'
  <2>1. RepliesIn(mind[s]) /\ GoalsIn(mind[s]) /\ RepliesIn(row) /\ GoalsIn(row)
    BY <1>4, <1>9 DEF BoardsKeep
  <2>2. RepliesIn(row)' /\ GoalsIn(row)' /\ GoalsIn(b)'
    BY <1>1, <2>1 DEF RepliesIn, GoalsIn
  <2>3. RepliesIn(b)'
    BY <1>1, <2>1 DEF RepliesIn, SpawnsCounted, Triggers
  <2>4. QED
    BY <2>2, <2>3
<1>10. ASSUME lapse' \cap {"overlap", "cap", "reset", "dropped"} = {} PROVE NoticesIn(b)' /\ NoticesIn(row)'
  <2>1. NoticesIn(mind[s]) /\ NoticesIn(row)
    BY <1>4, <1>5, <1>10 DEF BoardsKeep
  <2>2. QED
    BY <1>1, <1>5, <1>10, <2>1 DEF NoticesIn
<1>11. ASSUME lapse' = {}
       PROVE  EntriesDue(b)' /\ EntriesDue(row)' /\ row.sched \subseteq b.sched
  <2>1. EntriesDue(mind[s]) /\ EntriesDue(row) /\ row.sched \subseteq mind[s].sched
    BY <1>4, <1>5, <1>11 DEF BoardsKeep
  <2>2. CASE b.sched = mind[s].sched
    BY <1>1, <2>1, <2>2 DEF EntriesDue
  <2>3. CASE b.sched # mind[s].sched
    <3>1. due' = b.sched /\ fires' = fires /\ row' = row
      BY <1>1, <1>11, <2>3
    <3>2. row.sched \subseteq b.sched
      BY <2>1
    <3>3. EntriesDue(b)' /\ EntriesDue(row)'
      BY <3>1, <3>2 DEF EntriesDue
    <3>4. QED
      BY <3>2, <3>3
  <2>4. QED
    BY <2>1, <2>2, <2>3
<1>12. BoardsKeep'
  <2>1. "overlap" \notin lapse' => \A c \in Boards' : RepliesIn(c)' /\ GoalsIn(c)'
    BY <1>1, <1>3, <1>9 DEF RepliesIn, GoalsIn
  <2>2. lapse' \cap {"overlap", "cap", "reset", "dropped"} = {} => \A c \in Boards' : NoticesIn(c)'
    BY <1>1, <1>3, <1>10 DEF NoticesIn
  <2>3. lapse' = {} => \A c \in Boards' : EntriesDue(c)' /\ row'.sched \subseteq c.sched
    BY <1>1, <1>3, <1>11 DEF EntriesDue
  <2>4. QED
    BY <2>1, <2>2, <2>3 DEF BoardsKeep
<1>13. QED
  BY <1>6, <1>7, <1>8, <1>12

\* What the writes make of a triggers value.
LEMMA ClosedShape ==
  ASSUME NEW b \in Triggers, NEW t \in Tasks
  PROVE  /\ Closed(b, t) \in Triggers
         /\ Closed(b, t).open = b.open \ {t} /\ Closed(b, t).got = b.got
         /\ b.sched \subseteq Closed(b, t).sched
         /\ NoticeFits(b, t) => Summary(t) \in Closed(b, t).sched
<1>1. b = [open |-> b.open, got |-> b.got, turns |-> b.turns, idle |-> b.idle, sched |-> b.sched]
  BY DEF Triggers
<1> DEFINE open == b.open \ {t}
           sched == IF NoticeFits(b, t) THEN b.sched \cup {Summary(t)} ELSE b.sched
<1>2. [b EXCEPT !.open = open].sched = b.sched
  BY <1>1
<1>3. Closed(b, t) = [b EXCEPT !.open = open, !.sched = sched]
  BY <1>2 DEF Closed
<1>4. open \subseteq Tasks /\ sched \subseteq Entries /\ b.sched \subseteq sched
      /\ (NoticeFits(b, t) => Summary(t) \in sched)
  BY BoardShapes DEF Triggers
<1> HIDE DEF open, sched
<1>5. Closed(b, t) = [open |-> open, got |-> b.got, turns |-> b.turns, idle |-> b.idle, sched |-> sched]
  BY <1>1, <1>3
<1>6. QED
  BY <1>4, <1>5 DEF Triggers, open

LEMMA SpawnedShape ==
  ASSUME NEW b \in Triggers, NEW t \in Tasks, NEW o \in {{}, Openers(t)}
  PROVE  /\ Spawned(b, t, o) \in Triggers
         /\ Spawned(b, t, o).open = b.open \cup {t} /\ Spawned(b, t, o).got = b.got
         /\ b.sched \subseteq Spawned(b, t, o).sched
<1>1. b = [open |-> b.open, got |-> b.got, turns |-> b.turns, idle |-> b.idle, sched |-> b.sched]
  BY DEF Triggers
<1> DEFINE open == b.open \cup {t}
           sched == b.sched \cup o
<1>2. [b EXCEPT !.open = open].sched = b.sched
  BY <1>1
<1>3. Spawned(b, t, o) = [b EXCEPT !.open = open, !.sched = sched]
  BY <1>2 DEF Spawned
<1>4. open \subseteq Tasks /\ sched \subseteq Entries /\ b.sched \subseteq sched
  BY BoardShapes DEF Triggers
<1> HIDE DEF open, sched
<1>5. Spawned(b, t, o) = [open |-> open, got |-> b.got, turns |-> b.turns, idle |-> b.idle, sched |-> sched]
  BY <1>1, <1>3
<1>6. QED
  BY <1>4, <1>5 DEF Triggers, open

LEMMA AnsweredShape ==
  ASSUME NEW b \in Triggers, NEW t \in Tasks, NEW c \in Peers
  PROVE  /\ Answered(b, t, c) \in Triggers
         /\ Answered(b, t, c).open = b.open /\ Answered(b, t, c).sched = b.sched
         /\ \A u \in Tasks : b.got[u] \subseteq Answered(b, t, c).got[u]
         /\ \A u \in Tasks : u # t => Answered(b, t, c).got[u] = b.got[u]
<1>1. b = [open |-> b.open, got |-> b.got, turns |-> b.turns, idle |-> b.idle, sched |-> b.sched]
      /\ b.got \in [Tasks -> SUBSET Peers]
  BY DEF Triggers
<1> DEFINE got == [b.got EXCEPT ![t] = @ \cup {c}]
<1>2. Answered(b, t, c) = [open |-> b.open, got |-> got, turns |-> b.turns, idle |-> b.idle, sched |-> b.sched]
  BY <1>1 DEF Answered
<1>3. /\ got \in [Tasks -> SUBSET Peers] /\ \A u \in Tasks : b.got[u] \subseteq got[u]
      /\ \A u \in Tasks : u # t => got[u] = b.got[u]
  BY <1>1
<1> HIDE DEF got
<1>4. QED
  BY <1>2, <1>3 DEF Triggers

\* Counting a turn, or an idle one, changes nothing else.
LEMMA TurnsShape ==
  ASSUME NEW b \in Triggers, NEW t \in Tasks, NEW n \in 0..MaxTurns, NEW c, c = [b EXCEPT !.turns[t] = n]
  PROVE  c \in Triggers /\ c.open = b.open /\ c.got = b.got /\ c.sched = b.sched
<1> DEFINE turns == [b.turns EXCEPT ![t] = n]
<1>1. b = [open |-> b.open, got |-> b.got, turns |-> b.turns, idle |-> b.idle, sched |-> b.sched]
      /\ b.turns \in [Tasks -> 0..MaxTurns]
  BY DEF Triggers
<1>2. turns \in [Tasks -> 0..MaxTurns]
  BY <1>1
<1>3. c = [open |-> b.open, got |-> b.got, turns |-> turns, idle |-> b.idle, sched |-> b.sched]
  BY <1>1
<1> HIDE DEF turns
<1>4. QED
  BY <1>2, <1>3 DEF Triggers

LEMMA IdleShape ==
  ASSUME NEW b \in Triggers, NEW t \in Tasks, NEW n \in 0..MaxIdle, NEW c, c = [b EXCEPT !.idle[t] = n]
  PROVE  c \in Triggers /\ c.open = b.open /\ c.got = b.got /\ c.sched = b.sched
<1> DEFINE idle == [b.idle EXCEPT ![t] = n]
<1>1. b = [open |-> b.open, got |-> b.got, turns |-> b.turns, idle |-> b.idle, sched |-> b.sched]
      /\ b.idle \in [Tasks -> 0..MaxIdle]
  BY DEF Triggers
<1>2. idle \in [Tasks -> 0..MaxIdle]
  BY <1>1
<1>3. c = [open |-> b.open, got |-> b.got, turns |-> b.turns, idle |-> idle, sched |-> b.sched]
  BY <1>1
<1> HIDE DEF idle
<1>4. QED
  BY <1>2, <1>3 DEF Triggers

-----------------------------------------------------------------------------
LEMMA CloseKeeps ==
  ASSUME BoardInv, NEW s \in Sessions, NEW t \in Tasks, NEW h \in {"last", "sweep"},
         CloseTask(s, t), Then(s, <<h>>), job[s][1] # "last"
  PROVE  BoardInv'
<1> DEFINE m == mind[s]
           why == IF NoticeFits(m, t) THEN {} ELSE {"cap"}
<1>1. m \in Triggers /\ m.open \subseteq spawned /\ \A u \in Tasks \ spawned : m.got[u] = {}
  BY DEF BoardInv, BoardTypeOK, SpawnsCounted
<1>2. Persist(s, Closed(m, t), why) /\ why \in SUBSET {"cap"}
  BY DEF CloseTask
<1> HIDE DEF m, why
<1>3. /\ Closed(m, t) \in Triggers
      /\ Closed(m, t).open = m.open \ {t} /\ Closed(m, t).got = m.got
      /\ m.sched \subseteq Closed(m, t).sched
      /\ NoticeFits(m, t) => Summary(t) \in Closed(m, t).sched
  BY <1>1, ClosedShape
<1>4. \A u \in spawned : u \in m.open /\ u \notin Closed(m, t).open =>
          Summary(u) \in Closed(m, t).sched \/ "cap" \in why
  BY <1>3 DEF why
<1>5. GoalsIn(m) => GoalsIn(Closed(m, t))
  BY <1>3 DEF GoalsIn
<1>6. <<h>> \in Jobs /\ <<h>>[1] \in {"last", "sweep", "turn", "reply"}
  BY JobHeads
<1>7. \A u \in Closed(m, t).open : u \in m.open /\ m.got[u] \subseteq Closed(m, t).got[u]
  BY <1>3
<1>8. /\ Closed(m, t).open \subseteq spawned
      /\ \A u \in Tasks \ spawned : Closed(m, t).got[u] = {}
  BY <1>1, <1>3
<1>9. QED
  BY <1>2, <1>3, <1>4, <1>5, <1>6, <1>7, <1>8, WriteKeeps DEF m

LEMMA SpawnKeeps ==
  ASSUME BoardInv, NEW s \in Sessions, NEW t \in Tasks, SpawnTask(s, t)
  PROVE  BoardInv'
<1> DEFINE m == mind[s]
           refused == Closed(Spawned(m, t, {}), t)
<1>1. job[s][1] = "fresh"
  BY DEF SpawnTask
<1>2. m \in Triggers /\ m.open \subseteq spawned /\ \A u \in Tasks \ spawned : m.got[u] = {}
  BY <1>1 DEF BoardInv, BoardTypeOK, SpawnsCounted
<1>3. /\ t \notin spawned /\ Then(s, <<"last">>)
      /\ t \notin Relay => \A c \in TaskChats[t] : GoalFor(m, c) = {}
      /\ \/ \E o \in {{}, Openers(t)} : Persist(s, Spawned(m, t, o), {})
         \/ Persist(s, refused, {})
  BY DEF SpawnTask, MaySpawn, Unknown
<1> HIDE DEF m
<1>4. <<"last">> \in Jobs /\ <<"last">>[1] = "last"
  BY JobHeads
<1>5. CASE \E o \in {{}, Openers(t)} : Persist(s, Spawned(m, t, o), {})
  <2>1. PICK o \in {{}, Openers(t)} : Persist(s, Spawned(m, t, o), {})
    BY <1>5
  <2>2. PICK b : b = Spawned(m, t, o)
    OBVIOUS
  <2>3. b \in Triggers /\ b.open = m.open \cup {t} /\ b.got = m.got /\ m.sched \subseteq b.sched
    <3>1. m \in Triggers
      BY <1>2
    <3>2. \A p \in {{}, Openers(t)} :
             /\ Spawned(m, t, p) \in Triggers /\ Spawned(m, t, p).open = m.open \cup {t}
             /\ Spawned(m, t, p).got = m.got /\ m.sched \subseteq Spawned(m, t, p).sched
      BY <3>1, SpawnedShape
    <3>3. QED
      BY <2>2, <3>2
  <2>4. GoalsIn(m) => GoalsIn(b)
    <3>1. ASSUME NEW u \in m.open \ (expired \cup Relay), t \notin Relay PROVE TaskChats[t] \cap TaskChats[u] = {}
      BY <1>3, <3>1 DEF GoalFor, Active
    <3>2. QED
      BY <2>3, <3>1 DEF GoalsIn
  <2>5. \A u \in b.open : u \notin spawned \/ (u \in m.open /\ m.got[u] \subseteq b.got[u])
    BY <1>3, <2>3
  <2>6. /\ \A u \in Tasks \ spawned : b.got[u] = {}
        /\ \A u \in spawned : u \in m.open /\ u \notin b.open => Summary(u) \in b.sched \/ "cap" \in {}
    BY <1>2, <2>3
  <2>7. Persist(s, b, {})
    BY <2>1, <2>2
  <2>8. QED
    BY <1>3, <1>4, <2>3, <2>4, <2>5, <2>6, <2>7, WriteKeeps DEF m
<1>6. CASE Persist(s, refused, {})
  <2>1. PICK a \in Triggers : a = Spawned(m, t, {}) /\ a.open = m.open \cup {t} /\ a.got = m.got /\ m.sched \subseteq a.sched
    BY <1>2, SpawnedShape
  <2>2. PICK b : b = Closed(a, t)
    OBVIOUS
  <2>3. b \in Triggers /\ b.open = m.open /\ b.got = m.got /\ m.sched \subseteq b.sched
    <3>1. /\ Closed(a, t) \in Triggers /\ Closed(a, t).open = a.open \ {t}
          /\ Closed(a, t).got = a.got /\ a.sched \subseteq Closed(a, t).sched
      BY ClosedShape
    <3>2. t \notin m.open
      BY <1>2, <1>3
    <3>3. QED
      BY <2>1, <2>2, <3>1, <3>2
  <2>4. Persist(s, b, {})
    BY <1>6, <2>1, <2>2
  <2>5. GoalsIn(m) => GoalsIn(b)
    BY <2>3 DEF GoalsIn
  <2>6. /\ \A u \in b.open : u \notin spawned \/ (u \in m.open /\ m.got[u] \subseteq b.got[u])
        /\ \A u \in Tasks \ spawned : b.got[u] = {}
        /\ \A u \in spawned : u \in m.open /\ u \notin b.open => Summary(u) \in b.sched \/ "cap" \in {}
    BY <1>2, <2>3
  <2>7. QED
    BY <1>3, <1>4, <2>3, <2>4, <2>5, <2>6, WriteKeeps DEF m
<1>7. QED
  BY <1>3, <1>5, <1>6

\* A write that neither opens nor closes a task.
LEMMA ProgressKeeps ==
  ASSUME BoardInv, NEW s \in Sessions, NEW b \in Triggers, NEW j \in Jobs, Persist(s, b, {}), Then(s, j),
         j[1] \in {"last", "turn", "reply"}, job[s][1] # "last",
         b.open = mind[s].open, b.sched = mind[s].sched,
         \A u \in Tasks : mind[s].got[u] \subseteq b.got[u], \A u \in Tasks \ spawned : b.got[u] = {}
  PROVE  BoardInv'
<1>1. mind[s] \in Triggers /\ mind[s].open \subseteq spawned /\ mind[s].open \subseteq Tasks
  BY DEF BoardInv, BoardTypeOK, SpawnsCounted, Triggers
<1>2. GoalsIn(mind[s]) => GoalsIn(b)
  BY DEF GoalsIn
<1>3. \A u \in b.open : u \in mind[s].open /\ mind[s].got[u] \subseteq b.got[u]
  BY <1>1
<1>4. b.open \subseteq spawned /\ mind[s].sched \subseteq b.sched
  BY <1>1
<1>5. \A u \in spawned : u \in mind[s].open /\ u \notin b.open => Summary(u) \in b.sched \/ "cap" \in {}
  OBVIOUS
<1>6. QED
  BY <1>2, <1>3, <1>4, <1>5, WriteKeeps

LEMMA BeginTurnKeeps ==
  ASSUME BoardInv, NEW s \in Sessions, NEW t \in Tasks, BeginTurn(s, t)
  PROVE  BoardInv'
<1> DEFINE n == mind[s].turns[t] + 1
           b == [mind[s] EXCEPT !.turns[t] = n]
<1>1. job[s][1] = "fresh" /\ mind[s] \in Triggers /\ \A u \in Tasks \ spawned : mind[s].got[u] = {}
  BY DEF BeginTurn, BoardInv, BoardTypeOK, SpawnsCounted
<1>2. CASE mind[s].turns[t] >= MaxTurns
  BY <1>1, <1>2, CloseKeeps DEF BeginTurn
<1>3. CASE ~(mind[s].turns[t] >= MaxTurns)
  <2>1. mind[s].turns[t] \in 0..MaxTurns /\ MaxTurns \in Nat
    BY <1>1, BoardAssumption DEF Triggers
  <2>2. n \in 0..MaxTurns
    BY <1>3, <2>1
  <2>3. [mind[s] EXCEPT !.turns[t] = @ + 1] = b
    OBVIOUS
  <2>4. Persist(s, b, {}) /\ Then(s, <<"turn", t>>)
    BY <1>3, <2>3 DEF BeginTurn
  <2>5. b \in Triggers /\ b.open = mind[s].open /\ b.got = mind[s].got /\ b.sched = mind[s].sched
    <3>1. b = [mind[s] EXCEPT !.turns[t] = n] /\ n \in 0..MaxTurns /\ mind[s] \in Triggers
      BY <1>1, <2>2
    <3> HIDE DEF b, n
    <3>2. QED
      BY <3>1, TurnsShape
  <2> HIDE DEF b, n
  <2>6. <<"turn", t>> \in Jobs /\ <<"turn", t>>[1] = "turn"
    BY JobHeads
  <2>7. QED
    BY <1>1, <2>4, <2>5, <2>6, ProgressKeeps
<1>4. QED
  BY <1>2, <1>3

LEMMA TurnEndsKeeps ==
  ASSUME BoardInv, NEW s \in Sessions, NEW t \in Tasks, NEW acted \in BOOLEAN, TurnEnds(s, t, acted)
  PROVE  BoardInv'
<1> DEFINE idle == IF acted THEN 0 ELSE mind[s].idle[t] + 1
           b == [mind[s] EXCEPT !.idle[t] = idle]
<1>1. job[s][1] = "turn" /\ mind[s] \in Triggers /\ \A u \in Tasks \ spawned : mind[s].got[u] = {}
  BY DEF TurnEnds, BoardInv, BoardTypeOK, SpawnsCounted
<1>2. CASE CloseTask(s, t)
  BY <1>1, <1>2, CloseKeeps DEF TurnEnds
<1>3. CASE ~(idle >= MaxIdle) /\ Persist(s, b, {})
  <2>1. mind[s].idle[t] \in 0..MaxIdle /\ MaxIdle \in Nat
    BY <1>1, BoardAssumption DEF Triggers
  <2>2. idle \in 0..MaxIdle
    BY <1>3, <2>1
  <2>3. Persist(s, b, {}) /\ Then(s, <<"last">>)
    BY <1>3 DEF TurnEnds
  <2>4. b \in Triggers /\ b.open = mind[s].open /\ b.got = mind[s].got /\ b.sched = mind[s].sched
    <3> HIDE DEF idle
    <3>1. QED
      BY <1>1, <2>2, IdleShape
  <2> HIDE DEF b, idle
  <2>5. <<"last">> \in Jobs /\ <<"last">>[1] = "last"
    BY JobHeads
  <2>6. QED
    BY <1>1, <2>3, <2>4, <2>5, ProgressKeeps
<1>4. QED
  BY <1>2, <1>3 DEF TurnEnds

LEMMA RecordReplyKeeps ==
  ASSUME BoardInv, NEW s \in Sessions, NEW c \in Peers, RecordReply(s, c)
  PROVE  BoardInv'
<1>1. job[s][1] = "fresh" /\ mind[s] \in Triggers /\ \A u \in Tasks \ spawned : mind[s].got[u] = {}
  BY DEF RecordReply, BoardInv, BoardTypeOK, SpawnsCounted
<1>2. mind[s].open \subseteq spawned /\ mind[s].open \subseteq Tasks
  BY <1>1 DEF BoardInv, SpawnsCounted, Triggers
<1>3. PICK t \in RelayFor(mind[s], c) : Persist(s, Answered(mind[s], t, c), {}) /\ Then(s, <<"reply", t>>)
  BY DEF RecordReply
<1>4. t \in mind[s].open /\ t \in Tasks /\ t \in spawned
  BY <1>2 DEF RelayFor, Active
<1> DEFINE b == Answered(mind[s], t, c)
<1>5. /\ b \in Triggers /\ b.open = mind[s].open /\ b.sched = mind[s].sched
      /\ \A u \in Tasks : mind[s].got[u] \subseteq b.got[u]
      /\ \A u \in Tasks : u # t => b.got[u] = mind[s].got[u]
  BY <1>1, <1>4, AnsweredShape
<1> HIDE DEF b
<1>6. <<"reply", t>> \in Jobs /\ <<"reply", t>>[1] = "reply"
  BY <1>4, JobHeads
<1>7. \A u \in Tasks \ spawned : b.got[u] = {}
  BY <1>1, <1>4, <1>5
<1>8. QED
  BY <1>1, <1>3, <1>5, <1>6, <1>7, ProgressKeeps DEF b

-----------------------------------------------------------------------------
\* A session reads the row, or closes: it does not hold the row.
LEMMA MindChanges ==
  ASSUME BoardInv, NEW s \in Sessions, s \notin holder, NEW b \in {row, NoTriggers}, NEW j \in Jobs,
         mind' = [mind EXCEPT ![s] = b], Then(s, j), j[1] \in {"none", "fresh", "sweep"},
         used' \in [loads : 0..MaxLoads, faults : 0..BoardFaults],
         due' = due \/ (due' \subseteq Entries /\ lapse # {}),
         UNCHANGED <<row, enabled, holder, firing, fires, expired, heard, spawned, lapse>>
  PROVE  BoardInv'
<1> USE DEF BoardInv
<1>1. b \in Triggers /\ b.open \subseteq spawned /\ \A t \in Tasks \ spawned : b.got[t] = {}
  BY BoardShapes DEF BoardTypeOK, SpawnsCounted
<1>2. /\ mind' \in [Sessions -> Triggers] /\ mind'[s] = b /\ \A r \in Sessions : r # s => mind'[r] = mind[r]
      /\ job' \in [Sessions -> Jobs] /\ job'[s] = j /\ \A r \in Sessions : r # s => job'[r] = job[r]
      /\ holder \subseteq Sessions
  BY <1>1 DEF BoardTypeOK, Then
<1>3. Boards' = Boards
  BY <1>2 DEF Boards
<1>4. BoardTypeOK'
  BY <1>2 DEF BoardTypeOK
<1>5. SpawnsCounted'
  BY <1>1, <1>2 DEF SpawnsCounted
<1>6. MarksKept'
  BY <1>2 DEF MarksKept
<1>7. BoardsKeep'
  <2>1. "overlap" \notin lapse => \A c \in Boards : RepliesIn(c)' /\ GoalsIn(c)'
    BY DEF BoardsKeep, RepliesIn, GoalsIn
  <2>2. lapse \cap {"overlap", "cap", "reset", "dropped"} = {} => \A c \in Boards : NoticesIn(c)'
    BY DEF BoardsKeep, NoticesIn
  <2>3. lapse = {} => \A c \in Boards : EntriesDue(c)' /\ row.sched \subseteq c.sched
    BY DEF BoardsKeep, EntriesDue
  <2>4. QED
    BY <1>3, <2>1, <2>2, <2>3 DEF BoardsKeep
<1>8. QED
  BY <1>4, <1>5, <1>6, <1>7

LEMMA ReadsAndClosesKeep ==
  ASSUME BoardInv, NEW s \in Sessions,
         Load(s) \/ (s = Sweeper /\ SweepLoad) \/ EndSession(s) \/ Resync(s)
  PROVE  BoardInv'
<1>1. job[s] \in Jobs /\ (job[s][1] \in {"none", "fresh", "resync"} \/ (EndSession(s) /\ holder # {s}))
  BY JobHeads DEF BoardInv, BoardTypeOK, Load, SweepLoad, EndSession, Resync, Free
<1>2. s \notin holder
  BY <1>1 DEF BoardInv, MarksKept
<1>3. <<"none">> \in Jobs /\ <<"fresh">> \in Jobs /\ <<"sweep">> \in Jobs /\ <<"none">>[1] = "none"
      /\ <<"fresh">>[1] = "fresh" /\ <<"sweep">>[1] = "sweep" /\ <<"resync">>[1] = "resync"
  BY JobHeads
<1>4. /\ mind[s] \in Triggers /\ due \subseteq Entries
      /\ used \in [loads : 0..MaxLoads, faults : 0..BoardFaults]
  BY DEF BoardInv, BoardTypeOK
<1>5. CASE Load(s)
  <2>1. used.loads \in 0..MaxLoads /\ used.faults \in 0..BoardFaults /\ used.loads < MaxLoads /\ MaxLoads \in Nat
    BY <1>4, <1>5, BoardAssumption DEF Load
  <2>2. used' = [loads |-> used.loads + 1, faults |-> used.faults]
    BY <1>4, <1>5 DEF Load
  <2>3. used' \in [loads : 0..MaxLoads, faults : 0..BoardFaults]
    BY <2>1, <2>2
  <2>4. /\ mind' = [mind EXCEPT ![s] = row] /\ Then(s, <<"fresh">>) /\ due' = due
        /\ UNCHANGED <<row, enabled, holder, firing, fires, expired, heard, spawned, lapse>>
    BY <1>5 DEF Load, Then
  <2>5. QED
    BY <1>2, <1>3, <1>4, <2>3, <2>4, MindChanges
<1>6. CASE s = Sweeper /\ SweepLoad
  <2>1. /\ mind' = [mind EXCEPT ![s] = row] /\ Then(s, <<"sweep">>) /\ due' = due /\ used' = used
        /\ UNCHANGED <<row, enabled, holder, firing, fires, expired, heard, spawned, lapse>>
    BY <1>6 DEF SweepLoad
  <2>2. QED
    BY <1>2, <1>3, <1>4, <2>1, MindChanges
<1>7. CASE EndSession(s)
  <2>1. /\ mind' = [mind EXCEPT ![s] = NoTriggers] /\ Then(s, <<"none">>) /\ due' = due /\ used' = used
        /\ UNCHANGED <<row, enabled, holder, firing, fires, expired, heard, spawned, lapse>>
    BY <1>7 DEF EndSession, Leaves
  <2>2. QED
    BY <1>2, <1>3, <1>4, <2>1, MindChanges
<1>8. CASE Resync(s)
  <2>1. /\ mind' = [mind EXCEPT ![s] = NoTriggers] /\ Then(s, <<"none">>) /\ used' = used
        /\ UNCHANGED <<row, enabled, holder, firing, fires, expired, heard, spawned, lapse>>
    BY <1>8 DEF Resync, Leaves
  <2>2. due' = due \/ (due' \subseteq Entries /\ lapse # {})
    <3>1. lapse # {}
      BY <1>3, <1>8 DEF BoardInv, MarksKept, Resync
    <3>2. mind[s].sched \subseteq Entries
      BY <1>4 DEF Triggers
    <3>3. QED
      BY <1>4, <1>8, <3>1, <3>2 DEF Resync, HalfDue, DueAfter
  <2>3. QED
    BY <1>2, <1>3, <1>4, <2>1, <2>2, MindChanges
<1>9. QED
  BY <1>5, <1>6, <1>7, <1>8

LEMMA ResetKeeps ==
  ASSUME BoardInv, NEW s \in Sessions, Reset(s)
  PROVE  BoardInv'
<1> USE DEF BoardInv
<1>1. /\ holder \subseteq {s} /\ holder' = {s} /\ mind' = [mind EXCEPT ![s] = NoTriggers]
      /\ "reset" \in lapse' /\ lapse \subseteq lapse' /\ lapse' \subseteq lapse \cup {"reset", "overlap"}
      /\ UNCHANGED <<row, enabled, firing, fires, expired, heard, spawned, due>>
      /\ job' = [job EXCEPT ![s] = <<"request">>]
      /\ used' \in [loads : 0..MaxLoads, faults : 0..BoardFaults]
  BY DisturbsTyped DEF Reset, Flush, Then
<1>2. /\ mind' \in [Sessions -> Triggers] /\ mind'[s] = NoTriggers /\ \A r \in Sessions : r # s => mind'[r] = mind[r]
      /\ job' \in [Sessions -> Jobs] /\ job'[s][1] = "request" /\ \A r \in Sessions : r # s => job'[r] = job[r]
  BY <1>1, BoardShapes, JobHeads DEF BoardTypeOK
<1>3. Boards' = {row, NoTriggers} /\ row \in Boards
  BY <1>1, <1>2 DEF Boards
<1>4. BoardTypeOK'
  <2>1. Cardinality(holder') <= 1
    <3>1. Cardinality({s}) = 1
      BY FS_Singleton
    <3>2. QED
      BY <1>1, <3>1
  <2>2. lapse' \subseteq Excuses
    BY <1>1 DEF BoardTypeOK, Excuses
  <2>3. QED
    BY <1>1, <1>2, <2>1, <2>2 DEF BoardTypeOK
<1>5. SpawnsCounted'
  BY <1>1, <1>2, BoardShapes DEF SpawnsCounted
<1>6. MarksKept'
  BY <1>1, <1>2 DEF MarksKept
<1>7. BoardsKeep'
  <2>1. ASSUME "overlap" \notin lapse' PROVE \A c \in Boards' : RepliesIn(c)' /\ GoalsIn(c)'
    <3>1. RepliesIn(row) /\ GoalsIn(row)
      BY <1>1, <1>3, <2>1 DEF BoardsKeep
    <3>2. QED
      BY <1>1, <1>3, <3>1, BoardShapes DEF RepliesIn, GoalsIn
  <2>2. QED
    BY <1>1, <2>1 DEF BoardsKeep
<1>8. QED
  BY <1>4, <1>5, <1>6, <1>7

\* A write whose schedule keeps some of the entries: it holds the row, and a
\* notice it leaves out has its mark.
LEMMA ReplaceKeeps ==
  ASSUME BoardInv, NEW s \in Sessions, NEW rest \in SUBSET mind[s].sched,
         ToolReplaces(s, rest) \/ PatchReplaces(s, rest)
  PROVE  BoardInv'
<1> USE DEF BoardInv
<1>1. PICK m \in Triggers : m = mind[s] /\ m.open \subseteq spawned /\ \A t \in Tasks \ spawned : m.got[t] = {}
  BY JobHeads DEF BoardTypeOK, SpawnsCounted, ToolReplaces, PatchReplaces, Replaces
<1>2. PICK b \in Triggers : b = Replaced(m, rest) /\ b.open = m.open /\ b.got = m.got /\ b.sched = rest
  <2>1. m = [open |-> m.open, got |-> m.got, turns |-> m.turns, idle |-> m.idle, sched |-> m.sched]
        /\ rest \subseteq Entries
    BY <1>1 DEF Triggers
  <2>2. Replaced(m, rest) = [open |-> m.open, got |-> m.got, turns |-> m.turns, idle |-> m.idle, sched |-> rest]
    BY <2>1 DEF Replaced
  <2>3. QED
    BY <2>1, <2>2 DEF Triggers
<1>3. PICK h \in {"last", "request"} : Then(s, <<h>>)
  BY DEF ToolReplaces, PatchReplaces
<1>4. /\ holder \subseteq {s} /\ holder' = {s} /\ mind' = [mind EXCEPT ![s] = b]
      /\ "replaced" \in lapse' /\ lapse \subseteq lapse'
      /\ lapse' \subseteq lapse \cup {"replaced", "dropped", "overlap"}
      /\ holder = {} /\ m # row => "overlap" \in lapse'
      /\ "dropped" \notin lapse' => \A t \in Tasks : Summary(t) \in m.sched => Summary(t) \in rest
      /\ UNCHANGED <<row, enabled, firing, fires, expired, heard, spawned>>
      /\ used' \in [loads : 0..MaxLoads, faults : 0..BoardFaults]
  <2>1. Replaces(s, rest)
    BY DEF ToolReplaces, PatchReplaces
  <2>2. used' \in [loads : 0..MaxLoads, faults : 0..BoardFaults]
    BY <2>1, DisturbsTyped DEF Replaces
  <2>3. Flush(s, b, {"replaced"} \cup (IF \E t \in Tasks : Summary(t) \in m.sched \ rest THEN {"dropped"} ELSE {}))
    BY <1>1, <1>2, <2>1 DEF Replaces
  <2>4. QED
    BY <1>1, <2>2, <2>3 DEF Flush
<1>5. /\ mind' \in [Sessions -> Triggers] /\ mind'[s] = b /\ \A r \in Sessions : r # s => mind'[r] = mind[r]
      /\ job' \in [Sessions -> Jobs] /\ job'[s] = <<h>> /\ \A r \in Sessions : r # s => job'[r] = job[r]
      /\ job'[s][1] = h
  BY <1>3, <1>4, JobHeads DEF BoardTypeOK, Then
<1>6. Boards' = {row, b} /\ row \in Boards
  BY <1>4, <1>5 DEF Boards
<1>7. "overlap" \notin lapse' => m \in Boards /\ "overlap" \notin lapse
  BY <1>1, <1>4 DEF Boards
<1>8. BoardTypeOK'
  <2>1. Cardinality(holder') <= 1
    <3>1. Cardinality({s}) = 1
      BY FS_Singleton
    <3>2. QED
      BY <1>4, <3>1
  <2>2. lapse' \subseteq Excuses
    BY <1>4 DEF BoardTypeOK, Excuses
  <2>3. due' \subseteq Entries
    <3>1. due \subseteq Entries /\ rest \subseteq Entries /\ DueAfter(Replaced(mind[s], rest)) = rest
      BY <1>1, <1>2 DEF BoardTypeOK, Triggers, DueAfter
    <3>2. CASE due' = due
      BY <3>1, <3>2
    <3>3. CASE due' \in HalfDue(Replaced(mind[s], rest))
      BY <3>1, <3>3 DEF HalfDue
    <3>4. QED
      BY <3>2, <3>3 DEF ToolReplaces, PatchReplaces
  <2>4. QED
    BY <1>4, <1>5, <2>1, <2>2, <2>3 DEF BoardTypeOK
<1>9. SpawnsCounted'
  BY <1>1, <1>2, <1>4, <1>5 DEF SpawnsCounted
<1>10. MarksKept'
  BY <1>4, <1>5 DEF MarksKept
<1>11. BoardsKeep'
  <2>1. ASSUME "overlap" \notin lapse' PROVE \A c \in Boards' : RepliesIn(c)' /\ GoalsIn(c)'
    <3>1. RepliesIn(row) /\ GoalsIn(row) /\ RepliesIn(m) /\ GoalsIn(m)
      BY <1>6, <1>7, <2>1 DEF BoardsKeep
    <3>2. RepliesIn(b)' /\ GoalsIn(b)' /\ RepliesIn(row)' /\ GoalsIn(row)'
      BY <1>2, <1>4, <3>1 DEF RepliesIn, GoalsIn
    <3>3. QED
      BY <1>4, <1>6, <3>2 DEF RepliesIn, GoalsIn
  <2>2. ASSUME lapse' \cap {"overlap", "cap", "reset", "dropped"} = {} PROVE \A c \in Boards' : NoticesIn(c)'
    <3>1. NoticesIn(row) /\ NoticesIn(m)
      BY <1>4, <1>6, <1>7, <2>2 DEF BoardsKeep
    <3>2. spawned \subseteq Tasks
      BY DEF BoardTypeOK
    <3>3. NoticesIn(b)' /\ NoticesIn(row)'
      BY <1>2, <1>4, <2>2, <3>1, <3>2 DEF NoticesIn
    <3>4. QED
      BY <1>4, <1>6, <3>3 DEF NoticesIn
  <2>3. QED
    BY <1>4, <2>1, <2>2 DEF BoardsKeep
<1>12. QED
  BY <1>8, <1>9, <1>10, <1>11

LEMMA ToggleKeeps ==
  ASSUME BoardInv, NEW s \in Sessions, Toggle(s)
  PROVE  BoardInv'
<1> USE DEF BoardInv
<1>1. /\ holder = {} /\ "disabled" \in lapse' /\ lapse' = lapse \cup {"disabled"} /\ enabled' \in BOOLEAN
      /\ UNCHANGED <<row, holder, due, firing, fires, expired, heard, spawned>>
      /\ job' = [job EXCEPT ![s] = <<"none">>] /\ mind' = [mind EXCEPT ![s] = NoTriggers]
      /\ used' \in [loads : 0..MaxLoads, faults : 0..BoardFaults]
  BY DisturbsTyped DEF Toggle, Leaves, Then, BoardTypeOK
<1>2. /\ mind' \in [Sessions -> Triggers] /\ mind'[s] = NoTriggers /\ \A r \in Sessions : r # s => mind'[r] = mind[r]
      /\ job' \in [Sessions -> Jobs] /\ job'[s][1] = "none" /\ \A r \in Sessions : r # s => job'[r] = job[r]
  BY <1>1, BoardShapes, JobHeads DEF BoardTypeOK
<1>3. Boards' = Boards
  BY <1>1 DEF Boards
<1>4. BoardTypeOK'
  BY <1>1, <1>2 DEF BoardTypeOK, Excuses
<1>5. SpawnsCounted'
  BY <1>1, <1>2, BoardShapes DEF SpawnsCounted
<1>6. MarksKept'
  BY <1>1, <1>2 DEF MarksKept
<1>7. BoardsKeep'
  <2>1. "overlap" \notin lapse' => \A c \in Boards : RepliesIn(c)' /\ GoalsIn(c)'
    BY <1>1 DEF BoardsKeep, RepliesIn, GoalsIn
  <2>2. lapse' \cap {"overlap", "cap", "reset", "dropped"} = {} => \A c \in Boards : NoticesIn(c)'
    BY <1>1 DEF BoardsKeep, NoticesIn
  <2>3. QED
    BY <1>1, <1>3, <2>1, <2>2 DEF BoardsKeep
<1>8. QED
  BY <1>4, <1>5, <1>6, <1>7

\* What a session flushed becomes the row.
LEMMA CommitKeeps ==
  ASSUME BoardInv, NEW s \in Sessions, Commit(s)
  PROVE  BoardInv'
<1> USE DEF BoardInv
<1>0. PICK m \in Triggers : m = mind[s]
  BY DEF BoardTypeOK
<1>1. /\ holder = {s} /\ holder' = {} /\ row' = m /\ spawned' = spawned \cup m.open
      /\ heard' = [t \in Tasks |-> heard[t] \cup m.got[t]]
      /\ UNCHANGED <<enabled, due, firing, fires, expired, used, lapse>>
      /\ m \in Boards
  BY <1>0 DEF Commit, BoardTypeOK, Boards
<1>2. PICK j \in Jobs, b \in {m, NoTriggers} :
          /\ job' = [job EXCEPT ![s] = j] /\ mind' = [mind EXCEPT ![s] = b]
          /\ j[1] \in {"none", "resync", "turn", "reply"}
          /\ j[1] = "resync" => job[s][1] = "request"
  <2>1. CASE Leaves(s)
    BY <2>1, JobHeads DEF Leaves, Then
  <2>2. CASE job[s] = <<"request">> /\ Then(s, <<"resync">>) /\ UNCHANGED mind
    BY <1>0, <2>2, JobHeads DEF Then, BoardTypeOK
  <2>3. CASE job[s][1] \in {"turn", "reply"} /\ UNCHANGED <<job, mind>>
    <3>1. job' = [job EXCEPT ![s] = job[s]] /\ mind' = [mind EXCEPT ![s] = m] /\ job[s] \in Jobs
      BY <1>0, <2>3 DEF BoardTypeOK
    <3>2. QED
      BY <2>3, <3>1
  <2>4. QED
    BY <2>1, <2>2, <2>3 DEF Commit
<1>3. b \in Triggers /\ b.open \subseteq m.open /\ \A t \in Tasks \ spawned : b.got[t] = {} /\ m.got[t] = {}
  BY <1>0, <1>1, BoardShapes DEF SpawnsCounted
<1>4. /\ mind' \in [Sessions -> Triggers] /\ mind'[s] = b /\ \A r \in Sessions : r # s => mind'[r] = mind[r]
      /\ job' \in [Sessions -> Jobs] /\ job'[s] = j /\ \A r \in Sessions : r # s => job'[r] = job[r]
  BY <1>2, <1>3 DEF BoardTypeOK
<1>5. Boards' = {m}
  BY <1>1 DEF Boards
<1>6. BoardTypeOK'
  <2>1. m.open \subseteq Tasks /\ m.got \in [Tasks -> SUBSET Peers]
    BY <1>1 DEF Triggers
  <2>2. heard' \in [Tasks -> SUBSET Peers] /\ spawned' \subseteq Tasks
    BY <1>1, <2>1 DEF BoardTypeOK
  <2>3. Cardinality({}) = 0
    BY FS_EmptySet
  <2>4. QED
    BY <1>1, <1>4, <2>2, <2>3, 0 <= 1 DEF BoardTypeOK
<1>7. SpawnsCounted'
  BY <1>1, <1>3, <1>4 DEF SpawnsCounted
<1>8. MarksKept'
  BY <1>1, <1>2, <1>4 DEF MarksKept
<1>9. BoardsKeep'
  <2>1. ASSUME "overlap" \notin lapse PROVE RepliesIn(m)' /\ GoalsIn(m)'
    <3>1. RepliesIn(m) /\ GoalsIn(m)
      BY <1>1, <2>1 DEF BoardsKeep
    <3>2. m.open \subseteq Tasks
      BY <1>1 DEF Triggers
    <3>3. (\A t \in m.open : heard'[t] \subseteq m.got[t]) /\ expired' = expired
      BY <1>1, <3>1, <3>2 DEF RepliesIn
    <3>4. QED
      BY <3>1, <3>3, <1>5 DEF RepliesIn, GoalsIn
  <2>2. lapse \cap {"overlap", "cap", "reset", "dropped"} = {} => NoticesIn(m)'
    BY <1>1 DEF BoardsKeep, NoticesIn
  <2>3. lapse = {} => EntriesDue(m)'
    BY <1>1 DEF BoardsKeep, EntriesDue
  <2>4. QED
    BY <1>1, <1>5, <2>1, <2>2, <2>3 DEF BoardsKeep
<1>10. QED
  BY <1>6, <1>7, <1>8, <1>9

\* What was flushed is rolled back.
LEMMA RollbackKeeps ==
  ASSUME BoardInv, NEW s \in Sessions, Rollback(s)
  PROVE  BoardInv'
<1> USE DEF BoardInv
<1>1. /\ holder' = holder \ {s} /\ "fault" \in lapse' /\ lapse' = lapse \cup {"fault"}
      /\ UNCHANGED <<row, enabled, due, firing, fires, expired, heard, spawned>>
      /\ job' = [job EXCEPT ![s] = <<"none">>] /\ mind' = [mind EXCEPT ![s] = NoTriggers]
      /\ used' \in [loads : 0..MaxLoads, faults : 0..BoardFaults]
  BY DisturbsTyped DEF Rollback, Leaves, Then
<1>2. /\ mind' \in [Sessions -> Triggers] /\ mind'[s] = NoTriggers /\ \A r \in Sessions : r # s => mind'[r] = mind[r]
      /\ job' \in [Sessions -> Jobs] /\ job'[s][1] = "none" /\ \A r \in Sessions : r # s => job'[r] = job[r]
      /\ holder \subseteq Sessions
  BY <1>1, BoardShapes, JobHeads DEF BoardTypeOK
<1>3. Boards' \subseteq Boards
  BY <1>1, <1>2 DEF Boards
<1>4. holder' = {} \/ holder' = holder
  BY <1>1 DEF MarksKept
<1>5. BoardTypeOK'
  <2>1. Cardinality(holder') <= 1
    <3>1. Cardinality({}) = 0
      BY FS_EmptySet
    <3>2. QED
      BY <1>4, <3>1, 0 <= 1 DEF BoardTypeOK
  <2>2. lapse' \subseteq Excuses
    BY <1>1 DEF BoardTypeOK, Excuses
  <2>3. QED
    BY <1>1, <1>2, <2>1, <2>2 DEF BoardTypeOK
<1>6. SpawnsCounted'
  BY <1>1, <1>2, BoardShapes DEF SpawnsCounted
<1>7. MarksKept'
  BY <1>1, <1>2, <1>4 DEF MarksKept
<1>8. BoardsKeep'
  <2>1. "overlap" \notin lapse' => \A c \in Boards : RepliesIn(c)' /\ GoalsIn(c)'
    BY <1>1 DEF BoardsKeep, RepliesIn, GoalsIn
  <2>2. lapse' \cap {"overlap", "cap", "reset", "dropped"} = {} => \A c \in Boards : NoticesIn(c)'
    BY <1>1 DEF BoardsKeep, NoticesIn
  <2>3. QED
    BY <1>1, <1>3, <2>1, <2>2 DEF BoardsKeep
<1>9. QED
  BY <1>5, <1>6, <1>7, <1>8

-----------------------------------------------------------------------------
(* The schedule loop and the deadlines. *)

LEMMA FireKeeps ==
  ASSUME BoardInv, NEW e \in Entries, FireEntry(e) \/ FireEnds(e)
  PROVE  BoardInv'
<1> USE DEF BoardInv
<1>1. /\ UNCHANGED <<row, enabled, holder, mind, job, expired, used, heard, spawned>>
      /\ firing' \subseteq Entries /\ due' \subseteq due /\ fires' \in [Entries -> 0..MaxFires]
      /\ lapse \subseteq lapse' /\ lapse' \subseteq lapse \cup {"early"}
  BY BoardAssumption DEF FireEntry, FireEnds, BoardTypeOK
<1>2. \A d \in Entries : fires[d] > 0 => fires'[d] > 0
  BY BoardAssumption DEF FireEntry, FireEnds, BoardTypeOK
<1>3. \A d \in firing' : fires'[d] > 0
  BY BoardAssumption DEF FireEntry, FireEnds, BoardTypeOK, MarksKept
<1>4. lapse' = {} => \A d \in Entries : d \in due => fires'[d] > 0 \/ d \in due'
  BY BoardAssumption DEF FireEntry, FireEnds, BoardTypeOK, MarksKept
<1>5. Boards' = Boards /\ Boards \subseteq Triggers
  BY <1>1 DEF Boards, BoardTypeOK
<1>6. BoardTypeOK'
  BY <1>1 DEF BoardTypeOK, Excuses
<1>7. SpawnsCounted'
  BY <1>1 DEF SpawnsCounted
<1>8. MarksKept'
  BY <1>1, <1>3 DEF MarksKept
<1>9. BoardsKeep'
  <2>1. "overlap" \notin lapse' => \A c \in Boards : RepliesIn(c)' /\ GoalsIn(c)'
    BY <1>1 DEF BoardsKeep, RepliesIn, GoalsIn
  <2>2. lapse' \cap {"overlap", "cap", "reset", "dropped"} = {} => \A c \in Boards : NoticesIn(c)'
    BY <1>1 DEF BoardsKeep, NoticesIn
  <2>3. ASSUME lapse' = {}, NEW c \in Boards PROVE EntriesDue(c)' /\ row.sched \subseteq c.sched
    <3>1. EntriesDue(c) /\ row.sched \subseteq c.sched /\ c.sched \subseteq Entries
      BY <1>1, <1>5, <2>3 DEF BoardsKeep, Triggers
    <3>2. \A d \in c.sched : fires'[d] > 0 \/ d \in due'
      BY <1>2, <1>4, <2>3, <3>1 DEF EntriesDue
    <3>3. QED
      BY <3>1, <3>2 DEF EntriesDue
  <2>4. QED
    BY <1>1, <1>5, <2>1, <2>2, <2>3 DEF BoardsKeep
<1>10. QED
  BY <1>6, <1>7, <1>8, <1>9

LEMMA DeadlineKeeps ==
  ASSUME BoardInv, (\E t \in Tasks : Deadline(t)) \/ UNCHANGED boardVars
  PROVE  BoardInv'
<1> USE DEF BoardInv
<1>1. /\ UNCHANGED <<row, enabled, holder, mind, job, due, firing, fires, used, heard, spawned, lapse>>
      /\ expired \subseteq expired' /\ expired' \subseteq Tasks
  BY DEF Deadline, boardVars, BoardTypeOK
<1>2. Boards' = Boards
  BY <1>1 DEF Boards
<1>3. BoardTypeOK'
  BY <1>1 DEF BoardTypeOK
<1>4. SpawnsCounted' /\ MarksKept'
  BY <1>1 DEF SpawnsCounted, MarksKept
<1>5. \A b : (RepliesIn(b) => RepliesIn(b)') /\ (GoalsIn(b) => GoalsIn(b)') /\ (NoticesIn(b) => NoticesIn(b)')
             /\ (EntriesDue(b) => EntriesDue(b)')
  BY <1>1 DEF RepliesIn, GoalsIn, NoticesIn, EntriesDue
<1>6. BoardsKeep'
  BY <1>1, <1>2, <1>5 DEF BoardsKeep
<1>7. QED
  BY <1>3, <1>4, <1>6

LEMMA BoardStep == BoardInv /\ [BoardNext]_boardVars => BoardInv'
<1> SUFFICES ASSUME BoardInv, [BoardNext]_boardVars PROVE BoardInv'
  OBVIOUS
<1>1. ASSUME NEW s \in Sessions, NEW t \in Tasks,
             CancelTask(s, t) \/ TurnCloses(s, t) \/ ReplyCompletes(s, t) \/ (s = Sweeper /\ Sweep(t))
      PROVE  BoardInv'
  <2>1. /\ CloseTask(s, t) /\ job[s][1] # "last" /\ job[s] \in Jobs /\ job \in [Sessions -> Jobs]
        /\ Then(s, <<"last">>) \/ Then(s, <<"sweep">>)
    <3>1. job \in [Sessions -> Jobs]
      BY DEF BoardInv, BoardTypeOK
    <3>2. CASE s = Sweeper /\ Sweep(t)
      <4>1. job[s] = <<"sweep">> /\ job' = job /\ CloseTask(s, t)
        BY <3>2 DEF Sweep
      <4>2. job' = [job EXCEPT ![s] = <<"sweep">>]
        BY <3>1, <4>1
      <4>3. QED
        BY <3>1, <4>1, <4>2 DEF Then
    <3>3. CASE CancelTask(s, t) \/ TurnCloses(s, t) \/ ReplyCompletes(s, t)
      BY <3>1, <3>3 DEF CancelTask, TurnCloses, ReplyCompletes
    <3>4. QED
      BY <1>1, <3>2, <3>3
  <2>2. QED
    BY <2>1, CloseKeeps
<1>2. ASSUME NEW s \in Sessions,
             \/ Load(s) \/ Commit(s) \/ EndSession(s) \/ Rollback(s) \/ Reset(s) \/ Toggle(s) \/ Resync(s)
      PROVE  BoardInv'
  BY <1>2, ReadsAndClosesKeep, CommitKeeps, RollbackKeeps, ResetKeeps, ToggleKeeps
<1>3. ASSUME NEW s \in Sessions, NEW t \in Tasks,
             SpawnTask(s, t) \/ BeginTurn(s, t) \/ \E acted \in BOOLEAN : TurnEnds(s, t, acted)
      PROVE  BoardInv'
  BY <1>3, SpawnKeeps, BeginTurnKeeps, TurnEndsKeeps
<1>4. CASE SweepLoad
  BY <1>4, ReadsAndClosesKeep, BoardAssumption
<1>5. Sweeper \in Sessions
  BY BoardAssumption
<1>6. QED
  BY <1>1, <1>2, <1>3, <1>4, <1>5, RecordReplyKeeps, ReplaceKeeps, FireKeeps, DeadlineKeeps DEF BoardNext

LEMMA BoardAlways ==
  BoardSpec => [](BoardTypeOK /\ ClosedIsNoticed /\ NoticeIsDue /\ RepliesSurvive /\ OneGoalPerChat)
<1>1. BoardInv => (BoardTypeOK /\ ClosedIsNoticed /\ NoticeIsDue /\ RepliesSurvive /\ OneGoalPerChat)
  <2> SUFFICES ASSUME BoardInv PROVE BoardTypeOK /\ ClosedIsNoticed /\ NoticeIsDue /\ RepliesSurvive /\ OneGoalPerChat
    OBVIOUS
  <2>1. row \in Boards
    BY DEF Boards
  <2>2. ClosedIsNoticed /\ NoticeIsDue /\ RepliesSurvive
    BY <2>1 DEF BoardInv, BoardsKeep, NoticesIn, EntriesDue, RepliesIn, ClosedIsNoticed, NoticeIsDue, RepliesSurvive
  <2>3. OneGoalPerChat
    <3>1. ASSUME "overlap" \notin lapse, NEW c \in Peers
          PROVE  Cardinality({t \in row.open \ (expired \cup Relay) : c \in TaskChats[t]}) <= 1
      <4> DEFINE goals == {t \in row.open \ (expired \cup Relay) : c \in TaskChats[t]}
      <4>1. \A t, u \in goals : t = u
        BY <2>1, <3>1 DEF BoardInv, BoardsKeep, GoalsIn
      <4>2. goals = {} \/ \E t : goals = {t}
        BY <4>1
      <4> HIDE DEF goals
      <4>3. Cardinality(goals) = 0 \/ Cardinality(goals) = 1
        BY <4>2, FS_EmptySet, FS_Singleton
      <4>4. QED
        BY <4>3 DEF goals
    <3>2. QED
      BY <3>1 DEF OneGoalPerChat
  <2>4. QED
    BY <2>2, <2>3 DEF BoardInv
<1>2. QED
  BY <1>1, BoardInitHolds, BoardStep, PTL DEF BoardSpec

\* However sessions, sweeps and resets of an agent's tasks interleave, the
\* owner hears of every task that ended, and no reply a task was sent is
\* forgotten, but for what an overlap, the cap of the schedule, a reset or a
\* patch of the schedule takes away (the task handlers and the schedule store).
THEOREM TasksHoldAlways == BoardSpec => []TasksHold
<1>1. BoardTypeOK /\ ClosedIsNoticed /\ NoticeIsDue /\ RepliesSurvive => TasksHold
  BY DEF TasksHold
<1>2. QED
  BY <1>1, BoardAlways, PTL

\* At no time do two goal tasks that have not expired wait on one chat, unless
\* a session wrote over a row it had not read (find_goal_task_for_chat).
THEOREM OneGoalPerChatHolds == BoardSpec => []OneGoalPerChat
BY BoardAlways, PTL

-----------------------------------------------------------------------------
(***************************************************************************)
(* Triggers.  While no write came from an aged copy, whoever holds the row *)
(* knows the row; and while no renewal of the cached copy was lost, a      *)
(* message that nothing was for stays at rest, as the row, the row to be,  *)
(* the cached copy and the copies still to be cached have nothing for it.  *)
(***************************************************************************)

NoneLeft(r) == \A c \in ToSet(r.auto) : r.left[c] = 0

Evaluated ==
    /\ \A w \in writer : at[w] \in {"registering", "spending"}
    /\ \A m \in TrigMessages : tries[m] < MaxAttempts \/ at[m] = "dropped"
    /\ NoneLeft(rules) /\ NoneLeft(edit.copy) /\ \A m \in TrigMessages : NoneLeft(mine[m])
    /\ edit.at = "wrote" => writer = {}

\* The evaluation that holds the row has one fire less in memory than the row,
\* or as many.
WriterKnows ==
    ~raced => \A w \in writer :
        /\ at[w] = "registering" => mine[w].left = rules.left
        /\ at[w] = "spending" =>
             /\ rules.left[TrigChatOf[w]] > 0
             /\ mine[w].left = [rules.left EXCEPT ![TrigChatOf[w]] = @ - 1]
             /\ mine[w].auto = rules.auto

\* The turn that holds the row takes no fires but those of the entry it deletes.
EditKnows ==
    ~raced /\ edit.at = "wrote" =>
        \A c \in TrigChats \ edit.gone : edit.copy.left[c] = rules.left[c]

\* A message that goes on has something that matches it; what it spends is a
\* fire of its chat's entry, or its chat was added on its own.
MindMatches ==
    ~misled => \A m \in TrigMessages :
        /\ at[m] \in {"checked", "charged"} => Matches(mine[m], m)
        /\ at[m] \in {"registering", "registered"} => MatchesChat(mine[m], TrigChatOf[m])
        /\ at[m] = "spending" /\ m \notin writer => TrigChatOf[m] \in ToSet(mine[m].auto)

\* What a message may be matched with.
Rows == {rules} \cup Coming \cup cached \cup {p.row : p \in late}

Rests(m) ==
    /\ at[m] \in {"queued", "missed", "dropped"}
    /\ at[m] = "missed" => ~Matches(mine[m], m)

AllRest ==
    ~strayed => /\ late = {} => cached \subseteq Coming
                /\ \A m \in hushed : Rests(m) /\ \A r \in Rows : ~Matches(r, m)

TrigInv == /\ TrigTypeOK /\ Evaluated /\ WriterKnows /\ EditKnows /\ MindMatches
           /\ AllRest /\ FiresAreAccounted

-----------------------------------------------------------------------------
\* The rules after each of the changes.
LEMMA PausedShape ==
  ASSUME NEW r \in Rules, NEW p \in SUBSET TrigChats
  PROVE  LET q == [r EXCEPT !.paused = p] IN
         /\ q \in Rules /\ q.left = r.left /\ q.auto = r.auto
         /\ NoneLeft(r) => NoneLeft(q)
BY DEF Rules, NoneLeft

LEMMA SpentShape ==
  ASSUME NEW r \in Rules, NEW c \in TrigChats
  PROVE  LET q == Spent(r, c) IN
         /\ q \in Rules /\ q.auto = r.auto
         /\ r.left[c] > 0 => q.left = [r.left EXCEPT ![c] = @ - 1]
         /\ (q = r) = (r.left[c] = 0)
         /\ NoneLeft(r) => NoneLeft(q)
<1> DEFINE f == [r.left EXCEPT ![c] = IF @ = 0 THEN 0 ELSE @ - 1]
           q == Spent(r, c)
<1>1. r.left \in [TrigChats -> 0..MaxLeft] /\ MaxLeft \in Nat /\ r.left[c] \in 0..MaxLeft
  BY TriggersAssumption DEF Rules
<1>2. /\ q = [r EXCEPT !.left = f]
      /\ q.left = f /\ q.auto = r.auto
  BY DEF Spent, Rules
<1>3. f \in [TrigChats -> 0..MaxLeft] /\ f[c] = (IF r.left[c] = 0 THEN 0 ELSE r.left[c] - 1)
  BY <1>1
<1>4. q \in Rules
  BY <1>2, <1>3 DEF Rules
<1>5. r.left[c] > 0 => f = [r.left EXCEPT ![c] = @ - 1]
  BY <1>1
<1>6. CASE r.left[c] = 0
  <2>1. f = r.left
    BY <1>1, <1>6
  <2>2. q = r
    BY <1>2, <2>1 DEF Rules
  <2>3. QED
    BY <1>2, <1>4, <1>5, <1>6, <2>2
<1>7. CASE r.left[c] # 0
  <2>0. f[c] # r.left[c]
    BY <1>1, <1>3, <1>7
  <2>1. q # r
    BY <1>2, <2>0
  <2>2. \A d \in TrigChats : r.left[d] = 0 => f[d] = 0
    BY <1>1
  <2>3. ToSet(r.auto) \subseteq TrigChats
    BY DEF Rules, ToSet
  <2>4. NoneLeft(r) => NoneLeft(q)
    BY <1>2, <2>2, <2>3 DEF NoneLeft
  <2>5. QED
    BY <1>2, <1>4, <1>5, <1>7, <2>1, <2>4
<1>8. QED
  BY <1>6, <1>7

LEMMA RegisteredShape ==
  ASSUME NEW r \in Rules, NEW c \in TrigChats
  PROVE  LET q == Registered(r, c) IN
         /\ q \in Rules /\ q.left = r.left /\ MatchesChat(q, c)
         /\ NoneLeft(r) => NoneLeft(q)
<1>1. CASE MatchesChat(r, c)
  BY <1>1 DEF Registered
<1>2. CASE ~MatchesChat(r, c)
  <2> DEFINE a == IF Len(r.auto) < MaxAuto THEN Append(r.auto, c) ELSE Append(Tail(r.auto), c)
  <2>1. r.auto \in Seq(TrigChats) /\ r.left \in [TrigChats -> 0..MaxLeft]
    BY DEF Rules
  <2>2. a \in Seq(TrigChats) /\ c \in ToSet(a) /\ ToSet(a) \subseteq ToSet(r.auto) \cup {c}
    <3>1. CASE Len(r.auto) < MaxAuto
      BY <2>1, <3>1, AppendAdds
    <3>2. CASE ~(Len(r.auto) < MaxAuto)
      <4>1. Len(r.auto) > 0
        BY <2>1, <3>2, TriggersAssumption
      <4>2. Tail(r.auto) \in Seq(TrigChats) /\ ToSet(Tail(r.auto)) \subseteq ToSet(r.auto)
        BY <2>1, <4>1, TailKeeps
      <4> DEFINE t == Tail(r.auto)
      <4> HIDE DEF t
      <4>3. t \in Seq(TrigChats) /\ ToSet(t) \subseteq ToSet(r.auto)
        BY <4>2 DEF t
      <4>4. Append(t, c) \in Seq(TrigChats) /\ ToSet(Append(t, c)) = ToSet(t) \cup {c}
        BY <4>3, AppendAdds
      <4>5. a = Append(t, c)
        BY <3>2 DEF t
      <4> HIDE DEF a
      <4>6. QED
        BY <4>3, <4>4, <4>5
    <3>3. QED
      BY <3>1, <3>2
  <2>3. Registered(r, c) = [r EXCEPT !.auto = a]
    BY <1>2 DEF Registered
  <2> HIDE DEF a
  <2>4. /\ Registered(r, c) \in Rules /\ Registered(r, c).left = r.left
        /\ Registered(r, c).auto = a
    BY <2>2, <2>3 DEF Rules
  <2>5. r.left[c] = 0
    BY <1>2, <2>1, TriggersAssumption DEF MatchesChat
  <2>6. NoneLeft(r) => NoneLeft(Registered(r, c))
    BY <2>2, <2>4, <2>5 DEF NoneLeft
  <2>7. QED
    BY <2>2, <2>4, <2>6 DEF MatchesChat
<1>3. QED
  BY <1>1, <1>2

LEMMA DeletedShape ==
  ASSUME NEW r \in Rules, NEW c \in TrigChats
  PROVE  LET q == Without(r, c) IN
         /\ q \in Rules /\ \A d \in TrigChats : d # c => q.left[d] = r.left[d]
         /\ NoneLeft(r) => NoneLeft(q)
<1> DEFINE f == [r.left EXCEPT ![c] = 0]
           a == RemoveFirst(r.auto, c)
           q == Without(r, c)
<1>1. r.left \in [TrigChats -> 0..MaxLeft] /\ MaxLeft \in Nat /\ r.auto \in Seq(TrigChats)
  BY TriggersAssumption DEF Rules
<1>2. a \in Seq(TrigChats) /\ ToSet(a) \subseteq ToSet(r.auto)
  BY <1>1, FirstLeaves
<1>3. f \in [TrigChats -> 0..MaxLeft] /\ \A d \in TrigChats : f[d] = IF d = c THEN 0 ELSE r.left[d]
  BY <1>1
<1>4. q = [left |-> f, auto |-> a, first |-> FALSE, paused |-> r.paused]
  <2>1. q = [r EXCEPT !.left = f, !.auto = a, !.first = FALSE]
    BY DEF Rules, Without
  <2> HIDE DEF a, f, q
  <2>2. QED
    BY <2>1 DEF Rules
<1> HIDE DEF a, f
<1>5. q \in Rules /\ q.left = f /\ q.auto = a
  BY <1>2, <1>3, <1>4 DEF Rules
<1>6. ToSet(r.auto) \subseteq TrigChats
  BY <1>1 DEF ToSet
<1>7. NoneLeft(r) => NoneLeft(q)
  BY <1>2, <1>3, <1>5, <1>6 DEF NoneLeft
<1>8. QED
  BY <1>3, <1>5, <1>7
Owing(c) == {m \in TrigMessages : TrigChatOf[m] = c /\ at[m] = "spent" /\ ByEntry(m)}

-----------------------------------------------------------------------------
\* The row to be is read off the row and who holds it.
LEMMA SameComing ==
  ASSUME rules' = rules, writer' = writer, edit' = edit, \A w \in writer : mine'[w] = mine[w]
  PROVE  Coming' = Coming
<1>1. \A w \in writer : [mine[w] EXCEPT !.paused = rules.paused]' = [mine[w] EXCEPT !.paused = rules.paused]
  <2> TAKE w \in writer
  <2>1. mine'[w] = mine[w] /\ rules' = rules
    OBVIOUS
  <2>2. QED
    BY <2>1, Zenon
<1>2. {[mine[w] EXCEPT !.paused = rules.paused] : w \in writer}' = {[mine[w] EXCEPT !.paused = rules.paused] : w \in writer}
  BY <1>1
<1>3. QED
  BY <1>2 DEF Coming

\* Messages stay at rest while what they may be matched with stays, or has
\* nothing for them.
LEMMA RestKept ==
  ASSUME AllRest, strayed => strayed', hushed' \subseteq hushed,
         ~strayed' =>
            /\ late' = {} => cached' \subseteq Coming'
            /\ \A n \in hushed' : Rests(n) => Rests(n)'
            /\ \A r \in Rows' : r \in Rows \/ \A n \in hushed' : ~Matches(r, n)
  PROVE  AllRest'
<1> SUFFICES ASSUME ~strayed', NEW n \in hushed', NEW r \in Rows'
             PROVE  Rests(n)' /\ ~Matches(r, n)
  BY DEF AllRest, Matches, MatchesChat, MatchesUnknown
<1>1. Rests(n) /\ \A q \in Rows : ~Matches(q, n)
  BY DEF AllRest
<1>2. QED
  BY <1>1

\* What a step of one evaluation must keep to, when it leaves the row alone.
LEMMA Moves ==
  ASSUME TrigInv, NEW m \in TrigMessages, NEW s \in Steps, NEW r \in Rules,
         Goes(m, s), Thinks(m, r), s \notin {"registering", "spending"}, NoneLeft(r),
         rules' = rules, writer' = writer \ {m}, edit' = edit,
         \A n \in TrigMessages : n # m => tries'[n] = tries[n],
         s = "dropped" \/ tries'[m] < MaxAttempts,
         raced' = raced, misled => misled',
         ~misled' /\ s \in {"checked", "charged"} => Matches(r, m),
         ~misled' /\ s = "registered" => MatchesChat(r, TrigChatOf[m])
  PROVE  Evaluated' /\ WriterKnows' /\ EditKnows' /\ MindMatches'
<1>1. /\ at \in [TrigMessages -> Steps] /\ mine \in [TrigMessages -> Rules]
      /\ writer \subseteq TrigMessages
  BY DEF TrigInv, TrigTypeOK
<1>2. /\ at'[m] = s /\ mine'[m] = r
      /\ \A n \in TrigMessages : n # m => at'[n] = at[n] /\ mine'[n] = mine[n]
  BY <1>1 DEF Goes, Thinks
<1>3. Evaluated'
  <2>1. \A w \in writer' : at'[w] \in {"registering", "spending"}
    BY <1>1, <1>2 DEF TrigInv, Evaluated
  <2>2. \A n \in TrigMessages : tries'[n] < MaxAttempts \/ at'[n] = "dropped"
    BY <1>2 DEF TrigInv, Evaluated
  <2>3. NoneLeft(rules)' /\ NoneLeft(edit.copy)' /\ \A n \in TrigMessages : NoneLeft(mine[n])'
    BY <1>2 DEF TrigInv, Evaluated, NoneLeft
  <2>4. edit'.at = "wrote" => writer' = {}
    BY DEF TrigInv, Evaluated
  <2>5. QED
    BY <2>1, <2>2, <2>3, <2>4 DEF Evaluated
<1>4. WriterKnows'
  BY <1>1, <1>2 DEF TrigInv, WriterKnows
<1>5. MindMatches'
  <2> SUFFICES ASSUME ~misled', NEW n \in TrigMessages
               PROVE  /\ at'[n] \in {"checked", "charged"} => Matches(mine'[n], n)
                      /\ at'[n] \in {"registering", "registered"} => MatchesChat(mine'[n], TrigChatOf[n])
                      /\ at'[n] = "spending" /\ n \notin writer' => TrigChatOf[n] \in ToSet(mine'[n].auto)
    BY DEF MindMatches, Matches, MatchesChat, MatchesUnknown
  <2>1. CASE n = m
    BY <1>2, <2>1
  <2>2. CASE n # m
    BY <1>2, <2>2 DEF TrigInv, MindMatches
  <2>3. QED
    BY <2>1, <2>2
<1>6. EditKnows'
  BY DEF TrigInv, EditKnows
<1>7. QED
  BY <1>3, <1>4, <1>5, <1>6

\* ... and for the messages at rest.
LEMMA MovesRest ==
  ASSUME TrigInv, NEW m \in TrigMessages, NEW s \in Steps, NEW r \in Rules,
         Goes(m, s), Thinks(m, r),
         rules' = rules, writer' = writer \ {m}, edit' = edit, late' = late,
         strayed => strayed', strayed' \/ m \notin writer,
         hushed' = hushed,
         ~strayed' => cached' = cached \/ cached' \subseteq Coming,
         ~strayed' /\ m \in hushed /\ Rests(m) /\ (\A q \in Rows : ~Matches(q, m)) =>
            /\ s \in {"queued", "missed", "dropped"}
            /\ s = "missed" => ~Matches(r, m)
  PROVE  AllRest'
<1>1. /\ at \in [TrigMessages -> Steps] /\ mine \in [TrigMessages -> Rules]
      /\ writer \subseteq TrigMessages /\ hushed \subseteq TrigMessages /\ AllRest
  BY DEF TrigInv, TrigTypeOK
<1>2. /\ at'[m] = s /\ mine'[m] = r
      /\ \A n \in TrigMessages : n # m => at'[n] = at[n] /\ mine'[n] = mine[n]
  BY <1>1 DEF Goes, Thinks
<1> SUFFICES ASSUME ~strayed' PROVE AllRest'
  BY DEF AllRest
<1>3. writer' = writer /\ \A w \in writer : mine'[w] = mine[w]
  BY <1>1, <1>2
<1>4. Coming' = Coming
  BY <1>3, SameComing
<1>5. late' = {} => cached' \subseteq Coming'
  BY <1>1, <1>4 DEF AllRest
<1>6. Rows' \subseteq Rows
  BY <1>4 DEF Rows
<1>7. \A n \in hushed' : Rests(n) => Rests(n)'
  <2> SUFFICES ASSUME NEW n \in hushed
               PROVE  at'[n] \in {"queued", "missed", "dropped"} /\ (at'[n] = "missed" => ~Matches(mine'[n], n))
    BY DEF Rests, Matches, MatchesChat, MatchesUnknown
  <2>1. Rests(n) /\ \A q \in Rows : ~Matches(q, n)
    BY <1>1 DEF AllRest
  <2>2. CASE n = m
    BY <1>2, <2>1, <2>2
  <2>3. CASE n # m
    BY <1>1, <1>2, <2>1, <2>3 DEF Rests
  <2>4. QED
    BY <2>2, <2>3
<1>8. QED
  BY <1>1, <1>5, <1>6, <1>7, RestKept

\* A fire that is owed is armed, or wasted, or goes on being owed.
LEMMA FiresKept ==
  ASSUME TrigInv, NEW m \in TrigMessages, NEW s \in Steps, NEW r \in Rules,
         Goes(m, s), Thinks(m, r), s # "spent", rules'.left = rules.left, deleted' = deleted,
         raced => raced', misled => misled',
         armed' \in [TrigChats -> Nat], wasted' \in [TrigChats -> Nat],
         \A c \in TrigChats : armed'[c] + wasted'[c] = armed[c] + wasted[c] +
            (IF at[m] = "spent" /\ ByEntry(m) /\ c = TrigChatOf[m] THEN 1 ELSE 0)
  PROVE  FiresAreAccounted'
<1>1. /\ at \in [TrigMessages -> Steps] /\ mine \in [TrigMessages -> Rules]
      /\ armed \in [TrigChats -> Nat] /\ wasted \in [TrigChats -> Nat]
      /\ rules.left \in [TrigChats -> 0..MaxLeft] /\ MaxLeft \in Nat
  BY TriggersAssumption DEF TrigInv, TrigTypeOK, Rules
<1>2. /\ at'[m] = s /\ mine'[m] = r
      /\ \A n \in TrigMessages : n # m => at'[n] = at[n] /\ mine'[n] = mine[n]
  BY <1>1 DEF Goes, Thinks
<1> SUFFICES ASSUME ~raced', ~misled', NEW c \in TrigChats \ deleted
             PROVE  MaxLeft - rules'.left[c] = armed'[c] + wasted'[c] + Cardinality(Owing(c)')
  BY DEF FiresAreAccounted, Owing, ByEntry
<1>3. MaxLeft - rules.left[c] = armed[c] + wasted[c] + Cardinality(Owing(c))
  BY DEF TrigInv, FiresAreAccounted, Owing
<1>4. Owing(c)' = Owing(c) \ {m}
  BY <1>2 DEF Owing, ByEntry
<1>5. IsFiniteSet(Owing(c)) /\ Cardinality(Owing(c)) \in Nat
  BY TriggersAssumption, FS_Subset, FS_CardinalityType DEF Owing
<1>6. Cardinality(Owing(c)') = IF m \in Owing(c) THEN Cardinality(Owing(c)) - 1 ELSE Cardinality(Owing(c))
  BY <1>4, <1>5, FS_RemoveElement
<1>7. (m \in Owing(c)) = (at[m] = "spent" /\ ByEntry(m) /\ c = TrigChatOf[m])
  BY DEF Owing
<1>8. QED
  BY <1>1, <1>3, <1>5, <1>6, <1>7

\* An evaluation thinks what it thought.
LEMMA SameMind ==
  ASSUME TrigInv, NEW m \in TrigMessages
  PROVE  /\ mine[m] \in Rules /\ NoneLeft(mine[m]) /\ [mine EXCEPT ![m] = mine[m]] = mine
         /\ rules \in Rules /\ NoneLeft(rules) /\ TrigChatOf[m] \in TrigChats
         /\ at[m] \in Steps /\ writer \ {m} \subseteq writer
         /\ at[m] \notin {"registering", "spending"} => m \notin writer /\ writer \ {m} = writer
BY TriggersAssumption DEF TrigInv, TrigTypeOK, Evaluated

LEMMA HiccupTyped ==
  ASSUME TrigInv, Hiccup
  PROVE  trigUsed' \in [changes : 0..TrigChanges, faults : 0..TrigFaults]
<1>1. trigUsed.faults + 1 \in 0..TrigFaults
  BY TriggersAssumption DEF TrigInv, TrigTypeOK, Hiccup
<1>2. QED
  BY <1>1 DEF TrigInv, TrigTypeOK, Hiccup

\* The copy of a rule that is cached, alone.
LEMMA CachedAlone ==
  ASSUME NEW r \in Rules
  PROVE  {r} \subseteq Rules /\ Cardinality({r}) <= 1
<1>1. Cardinality({r}) = 1
  BY FS_Singleton, Zenon
<1>2. QED
  BY <1>1

LEMMA SyncsKeeps ==
  ASSUME TrigInv, NEW r \in Rules, Syncs(r)
  PROVE  /\ cached' \subseteq Rules /\ Cardinality(cached') <= 1
         /\ gate' \in BOOLEAN /\ strayed' \in BOOLEAN /\ (strayed => strayed')
         /\ trigUsed' \in [changes : 0..TrigChanges, faults : 0..TrigFaults]
         /\ ~strayed' => cached' = {r} /\ r \in Coming'
<1>1. CASE cached' = {r} /\ gate' = TRUE /\ strayed' = (strayed \/ r \notin Coming') /\ UNCHANGED trigUsed
  <2>1. cached' \subseteq Rules /\ Cardinality(cached') <= 1
    BY <1>1, CachedAlone
  <2>2. trigUsed' \in [changes : 0..TrigChanges, faults : 0..TrigFaults]
    BY <1>1 DEF TrigInv, TrigTypeOK
  <2>3. gate' \in BOOLEAN /\ strayed' \in BOOLEAN
    BY <1>1, Zenon DEF TrigInv, TrigTypeOK
  <2>4. QED
    BY <1>1, <2>1, <2>2, <2>3, Zenon
<1>2. CASE Hiccup /\ strayed' = TRUE /\ UNCHANGED <<cached, gate>>
  BY <1>2, HiccupTyped, Zenon DEF TrigInv, TrigTypeOK
<1>3. QED
  BY <1>1, <1>2 DEF Syncs

-----------------------------------------------------------------------------
LEMMA QueueKeeps ==
  ASSUME TrigInv, NEW m \in TrigMessages, Queue(m)
  PROVE  TrigInv'
<1> DEFINE s == IF gate THEN "queued" ELSE "dropped"
<1>1. TrigTypeOK'
  BY DEF TrigInv, TrigTypeOK, Queue, Goes, Steps
<1>2. /\ at[m] = "new" /\ Goes(m, s) /\ s \in {"queued", "dropped"} /\ s \in Steps
      /\ rules' = rules /\ mine' = mine /\ writer' = writer /\ cached' = cached /\ tries' = tries
      /\ edit' = edit /\ late' = late
      /\ armed' = armed /\ wasted' = wasted /\ deleted' = deleted
      /\ raced' = raced /\ misled' = misled /\ strayed' = strayed
      /\ hushed' = IF late = {} /\ \A r \in {rules} \cup Coming : ~Matches(r, m)
                   THEN hushed \cup {m} ELSE hushed
  BY DEF Queue, Steps
<1> HIDE DEF s
<1>3. Thinks(m, mine[m])
  BY <1>2, SameMind DEF Thinks
<1>4. tries[m] < MaxAttempts /\ m \notin writer
  BY <1>2 DEF TrigInv, Evaluated
<1>5. Evaluated' /\ WriterKnows' /\ EditKnows' /\ MindMatches'
  BY <1>2, <1>3, <1>4, SameMind, Moves
<1>6. AllRest'
  <2> SUFFICES ASSUME ~strayed
               PROVE  /\ late = {} => cached \subseteq Coming
                      /\ \A n \in hushed' : /\ at'[n] \in {"queued", "missed", "dropped"}
                                            /\ at'[n] = "missed" => ~Matches(mine[n], n)
                                            /\ \A r \in Rows : ~Matches(r, n)
    <3>1. Coming' = Coming
      BY <1>2, SameComing
    <3>2. Rows' = Rows
      BY <1>2, <3>1 DEF Rows
    <3>3. QED
      BY <1>2, <3>1, <3>2 DEF AllRest, Rests, Matches, MatchesChat, MatchesUnknown
  <2>1. late = {} => cached \subseteq Coming
    BY DEF TrigInv, AllRest
  <2>2. /\ at \in [TrigMessages -> Steps] /\ hushed \subseteq TrigMessages
        /\ \A n \in hushed : Rests(n) /\ \A r \in Rows : ~Matches(r, n)
    BY DEF TrigInv, TrigTypeOK, AllRest
  <2>3. at'[m] = s /\ \A n \in TrigMessages : n # m => at'[n] = at[n]
    BY <1>2, <2>2 DEF Goes
  <2>4. m \notin hushed
    BY <1>2, <2>2 DEF Rests
  <2>5. ASSUME m \in hushed', NEW r \in Rows PROVE ~Matches(r, m)
    <3>1. late = {} /\ \A q \in {rules} \cup Coming : ~Matches(q, m)
      BY <1>2, <2>4, <2>5
    <3>2. r \in {rules} \cup Coming
      BY <2>1, <3>1 DEF Rows
    <3>3. QED
      BY <3>1, <3>2
  <2>6. ASSUME NEW n \in hushed', n # m
        PROVE  /\ at'[n] \in {"queued", "missed", "dropped"}
               /\ at'[n] = "missed" => ~Matches(mine[n], n)
               /\ \A r \in Rows : ~Matches(r, n)
    BY <1>2, <2>2, <2>3, <2>6 DEF Rests
  <2>7. QED
    BY <1>2, <2>1, <2>3, <2>5, <2>6
<1>7. FiresAreAccounted'
  BY <1>2, <1>3, SameMind, FiresKept DEF TrigInv, TrigTypeOK
<1>8. QED
  BY <1>1, <1>5, <1>6, <1>7 DEF TrigInv

LEMMA LoadCfgKeeps ==
  ASSUME TrigInv, NEW m \in TrigMessages, LoadCfg(m)
  PROVE  TrigInv'
<1>1. TrigTypeOK'
  BY DEF TrigInv, TrigTypeOK, LoadCfg, Goes, Thinks, Steps
<1>2. /\ at[m] = "queued"
      /\ rules' = rules /\ writer' = writer /\ cached' = cached /\ tries' = tries
      /\ edit' = edit /\ late' = late
      /\ armed' = armed /\ wasted' = wasted /\ deleted' = deleted /\ hushed' = hushed
      /\ raced' = raced /\ misled' = misled /\ strayed' = strayed
  BY DEF LoadCfg
<1>3. tries[m] < MaxAttempts /\ m \notin writer
  BY <1>2 DEF TrigInv, Evaluated
<1>4. PICK s \in {"matched", "missed", "dropped"}, r \in {rules, mine[m]} :
         /\ Goes(m, s) /\ Thinks(m, r)
         /\ s = "matched" => \E q \in cached : Matches(q, m)
         /\ s = "missed" => r = rules
  <2>1. CASE gate /\ cached # {}
    <3>1. Thinks(m, mine[m]) /\ Goes(m, IF \E q \in cached : Matches(q, m) THEN "matched" ELSE "dropped")
      BY <2>1, SameMind DEF LoadCfg, Thinks
    <3>2. QED
      BY <3>1
  <2>2. CASE ~(gate /\ cached # {})
    <3>1. Thinks(m, rules) /\ Goes(m, IF on THEN "missed" ELSE "dropped")
      BY <2>2 DEF LoadCfg
    <3>2. QED
      BY <3>1
  <2>3. QED
    BY <2>1, <2>2
<1>5. r \in Rules /\ NoneLeft(r) /\ s \in Steps
  BY <1>4, SameMind DEF Steps
<1>6. Evaluated' /\ WriterKnows' /\ EditKnows' /\ MindMatches'
  BY <1>2, <1>3, <1>4, <1>5, SameMind, Moves
<1>7. AllRest'
  <2>1. rules \in Rows /\ cached \subseteq Rows
    BY DEF Rows
  <2>2. (\A q \in Rows : ~Matches(q, m)) =>
           s \in {"queued", "missed", "dropped"} /\ (s = "missed" => ~Matches(r, m))
    BY <1>4, <2>1
  <2>3. QED
    BY <1>2, <1>3, <1>4, <1>5, <2>2, SameMind, MovesRest
<1>8. FiresAreAccounted'
  BY <1>2, <1>4, <1>5, SameMind, FiresKept DEF TrigInv, TrigTypeOK
<1>9. QED
  BY <1>1, <1>6, <1>7, <1>8 DEF TrigInv

LEMMA FillCacheKeeps ==
  ASSUME TrigInv, NEW m \in TrigMessages, FillCache(m)
  PROVE  TrigInv'
<1> DEFINE s == IF Matches(mine[m], m) THEN "matched" ELSE "dropped"
<1>1. /\ at[m] = "missed" /\ Goes(m, s) /\ s \in {"matched", "dropped"} /\ s \in Steps
      /\ (~Matches(mine[m], m) => s = "dropped")
      /\ rules' = rules /\ mine' = mine /\ writer' = writer /\ tries' = tries
      /\ edit' = edit /\ late' = late
      /\ armed' = armed /\ wasted' = wasted /\ deleted' = deleted /\ hushed' = hushed
      /\ raced' = raced /\ misled' = misled /\ Syncs(mine[m])
  BY DEF FillCache, Steps
<1>2. /\ cached' \subseteq Rules /\ Cardinality(cached') <= 1
      /\ gate' \in BOOLEAN /\ strayed' \in BOOLEAN /\ (strayed => strayed')
      /\ trigUsed' \in [changes : 0..TrigChanges, faults : 0..TrigFaults]
      /\ ~strayed' => cached' = {mine[m]} /\ mine[m] \in Coming'
  BY <1>1, SameMind, SyncsKeeps
<1>3. TrigTypeOK'
  <2>1. at' \in [TrigMessages -> Steps] /\ UNCHANGED <<on, charges>>
    BY <1>1 DEF TrigInv, TrigTypeOK, Goes, FillCache
  <2>2. QED
    BY <1>1, <1>2, <2>1, Zenon DEF TrigInv, TrigTypeOK
<1>4. Thinks(m, mine[m])
  BY <1>1, SameMind DEF Thinks
<1>5. tries[m] < MaxAttempts /\ m \notin writer
  BY <1>1 DEF TrigInv, Evaluated
<1> HIDE DEF s
<1>6. Evaluated' /\ WriterKnows' /\ EditKnows' /\ MindMatches'
  BY <1>1, <1>4, <1>5, SameMind, Moves
<1>7. AllRest'
  <2>1. Coming' = Coming
    BY <1>1, SameComing
  <2>2. ~strayed' => cached' \subseteq Coming
    BY <1>2, <2>1
  <2>3. Rests(m) => s = "dropped"
    BY <1>1 DEF Rests
  <2>4. QED
    BY <1>1, <1>2, <1>4, <1>5, <2>2, <2>3, SameMind, MovesRest
<1>8. FiresAreAccounted'
  BY <1>1, <1>4, SameMind, FiresKept DEF TrigInv, TrigTypeOK
<1>9. QED
  BY <1>3, <1>6, <1>7, <1>8 DEF TrigInv

LEMMA RecheckKeeps ==
  ASSUME TrigInv, NEW m \in TrigMessages, Recheck(m)
  PROVE  TrigInv'
<1> DEFINE s == IF Allowed(m) THEN "checked" ELSE "dropped"
<1>1. TrigTypeOK'
  BY DEF TrigInv, TrigTypeOK, Recheck, Goes, Thinks, Steps
<1>2. /\ at[m] = "matched" /\ Goes(m, s) /\ Thinks(m, rules) /\ s \in {"checked", "dropped"} /\ s \in Steps
      /\ rules' = rules /\ writer' = writer /\ cached' = cached /\ tries' = tries
      /\ edit' = edit /\ late' = late
      /\ armed' = armed /\ wasted' = wasted /\ deleted' = deleted /\ hushed' = hushed
      /\ raced' = raced /\ strayed' = strayed
  BY DEF Recheck, Steps
<1>3. /\ misled => misled'
      /\ ~misled' /\ s = "checked" => Matches(rules, m)
  BY DEF Recheck
<1>4. tries[m] < MaxAttempts /\ m \notin writer /\ ~Rests(m)
  BY <1>2 DEF TrigInv, Evaluated, Rests
<1> HIDE DEF s
<1>5. Evaluated' /\ WriterKnows' /\ EditKnows' /\ MindMatches'
  BY <1>2, <1>3, <1>4, SameMind, Moves
<1>6. AllRest'
  BY <1>2, <1>4, SameMind, MovesRest
<1>7. FiresAreAccounted'
  BY <1>2, <1>3, SameMind, FiresKept DEF TrigInv, TrigTypeOK
<1>8. QED
  BY <1>1, <1>5, <1>6, <1>7 DEF TrigInv

LEMMA ChargeKeeps ==
  ASSUME TrigInv, NEW m \in TrigMessages, Charge(m)
  PROVE  TrigInv'
<1> DEFINE s == IF charges < TrigQuota THEN "charged" ELSE "dropped"
<1>1. TrigTypeOK'
  BY DEF TrigInv, TrigTypeOK, Charge, Goes, Steps
<1>2. /\ at[m] = "checked" /\ Goes(m, s) /\ s \in {"charged", "dropped"} /\ s \in Steps
      /\ rules' = rules /\ mine' = mine /\ writer' = writer /\ cached' = cached /\ tries' = tries
      /\ edit' = edit /\ late' = late
      /\ armed' = armed /\ wasted' = wasted /\ deleted' = deleted /\ hushed' = hushed
      /\ raced' = raced /\ misled' = misled /\ strayed' = strayed
  BY DEF Charge, Steps
<1>3. Thinks(m, mine[m])
  BY <1>2, SameMind DEF Thinks
<1>4. tries[m] < MaxAttempts /\ m \notin writer /\ ~Rests(m)
  BY <1>2 DEF TrigInv, Evaluated, Rests
<1>5. ~misled => Matches(mine[m], m)
  BY <1>2 DEF TrigInv, MindMatches
<1> HIDE DEF s
<1>6. Evaluated' /\ WriterKnows' /\ EditKnows' /\ MindMatches'
  BY <1>2, <1>3, <1>4, <1>5, SameMind, Moves
<1>7. AllRest'
  BY <1>2, <1>3, <1>4, SameMind, MovesRest
<1>8. FiresAreAccounted'
  BY <1>2, <1>3, SameMind, FiresKept DEF TrigInv, TrigTypeOK
<1>9. QED
  BY <1>1, <1>6, <1>7, <1>8 DEF TrigInv

LEMMA ArmKeeps ==
  ASSUME TrigInv, NEW m \in TrigMessages, Arm(m)
  PROVE  TrigInv'
<1>1. TrigTypeOK'
  <2>1. armed' \in [TrigChats -> Nat]
    BY SameMind DEF TrigInv, TrigTypeOK, Arm
  <2>2. at' \in [TrigMessages -> Steps]
    BY DEF TrigInv, TrigTypeOK, Arm, Goes, Steps
  <2>3. QED
    BY <2>1, <2>2, Zenon DEF TrigInv, TrigTypeOK, Arm
<1>2. /\ at[m] = "spent" /\ Goes(m, "armed") /\ "armed" \in Steps
      /\ rules' = rules /\ mine' = mine /\ writer' = writer /\ cached' = cached /\ tries' = tries
      /\ edit' = edit /\ late' = late
      /\ wasted' = wasted /\ deleted' = deleted /\ hushed' = hushed
      /\ raced' = raced /\ misled' = misled /\ strayed' = strayed
      /\ armed' = IF ByEntry(m) THEN [armed EXCEPT ![TrigChatOf[m]] = @ + 1] ELSE armed
  BY DEF Arm, Steps
<1>3. Thinks(m, mine[m])
  BY <1>2, SameMind DEF Thinks
<1>4. tries[m] < MaxAttempts /\ m \notin writer /\ ~Rests(m)
  BY <1>2 DEF TrigInv, Evaluated, Rests
<1>5. Evaluated' /\ WriterKnows' /\ EditKnows' /\ MindMatches'
  BY <1>2, <1>3, <1>4, SameMind, Moves
<1>6. AllRest'
  BY <1>2, <1>3, <1>4, SameMind, MovesRest
<1>7. /\ armed' \in [TrigChats -> Nat] /\ wasted' \in [TrigChats -> Nat]
      /\ \A c \in TrigChats : armed'[c] + wasted'[c] = armed[c] + wasted[c] +
           (IF at[m] = "spent" /\ ByEntry(m) /\ c = TrigChatOf[m] THEN 1 ELSE 0)
  BY <1>2, SameMind DEF TrigInv, TrigTypeOK
<1>8. FiresAreAccounted'
  BY <1>2, <1>3, <1>7, SameMind, FiresKept
<1>9. QED
  BY <1>1, <1>5, <1>6, <1>8 DEF TrigInv

LEMMA BreaksKeep ==
  ASSUME TrigInv, NEW m \in TrigMessages, Fail(m) \/ WorkerDies(m)
  PROVE  TrigInv'
<1>1. PICK s \in {"queued", "dropped"} : Goes(m, s) /\ (s = "dropped" \/ tries'[m] < MaxAttempts)
  <2>1. CASE Fail(m)
    <3>1. tries'[m] = tries[m] + 1 /\ Goes(m, IF tries[m] + 1 < MaxAttempts THEN "queued" ELSE "dropped")
      BY <2>1 DEF Fail, TrigInv, TrigTypeOK
    <3>2. QED
      BY <3>1
  <2>2. CASE WorkerDies(m)
    BY <2>2 DEF WorkerDies, Breaks, TrigInv, Evaluated
  <2>3. QED
    BY <2>1, <2>2
<1>2. /\ at[m] \notin {"new", "queued", "armed", "dropped"}
      /\ rules' = rules /\ mine' = mine /\ writer' = writer \ {m} /\ cached' = cached
      /\ edit' = edit /\ late' = late
      /\ armed' = armed /\ deleted' = deleted /\ hushed' = hushed
      /\ raced' = raced /\ misled' = misled /\ on' = on /\ gate' = gate
      /\ wasted' = IF at[m] = "spent" /\ ByEntry(m) THEN [wasted EXCEPT ![TrigChatOf[m]] = @ + 1] ELSE wasted
      /\ Hiccup
  BY DEF Fail, WorkerDies, Breaks
<1>3. (strayed => strayed') /\ (~strayed' => m \notin writer) /\ strayed' \in BOOLEAN
  BY Zenon DEF Fail, WorkerDies, Breaks, TrigInv, TrigTypeOK
<1>4. tries[m] < MaxAttempts /\ \A n \in TrigMessages : n # m => tries'[n] = tries[n]
  BY <1>2 DEF Fail, WorkerDies, TrigInv, TrigTypeOK, Evaluated
<1>5. TrigTypeOK'
  <2>1. trigUsed' \in [changes : 0..TrigChanges, faults : 0..TrigFaults]
    BY <1>2, HiccupTyped
  <2>2. tries' \in [TrigMessages -> 0..MaxAttempts]
    <3>1. tries \in [TrigMessages -> 0..MaxAttempts] /\ tries[m] + 1 \in 0..MaxAttempts
      BY <1>4, TriggersAssumption DEF TrigInv, TrigTypeOK
    <3>2. QED
      BY <3>1 DEF Fail, WorkerDies
  <2>3. charges' \in Nat
    BY DEF Fail, WorkerDies, TrigInv, TrigTypeOK
  <2>4. wasted' \in [TrigChats -> Nat]
    BY <1>2, SameMind DEF TrigInv, TrigTypeOK
  <2>5. writer' \subseteq TrigMessages /\ Cardinality(writer') <= 1
    <3>1. IsFiniteSet(writer) /\ Cardinality(writer) <= 1
      BY TriggersAssumption, FS_Subset DEF TrigInv, TrigTypeOK
    <3>2. Cardinality(writer \ {m}) <= Cardinality(writer) /\ Cardinality(writer \ {m}) \in Nat /\ Cardinality(writer) \in Nat
      BY <3>1, FS_Subset, FS_CardinalityType, FS_RemoveElement
    <3>3. QED
      BY <1>2, <3>1, <3>2 DEF TrigInv, TrigTypeOK
  <2>6. at' \in [TrigMessages -> Steps]
    BY <1>1 DEF TrigInv, TrigTypeOK, Goes, Steps
  <2>7. QED
    BY <1>2, <1>3, <2>1, <2>2, <2>3, <2>4, <2>5, <2>6, Zenon DEF TrigInv, TrigTypeOK
<1>6. Thinks(m, mine[m]) /\ s \in Steps
  BY <1>2, SameMind DEF Thinks, Steps
<1>7. Evaluated' /\ WriterKnows' /\ EditKnows' /\ MindMatches'
  BY <1>1, <1>2, <1>4, <1>6, SameMind, Moves
<1>8. AllRest'
  BY <1>1, <1>2, <1>3, <1>6, SameMind, MovesRest
<1>9. /\ armed' \in [TrigChats -> Nat] /\ wasted' \in [TrigChats -> Nat]
      /\ \A c \in TrigChats : armed'[c] + wasted'[c] = armed[c] + wasted[c] +
           (IF at[m] = "spent" /\ ByEntry(m) /\ c = TrigChatOf[m] THEN 1 ELSE 0)
  BY <1>2, SameMind DEF TrigInv, TrigTypeOK
<1>10. FiresAreAccounted'
  BY <1>1, <1>2, <1>6, <1>9, SameMind, FiresKept
<1>11. QED
  BY <1>5, <1>7, <1>8, <1>10 DEF TrigInv

\* Messages at rest stay so when a copy is cached that is the row to be.
LEMMA SyncsRest ==
  ASSUME TrigInv, NEW r \in Rules, Syncs(r), Hears, late' = late, rules' = rules,
         \A n \in TrigMessages : Rests(n) => at'[n] = at[n] /\ mine'[n] = mine[n]
  PROVE  AllRest'
<1>1. /\ strayed => strayed'
      /\ ~strayed' => cached' = {r} /\ r \in Coming'
  BY SyncsKeeps
<1>2. /\ hushed \subseteq TrigMessages /\ AllRest
      /\ hushed' = {n \in hushed : \A q \in {rules'} \cup Coming' : ~Matches(q, n)}
  BY DEF TrigInv, TrigTypeOK, Hears
<1> SUFFICES ASSUME ~strayed' PROVE AllRest'
  BY DEF AllRest
<1>3. \A n \in hushed' : Rests(n) => Rests(n)'
  <2> SUFFICES ASSUME NEW n \in hushed', Rests(n)
               PROVE  at'[n] \in {"queued", "missed", "dropped"} /\ (at'[n] = "missed" => ~Matches(mine'[n], n))
    BY DEF Rests, Matches, MatchesChat, MatchesUnknown
  <2>1. QED
    BY <1>2 DEF Rests
<1>4. \A q \in Rows' : q \in Rows \/ \A n \in hushed' : ~Matches(q, n)
  <2> SUFFICES ASSUME NEW q \in Rows' PROVE q \in Rows \/ \A n \in hushed' : ~Matches(q, n)
    OBVIOUS
  <2>1. q \in {rules'} \cup Coming' \/ q \in {p.row : p \in late}
    BY <1>1 DEF Rows
  <2>2. QED
    BY <1>2, <2>1 DEF Rows
<1>5. QED
  BY <1>1, <1>2, <1>3, <1>4, RestKept

\* The row is taken to be written: what is cached is what it will be.
LEMMA WritesKeep ==
  ASSUME TrigInv, NEW m \in TrigMessages, NEW q \in Rules, NEW s \in {"registering", "spending"},
         at[m] \in {"charged", "registered"}, Goes(m, s), Writes(m, q), NoneLeft(q),
         s = "registering" => q.left = mine[m].left /\ MatchesChat(q, TrigChatOf[m]),
         s = "spending" =>
            /\ at[m] = "registered" /\ q.auto = mine[m].auto
            /\ mine[m].left[TrigChatOf[m]] > 0 =>
                  q.left = [mine[m].left EXCEPT ![TrigChatOf[m]] = @ - 1]
            /\ q = mine[m] => mine[m].left[TrigChatOf[m]] = 0
            /\ q # mine[m] => mine[m].left[TrigChatOf[m]] > 0
  PROVE  TrigInv'
<1> DEFINE own == [mine[m] EXCEPT !.paused = rules.paused]
<1>1. /\ at \in [TrigMessages -> Steps] /\ mine \in [TrigMessages -> Rules]
      /\ writer \subseteq TrigMessages /\ hushed \subseteq TrigMessages
      /\ rules.paused \in SUBSET TrigChats
  BY DEF TrigInv, TrigTypeOK, Rules
<1>2. /\ at'[m] = s /\ mine'[m] = q /\ at' \in [TrigMessages -> Steps]
      /\ \A n \in TrigMessages : n # m => at'[n] = at[n] /\ mine'[n] = mine[n]
      /\ mine' \in [TrigMessages -> Rules]
  BY <1>1 DEF Goes, Thinks, Writes, Steps
<1>3. /\ rules' = rules /\ tries' = tries /\ edit' = edit /\ late' = late
      /\ armed' = armed /\ wasted' = wasted /\ deleted' = deleted
      /\ misled' = misled /\ Syncs(q) /\ Hears
  BY DEF Writes
<1>4. (raced => raced') /\ (~raced' => own = rules) /\ raced' \in BOOLEAN
  BY Zenon DEF Writes, TrigInv, TrigTypeOK
<1>5. /\ m \notin writer
      /\ q = mine[m] => writer' = writer
      /\ q # mine[m] => writer = {} /\ writer' = {m} /\ edit.at # "wrote"
  BY DEF Writes, TrigInv, Evaluated
<1>6. own.left = mine[m].left /\ own.auto = mine[m].auto /\ own \in Rules
  BY <1>1, PausedShape
<1>7. TrigTypeOK'
  <2>1. /\ cached' \subseteq Rules /\ Cardinality(cached') <= 1
        /\ gate' \in BOOLEAN /\ strayed' \in BOOLEAN
        /\ trigUsed' \in [changes : 0..TrigChanges, faults : 0..TrigFaults]
    BY <1>3, SyncsKeeps
  <2>2. writer' \subseteq TrigMessages /\ Cardinality(writer') <= 1
    <3>1. Cardinality({m}) = 1
      BY FS_Singleton, Zenon
    <3>2. writer \subseteq TrigMessages /\ Cardinality(writer) <= 1
      BY DEF TrigInv, TrigTypeOK
    <3>3. writer' = writer \/ writer' = {m}
      BY <1>5
    <3>4. QED
      BY <3>1, <3>2, <3>3
  <2>3. UNCHANGED <<on, charges>> /\ hushed' \subseteq TrigMessages
    BY <1>1, <1>3 DEF Writes, Hears
  <2>4. QED
    BY <1>2, <1>3, <1>4, <2>1, <2>2, <2>3, Zenon DEF TrigInv, TrigTypeOK
<1>8. Evaluated'
  <2>1. \A n \in TrigMessages : tries'[n] < MaxAttempts \/ at'[n] = "dropped"
    BY <1>2, <1>3 DEF TrigInv, Evaluated
  <2>2. NoneLeft(rules)' /\ NoneLeft(edit.copy)' /\ \A n \in TrigMessages : NoneLeft(mine[n])'
    BY <1>2, <1>3 DEF TrigInv, Evaluated, NoneLeft
  <2>3. \A w \in writer' : at'[w] \in {"registering", "spending"}
    BY <1>1, <1>2, <1>5 DEF TrigInv, Evaluated
  <2>4. edit'.at = "wrote" => writer' = {}
    BY <1>3, <1>5 DEF TrigInv, Evaluated
  <2>5. QED
    BY <2>1, <2>2, <2>3, <2>4 DEF Evaluated
<1> HIDE DEF own
<1>9. WriterKnows'
  <2>1. CASE q = mine[m]
    BY <1>1, <1>2, <1>3, <1>4, <1>5, <2>1 DEF TrigInv, WriterKnows
  <2>2. CASE q # mine[m]
    <3> SUFFICES ASSUME ~raced'
                 PROVE  /\ s = "registering" => q.left = rules.left
                        /\ s = "spending" =>
                             /\ rules.left[TrigChatOf[m]] > 0
                             /\ q.left = [rules.left EXCEPT ![TrigChatOf[m]] = @ - 1]
                             /\ q.auto = rules.auto
      BY <1>2, <1>3, <1>5, <2>2 DEF WriterKnows
    <3>1. QED
      BY <1>4, <1>6, <2>2
  <2>3. QED
    BY <2>1, <2>2
<1>10. MindMatches'
  <2> SUFFICES ASSUME ~misled', NEW n \in TrigMessages
               PROVE  /\ at'[n] \in {"checked", "charged"} => Matches(mine'[n], n)
                      /\ at'[n] \in {"registering", "registered"} => MatchesChat(mine'[n], TrigChatOf[n])
                      /\ at'[n] = "spending" /\ n \notin writer' => TrigChatOf[n] \in ToSet(mine'[n].auto)
    BY DEF MindMatches, Matches, MatchesChat, MatchesUnknown
  <2>1. CASE n = m
    <3>1. CASE s = "registering"
      BY <1>2, <2>1, <3>1
    <3>2. CASE s = "spending"
      <4>1. MatchesChat(mine[m], TrigChatOf[m])
        BY <1>3, <3>2 DEF TrigInv, MindMatches
      <4>2. q = mine[m] => TrigChatOf[m] \in ToSet(q.auto)
        BY <3>2, <4>1 DEF MatchesChat
      <4>3. QED
        BY <1>2, <1>5, <2>1, <3>2, <4>2
    <3>3. QED
      BY <3>1, <3>2
  <2>2. CASE n # m
    <3>1. n \notin writer' => n \notin writer
      BY <1>5
    <3>2. QED
      BY <1>2, <1>3, <2>2, <3>1 DEF TrigInv, MindMatches
  <2>3. QED
    BY <2>1, <2>2
<1>11. AllRest'
  <2>1. \A n \in TrigMessages : Rests(n) => n # m
    BY DEF Rests
  <2>2. QED
    BY <1>2, <1>3, <2>1, SyncsRest
<1>12. FiresAreAccounted'
  <2>1. Thinks(m, q) /\ s \in Steps
    BY DEF Writes, Steps
  <2>2. QED
    BY <1>3, <1>4, <2>1, SameMind, FiresKept DEF TrigInv, TrigTypeOK
<1>13. EditKnows'
  BY <1>3, <1>4 DEF TrigInv, EditKnows
<1>14. QED
  BY <1>7, <1>8, <1>9, <1>10, <1>11, <1>12, <1>13 DEF TrigInv

LEMMA RegisterKeeps ==
  ASSUME TrigInv, NEW m \in TrigMessages, Register(m)
  PROVE  TrigInv'
<1>1. at[m] = "charged" /\ (~misled => Matches(mine[m], m))
  BY DEF Register, TrigInv, MindMatches
<1>2. CASE MatchesUnknown(mine[m], m)
  <2> DEFINE q == Registered(mine[m], TrigChatOf[m])
  <2>1. Writes(m, q) /\ Goes(m, "registering")
    BY <1>2 DEF Register
  <2>2. q \in Rules /\ q.left = mine[m].left /\ MatchesChat(q, TrigChatOf[m]) /\ NoneLeft(q)
    BY SameMind, RegisteredShape
  <2> HIDE DEF q
  <2>3. QED
    BY <1>1, <2>1, <2>2, WritesKeep
<1>3. CASE ~MatchesUnknown(mine[m], m)
  <2>1. /\ Goes(m, "registered") /\ "registered" \in Steps
        /\ rules' = rules /\ mine' = mine /\ writer' = writer /\ cached' = cached /\ tries' = tries
        /\ edit' = edit /\ late' = late
        /\ armed' = armed /\ wasted' = wasted /\ deleted' = deleted /\ hushed' = hushed
        /\ raced' = raced /\ misled' = misled /\ strayed' = strayed
        /\ UNCHANGED <<on, gate, charges, trigUsed>>
    BY <1>3 DEF Register, Steps
  <2>2. TrigTypeOK'
    BY <2>1 DEF TrigInv, TrigTypeOK, Goes
  <2>3. Thinks(m, mine[m])
    BY <2>1, SameMind DEF Thinks
  <2>4. tries[m] < MaxAttempts /\ m \notin writer /\ ~Rests(m)
    BY <1>1 DEF TrigInv, Evaluated, Rests
  <2>5. ~misled => MatchesChat(mine[m], TrigChatOf[m])
    BY <1>1, <1>3 DEF Matches
  <2>6. Evaluated' /\ WriterKnows' /\ EditKnows' /\ MindMatches'
    BY <1>1, <2>1, <2>3, <2>4, <2>5, SameMind, Moves
  <2>7. AllRest'
    BY <1>1, <2>1, <2>3, <2>4, SameMind, MovesRest
  <2>8. FiresAreAccounted'
    BY <1>1, <2>1, <2>3, SameMind, FiresKept DEF TrigInv, TrigTypeOK
  <2>9. QED
    BY <2>2, <2>6, <2>7, <2>8 DEF TrigInv
<1>4. QED
  BY <1>2, <1>3

LEMMA SpendKeeps ==
  ASSUME TrigInv, NEW m \in TrigMessages, Spend(m)
  PROVE  TrigInv'
<1> DEFINE q == Spent(mine[m], TrigChatOf[m])
<1>1. at[m] = "registered" /\ Writes(m, q) /\ Goes(m, "spending")
  BY DEF Spend
<1>2. /\ q \in Rules /\ q.auto = mine[m].auto /\ NoneLeft(q)
      /\ mine[m].left[TrigChatOf[m]] > 0 => q.left = [mine[m].left EXCEPT ![TrigChatOf[m]] = @ - 1]
      /\ (q = mine[m]) = (mine[m].left[TrigChatOf[m]] = 0)
  <2> DEFINE r == mine[m]
             c == TrigChatOf[m]
  <2>1. r \in Rules /\ c \in TrigChats /\ NoneLeft(r)
    BY SameMind
  <2> HIDE DEF r, c
  <2>2. /\ Spent(r, c) \in Rules /\ Spent(r, c).auto = r.auto /\ NoneLeft(Spent(r, c))
        /\ r.left[c] > 0 => Spent(r, c).left = [r.left EXCEPT ![c] = @ - 1]
        /\ (Spent(r, c) = r) = (r.left[c] = 0)
    BY <2>1, SpentShape
  <2>3. QED
    BY <2>2 DEF r, c
<1>3. mine[m].left[TrigChatOf[m]] \in Nat
  BY SameMind, TriggersAssumption DEF Rules
<1> HIDE DEF q
<1>4. q # mine[m] => mine[m].left[TrigChatOf[m]] > 0
  BY <1>2, <1>3
<1>5. QED
  BY <1>1, <1>2, <1>4, WritesKeep

-----------------------------------------------------------------------------
\* The owner and the turns leave the evaluations alone, and change the row
\* while no evaluation holds it.
LEMMA RowChanges ==
  ASSUME TrigInv, UNCHANGED <<at, mine, tries, writer, armed, wasted, misled>>,
         writer = {} \/ rules' = rules, NoneLeft(rules'), NoneLeft(edit'.copy),
         raced => raced', deleted \subseteq deleted',
         edit'.at = "wrote" => writer = {},
         edit'.at = "wrote" /\ ~raced' =>
            \A c \in TrigChats \ edit'.gone : edit'.copy.left[c] = rules'.left[c],
         ~raced' => \A c \in TrigChats \ deleted' : rules'.left[c] = rules.left[c]
  PROVE  Evaluated' /\ WriterKnows' /\ EditKnows' /\ MindMatches' /\ FiresAreAccounted'
<1>1. Evaluated'
  BY DEF TrigInv, Evaluated, NoneLeft
<1>2. WriterKnows'
  <2>1. CASE writer = {}
    BY <2>1 DEF WriterKnows
  <2>2. CASE rules' = rules
    BY <2>2 DEF TrigInv, WriterKnows
  <2>3. QED
    BY <2>1, <2>2
<1>3. MindMatches'
  BY DEF TrigInv, MindMatches, Matches, MatchesChat, MatchesUnknown
<1>4. FiresAreAccounted'
  BY DEF TrigInv, FiresAreAccounted, ByEntry
<1>5. EditKnows'
  BY DEF EditKnows
<1>6. QED
  BY <1>1, <1>2, <1>3, <1>4, <1>5

\* What they do not touch keeps its type.
LEMMA ApartTyped ==
  ASSUME TrigInv, Apart, rules' \in Rules, on' \in BOOLEAN, gate' \in BOOLEAN,
         cached' \subseteq Rules, Cardinality(cached') <= 1,
         edit' \in [at : {"none", "read", "wrote"}, copy : Rules, gone : SUBSET TrigChats],
         late' \subseteq [n : 0..TrigChanges, row : Rules, on : BOOLEAN],
         hushed' \subseteq hushed, deleted' \subseteq TrigChats,
         raced' \in BOOLEAN, strayed' \in BOOLEAN,
         trigUsed' \in [changes : 0..TrigChanges, faults : 0..TrigFaults]
  PROVE  TrigTypeOK'
<1>1. hushed' \subseteq TrigMessages /\ UNCHANGED <<at, mine, writer, tries, charges, armed, wasted, misled>>
  BY DEF TrigInv, TrigTypeOK, Apart
<1>2. QED
  BY <1>1, Zenon DEF TrigInv, TrigTypeOK

LEMMA EditTypes ==
  ASSUME TrigInv
  PROVE  /\ rules \in Rules /\ edit.copy \in Rules /\ NoneLeft(rules) /\ NoneLeft(edit.copy)
         /\ edit.gone \in SUBSET TrigChats /\ rules.paused \in SUBSET TrigChats
         /\ edit.copy.paused \in SUBSET TrigChats
         /\ FirstRules \in Rules /\ NoneLeft(FirstRules)
         /\ NoEdit \in [at : {"none", "read", "wrote"}, copy : Rules, gone : SUBSET TrigChats]
         /\ NoEdit.at = "none" /\ NoEdit.copy = FirstRules
         /\ trigUsed.changes \in 0..TrigChanges
         /\ trigUsed \in [changes : 0..TrigChanges, faults : 0..TrigFaults]
         /\ cached \subseteq Rules /\ Cardinality(cached) <= 1 /\ deleted \subseteq TrigChats
         /\ on \in BOOLEAN /\ gate \in BOOLEAN
         /\ raced \in BOOLEAN /\ strayed \in BOOLEAN
         /\ late \subseteq [n : 0..TrigChanges, row : Rules, on : BOOLEAN]
<1>1. FirstRules \in Rules /\ NoneLeft(FirstRules)
  BY TriggersAssumption DEF Rules, FirstRules, NoneLeft, ToSet
<1>2. NoEdit.at = "none" /\ NoEdit.copy = FirstRules
  BY DEF NoEdit
<1>3. NoEdit \in [at : {"none", "read", "wrote"}, copy : Rules, gone : SUBSET TrigChats]
  BY <1>1 DEF NoEdit
<1>4. rules \in Rules /\ edit.copy \in Rules /\ edit.gone \in SUBSET TrigChats
  BY DEF TrigInv, TrigTypeOK
<1>5. rules.paused \in SUBSET TrigChats /\ edit.copy.paused \in SUBSET TrigChats
  BY <1>4 DEF Rules
<1>6. trigUsed.changes \in 0..TrigChanges
  BY DEF TrigInv, TrigTypeOK
<1>7. QED
  BY <1>1, <1>2, <1>3, <1>4, <1>5, <1>6 DEF TrigInv, TrigTypeOK, Evaluated

LEMMA ReadRowKeeps ==
  ASSUME TrigInv, ReadRow
  PROVE  TrigInv'
<1>1. /\ edit.at # "wrote" /\ trigUsed.changes < TrigChanges
      /\ trigUsed' = [trigUsed EXCEPT !.changes = @ + 1]
      /\ edit' = [at |-> "read", copy |-> rules, gone |-> {}] /\ Apart
      /\ UNCHANGED <<rules, on, gate, cached, late, hushed, deleted, raced, strayed>>
  BY DEF ReadRow
<1>2. UNCHANGED <<at, mine, tries, writer, armed, wasted, misled>>
  BY <1>1 DEF Apart
<1>3. edit' \in [at : {"none", "read", "wrote"}, copy : Rules, gone : SUBSET TrigChats] /\ edit'.copy = rules /\ edit'.at = "read"
  BY <1>1, EditTypes
<1>4. TrigTypeOK'
  <2>1. trigUsed.changes + 1 \in 0..TrigChanges
    BY <1>1, EditTypes, TriggersAssumption
  <2>2. trigUsed' \in [changes : 0..TrigChanges, faults : 0..TrigFaults]
    BY <1>1, <2>1, EditTypes
  <2>3. QED
    BY <1>1, <1>3, <2>2, EditTypes, ApartTyped
<1>5. Evaluated' /\ WriterKnows' /\ EditKnows' /\ MindMatches' /\ FiresAreAccounted'
  BY <1>1, <1>2, <1>3, EditTypes, RowChanges
<1>6. Coming' = Coming
  <2>1. Coming = IF writer = {} THEN {rules} ELSE {[mine[w] EXCEPT !.paused = rules.paused] : w \in writer}
    BY <1>1 DEF Coming
  <2>2. Coming' = IF writer = {} THEN {rules} ELSE {[mine[w] EXCEPT !.paused = rules.paused] : w \in writer}
    BY <1>1, <1>2, <1>3 DEF Coming
  <2>3. QED
    BY <2>1, <2>2
<1>7. AllRest'
  <2>1. Rows' = Rows /\ \A n \in hushed' : Rests(n) => Rests(n)'
    BY <1>1, <1>2, <1>6 DEF Rows, Rests, Matches, MatchesChat, MatchesUnknown
  <2>2. ~strayed' => (late' = {} => cached' \subseteq Coming')
    BY <1>1, <1>6 DEF TrigInv, AllRest
  <2>3. QED
    BY <1>1, <2>1, <2>2, RestKept DEF TrigInv
<1>8. QED
  BY <1>4, <1>5, <1>7 DEF TrigInv

\* A request of the owner.
LEMMA SavesKeep ==
  ASSUME TrigInv, NEW r \in Rules, NEW b \in Rules, Saves(r, b), NoneLeft(r),
         on' \in BOOLEAN, raced' \in BOOLEAN, raced => raced',
         deleted \subseteq deleted', deleted' \subseteq TrigChats,
         ~raced' => \A c \in TrigChats \ deleted' : r.left[c] = rules.left[c]
  PROVE  TrigInv'
<1> DEFINE p == [n |-> trigUsed.changes, row |-> b, on |-> on']
<1>1. /\ writer = {} /\ edit.at = "read" /\ rules' = r /\ late' = late \cup {p} /\ edit' = NoEdit
      /\ Apart /\ UNCHANGED <<gate, cached, trigUsed>> /\ Hears
      /\ strayed' = (strayed \/ b # r)
  BY DEF Saves, RowHeld
<1>2. UNCHANGED <<at, mine, tries, writer, armed, wasted, misled>>
  BY <1>1 DEF Apart
<1>3. strayed' \in BOOLEAN /\ (strayed => strayed') /\ (~strayed' => b = r)
  BY <1>1, EditTypes, Zenon
<1>4. p \in [n : 0..TrigChanges, row : Rules, on : BOOLEAN] /\ p.row = b
  BY EditTypes
<1> HIDE DEF p
<1>5. Coming' = {r}
  BY <1>1, <1>2, EditTypes DEF Coming
<1>6. hushed' = {n \in hushed : ~Matches(r, n)}
  BY <1>1, <1>5 DEF Hears
<1>7. TrigTypeOK'
  <2>1. late' \subseteq [n : 0..TrigChanges, row : Rules, on : BOOLEAN]
    BY <1>1, <1>4, EditTypes
  <2>2. QED
    BY <1>1, <1>3, <1>6, <2>1, EditTypes, ApartTyped
<1>8. Evaluated' /\ WriterKnows' /\ EditKnows' /\ MindMatches' /\ FiresAreAccounted'
  BY <1>1, <1>2, EditTypes, RowChanges
<1>9. AllRest'
  <2>1. late' # {}
    BY <1>1
  <2>2. ~strayed' => \A q \in Rows' : q \in Rows \/ q = r
    BY <1>1, <1>3, <1>4, <1>5 DEF Rows
  <2>3. \A n \in hushed' : Rests(n) => Rests(n)'
    BY <1>2 DEF Rests, Matches, MatchesChat, MatchesUnknown
  <2>4. QED
    BY <1>3, <1>6, <2>1, <2>2, <2>3, RestKept DEF TrigInv
<1>10. QED
  BY <1>7, <1>8, <1>9 DEF TrigInv

LEMMA RequestsKeep ==
  ASSUME TrigInv, NEW c \in TrigChats, OwnerDeletes(c) \/ Resume(c)
  PROVE  TrigInv'
<1>1. CASE OwnerDeletes(c)
  <2> DEFINE q == Without(edit.copy, c)
             r == [q EXCEPT !.paused = rules.paused]
             own == [edit.copy EXCEPT !.paused = rules.paused]
  <2>1. /\ Saves(r, q) /\ on' = on /\ deleted' = deleted \cup {c}
        /\ raced' = (raced \/ own # rules)
    BY <1>1 DEF OwnerDeletes, Aged
  <2>2. q \in Rules /\ NoneLeft(q) /\ \A d \in TrigChats : d # c => q.left[d] = edit.copy.left[d]
    BY EditTypes, DeletedShape
  <2>3. own.left = edit.copy.left
    BY EditTypes, PausedShape
  <2> HIDE DEF q, own
  <2>4. r \in Rules /\ r.left = q.left /\ NoneLeft(r)
    BY <2>2, EditTypes, PausedShape
  <2> HIDE DEF r
  <2>5. raced' \in BOOLEAN /\ (raced => raced') /\ (~raced' => own = rules)
    BY <2>1, EditTypes, Zenon
  <2>6. ~raced' => \A d \in TrigChats \ deleted' : r.left[d] = rules.left[d]
    BY <2>1, <2>2, <2>3, <2>4, <2>5
  <2>7. on' \in BOOLEAN /\ deleted \subseteq deleted' /\ deleted' \subseteq TrigChats
    BY <2>1, EditTypes
  <2>8. QED
    BY <2>1, <2>2, <2>4, <2>5, <2>6, <2>7, SavesKeep
<1>2. CASE Resume(c)
  <2> DEFINE open == edit.copy.paused \ {c}
             r == [rules EXCEPT !.paused = open]
             q == [edit.copy EXCEPT !.paused = open]
  <2>1. Saves(r, q) /\ on' = on /\ deleted' = deleted /\ raced' = raced
    BY <1>2 DEF Resume
  <2>2. open \in SUBSET TrigChats
    BY EditTypes
  <2> HIDE DEF open
  <2>3. r \in Rules /\ r.left = rules.left /\ NoneLeft(r) /\ q \in Rules
    BY <2>2, EditTypes, PausedShape
  <2> HIDE DEF r, q
  <2>4. QED
    BY <2>1, <2>3, EditTypes, SavesKeep
<1>3. QED
  BY <1>1, <1>2

LEMMA SwitchKeeps ==
  ASSUME TrigInv, Switch
  PROVE  TrigInv'
<1>1. Saves(rules, edit.copy) /\ on' \in BOOLEAN /\ deleted' = deleted /\ raced' = raced
  BY Zenon DEF Switch
<1>2. QED
  BY <1>1, EditTypes, SavesKeep

LEMMA RenewKeeps ==
  ASSUME TrigInv, NEW p \in late, Renew(p)
  PROVE  TrigInv'
<1>1. /\ late' = late \ {p} /\ Apart /\ UNCHANGED <<rules, on, edit, hushed, deleted, raced>>
  BY DEF Renew
<1>2. UNCHANGED <<at, mine, tries, writer, armed, wasted, misled>>
  BY <1>1 DEF Apart
<1>3. p.row \in Rules /\ p.on \in BOOLEAN
  BY EditTypes
<1>4. Coming' = Coming
  BY <1>1, <1>2, SameComing
<1>5. /\ cached' \subseteq Rules /\ Cardinality(cached') <= 1 /\ gate' \in BOOLEAN
      /\ strayed' \in BOOLEAN /\ (strayed => strayed')
      /\ trigUsed' \in [changes : 0..TrigChanges, faults : 0..TrigFaults]
      /\ cached' \subseteq cached \cup {p.row}
      /\ ~strayed' => (late' = {} => cached' \subseteq Coming)
  <2>1. CASE /\ cached' = IF p.on THEN {p.row} ELSE {}
             /\ gate' = p.on
             /\ strayed' = (strayed \/ (late' = {} /\ ~(cached' \subseteq Coming)))
             /\ UNCHANGED trigUsed
    <3>1. cached' = {p.row} \/ cached' = {}
      BY <2>1
    <3>2. {p.row} \subseteq Rules /\ Cardinality({p.row}) <= 1 /\ Cardinality({}) = 0
      BY <1>3, CachedAlone, FS_EmptySet, Zenon
    <3>3. cached' \subseteq Rules /\ Cardinality(cached') <= 1
      BY <3>1, <3>2
    <3>4. strayed' \in BOOLEAN /\ (strayed => strayed') /\ (~strayed' => (late' = {} => cached' \subseteq Coming))
      BY <2>1, EditTypes, Zenon
    <3>5. cached' \subseteq cached \cup {p.row}
      BY <3>1
    <3>6. gate' \in BOOLEAN /\ trigUsed' \in [changes : 0..TrigChanges, faults : 0..TrigFaults]
      BY <1>3, <2>1, EditTypes
    <3>7. QED
      BY <3>3, <3>4, <3>5, <3>6
  <2>2. CASE Hiccup /\ strayed' = TRUE /\ UNCHANGED <<cached, gate>>
    <3>1. trigUsed' \in [changes : 0..TrigChanges, faults : 0..TrigFaults]
      BY <2>2, HiccupTyped
    <3>2. QED
      BY <2>2, <3>1, EditTypes
  <2>3. QED
    BY <2>1, <2>2 DEF Renew
<1>6. TrigTypeOK'
  <2>1. edit \in [at : {"none", "read", "wrote"}, copy : Rules, gone : SUBSET TrigChats]
    BY DEF TrigInv, TrigTypeOK
  <2>2. late' \subseteq [n : 0..TrigChanges, row : Rules, on : BOOLEAN]
    BY <1>1, EditTypes
  <2>3. QED
    BY <1>1, <1>5, <2>1, <2>2, EditTypes, ApartTyped
<1>7. Evaluated' /\ WriterKnows' /\ EditKnows' /\ MindMatches' /\ FiresAreAccounted'
  <2>1. /\ edit'.at = "wrote" => writer = {}
        /\ edit'.at = "wrote" /\ ~raced' =>
              \A c \in TrigChats \ edit'.gone : edit'.copy.left[c] = rules'.left[c]
    BY <1>1 DEF TrigInv, Evaluated, EditKnows
  <2>2. NoneLeft(rules') /\ NoneLeft(edit'.copy)
    BY <1>1, EditTypes DEF NoneLeft
  <2>3. QED
    BY <1>1, <1>2, <2>1, <2>2, RowChanges
<1>8. AllRest'
  <2>1. \A q \in Rows' : q \in Rows
    BY <1>1, <1>4, <1>5 DEF Rows
  <2>2. \A n \in hushed' : Rests(n) => Rests(n)'
    BY <1>2 DEF Rests, Matches, MatchesChat, MatchesUnknown
  <2>3. QED
    BY <1>1, <1>4, <1>5, <2>1, <2>2, RestKept DEF TrigInv
<1>9. QED
  BY <1>6, <1>7, <1>8 DEF TrigInv

\* A tool of a turn.
LEMMA FlushesKeep ==
  ASSUME TrigInv, NEW r \in Rules, NEW b \in Rules, NEW gone \in SUBSET TrigChats,
         Flushes(r, b, gone), NoneLeft(r), raced' \in BOOLEAN, raced => raced',
         ~raced' => \A c \in TrigChats \ gone : r.left[c] = rules.left[c]
  PROVE  TrigInv'
<1>1. /\ writer = {} /\ edit' = [at |-> "wrote", copy |-> r, gone |-> gone]
      /\ Apart /\ UNCHANGED <<rules, on, late, deleted>> /\ Syncs(b) /\ Hears
  BY DEF Flushes, RowHeld
<1>2. UNCHANGED <<at, mine, tries, writer, armed, wasted, misled>>
  BY <1>1 DEF Apart
<1>3. edit' \in [at : {"none", "read", "wrote"}, copy : Rules, gone : SUBSET TrigChats] /\ edit'.copy = r /\ edit'.gone = gone
  BY <1>1
<1>4. TrigTypeOK'
  <2>1. /\ cached' \subseteq Rules /\ Cardinality(cached') <= 1
        /\ gate' \in BOOLEAN /\ strayed' \in BOOLEAN
        /\ trigUsed' \in [changes : 0..TrigChanges, faults : 0..TrigFaults]
    BY <1>1, SyncsKeeps
  <2>2. hushed' \subseteq hushed
    BY <1>1 DEF Hears
  <2>3. QED
    BY <1>1, <1>3, <2>1, <2>2, EditTypes, ApartTyped
<1>5. Evaluated' /\ WriterKnows' /\ EditKnows' /\ MindMatches' /\ FiresAreAccounted'
  <2>1. NoneLeft(rules') /\ NoneLeft(edit'.copy)
    BY <1>1, <1>3, EditTypes
  <2>2. QED
    BY <1>1, <1>2, <1>3, <2>1, RowChanges
<1>6. AllRest'
  BY <1>1, <1>2, SyncsRest
<1>7. QED
  BY <1>4, <1>5, <1>6 DEF TrigInv

LEMMA ToolsKeep ==
  ASSUME TrigInv, NEW c \in TrigChats, TurnDeletes(c) \/ TurnPauses(c)
  PROVE  TrigInv'
<1>1. CASE TurnDeletes(c)
  <2> DEFINE q == Without(edit.copy, c)
             r == [q EXCEPT !.paused = rules.paused]
             own == [edit.copy EXCEPT !.paused = rules.paused]
  <2>1. Flushes(r, q, {c}) /\ raced' = (raced \/ own # rules)
    BY <1>1 DEF TurnDeletes, Aged
  <2>2. q \in Rules /\ NoneLeft(q) /\ \A d \in TrigChats : d # c => q.left[d] = edit.copy.left[d]
    BY EditTypes, DeletedShape
  <2>3. own.left = edit.copy.left
    BY EditTypes, PausedShape
  <2> HIDE DEF q, own
  <2>4. r \in Rules /\ r.left = q.left /\ NoneLeft(r)
    BY <2>2, EditTypes, PausedShape
  <2> HIDE DEF r
  <2>5. raced' \in BOOLEAN /\ (raced => raced') /\ (~raced' => own = rules)
    BY <2>1, EditTypes, Zenon
  <2>6. ~raced' => \A d \in TrigChats \ {c} : r.left[d] = rules.left[d]
    BY <2>1, <2>2, <2>3, <2>4, <2>5
  <2>7. QED
    BY <2>1, <2>2, <2>4, <2>5, <2>6, FlushesKeep
<1>2. CASE TurnPauses(c)
  <2> DEFINE shut == IF c \in edit.copy.paused THEN edit.copy.paused \ {c} ELSE edit.copy.paused \cup {c}
             r == [rules EXCEPT !.paused = shut]
             q == [edit.copy EXCEPT !.paused = shut]
  <2>1. Flushes(r, q, {}) /\ raced' = raced
    BY <1>2 DEF TurnPauses
  <2>2. shut \in SUBSET TrigChats
    BY EditTypes
  <2> HIDE DEF shut
  <2>3. r \in Rules /\ r.left = rules.left /\ NoneLeft(r) /\ q \in Rules
    BY <2>2, EditTypes, PausedShape
  <2> HIDE DEF r, q
  <2>4. QED
    BY <2>1, <2>3, EditTypes, FlushesKeep
<1>3. QED
  BY <1>1, <1>2

LEMMA TurnsEndKeep ==
  ASSUME TrigInv, TurnCommits \/ TurnFails
  PROVE  TrigInv'
<1>1. edit.at = "wrote" /\ writer = {} /\ edit' = NoEdit /\ Apart /\ Coming = {edit.copy}
  BY DEF TurnCommits, TurnFails, TrigInv, Evaluated, Coming
<1>2. UNCHANGED <<at, mine, tries, writer, armed, wasted, misled>>
  BY <1>1 DEF Apart
<1>3. CASE TurnCommits
  <2>1. /\ rules' = edit.copy /\ deleted' = deleted \cup edit.gone
        /\ UNCHANGED <<on, gate, cached, late, hushed, raced, strayed, trigUsed>>
    BY <1>3 DEF TurnCommits
  <2>2. TrigTypeOK'
    BY <1>1, <2>1, EditTypes, ApartTyped
  <2>3. ~raced' => \A c \in TrigChats \ deleted' : rules'.left[c] = rules.left[c]
    BY <1>1, <2>1 DEF TrigInv, EditKnows
  <2>4. Evaluated' /\ WriterKnows' /\ EditKnows' /\ MindMatches' /\ FiresAreAccounted'
    BY <1>1, <1>2, <2>1, <2>3, EditTypes, RowChanges
  <2>5. Coming' = Coming
    BY <1>1, <1>2, <2>1, EditTypes DEF Coming
  <2>6. \A q \in Rows' : q \in Rows
    BY <1>1, <2>1, <2>5 DEF Rows
  <2>7. \A n \in hushed' : Rests(n) => Rests(n)'
    BY <1>2 DEF Rests, Matches, MatchesChat, MatchesUnknown
  <2>8. ~strayed' => (late' = {} => cached' \subseteq Coming')
    BY <2>1, <2>5 DEF TrigInv, AllRest
  <2>9. AllRest'
    BY <2>1, <2>6, <2>7, <2>8, RestKept DEF TrigInv
  <2>10. QED
    BY <2>2, <2>4, <2>9 DEF TrigInv
<1>4. CASE TurnFails
  <2>1. Hiccup /\ strayed' = TRUE /\ UNCHANGED <<rules, on, gate, cached, late, hushed, deleted, raced>>
    BY <1>4 DEF TurnFails
  <2>2. TrigTypeOK'
    BY <1>1, <2>1, EditTypes, HiccupTyped, ApartTyped
  <2>3. Evaluated' /\ WriterKnows' /\ EditKnows' /\ MindMatches' /\ FiresAreAccounted'
    BY <1>1, <1>2, <2>1, EditTypes, RowChanges
  <2>4. AllRest'
    BY <2>1 DEF AllRest
  <2>5. QED
    BY <2>2, <2>3, <2>4 DEF TrigInv
<1>5. QED
  BY <1>3, <1>4

\* Steps that leave all but the gate alone.
LEMMA GateKeeps ==
  ASSUME TrigInv, gate' \in BOOLEAN,
         UNCHANGED <<rules, on, cached, at, mine, writer, edit, late, tries, charges, armed,
                     wasted, hushed, deleted, raced, misled, strayed, trigUsed>>
  PROVE  TrigInv'
<1>1. TrigTypeOK'
  BY Zenon DEF TrigInv, TrigTypeOK
<1>2. /\ Evaluated' = Evaluated /\ WriterKnows' = WriterKnows /\ MindMatches' = MindMatches
      /\ EditKnows' = EditKnows /\ FiresAreAccounted' = FiresAreAccounted
  BY DEF Evaluated, WriterKnows, MindMatches, EditKnows, FiresAreAccounted, ByEntry,
     NoneLeft, Matches, MatchesChat, MatchesUnknown
<1>3. AllRest' = AllRest
  BY DEF AllRest, Rows, Coming, Rests, Matches, MatchesChat, MatchesUnknown
<1>4. QED
  BY <1>1, <1>2, <1>3 DEF TrigInv

\* The commit: the row is what the cached copy was to be, and what was spent
\* is owed.
LEMMA CommitRulesKeeps ==
  ASSUME TrigInv, NEW m \in TrigMessages, CommitRules(m)
  PROVE  TrigInv'
<1> DEFINE s == IF at[m] = "registering" THEN "registered" ELSE "spent"
           own == [mine[m] EXCEPT !.paused = rules.paused]
           c == TrigChatOf[m]
<1>1. /\ at \in [TrigMessages -> Steps] /\ mine \in [TrigMessages -> Rules]
      /\ writer \subseteq TrigMessages /\ hushed \subseteq TrigMessages
      /\ rules.paused \in SUBSET TrigChats /\ c \in TrigChats
      /\ rules \in Rules /\ rules.left \in [TrigChats -> 0..MaxLeft] /\ MaxLeft \in Nat
  BY TriggersAssumption DEF TrigInv, TrigTypeOK, Rules
<1>2. /\ at[m] \in {"registering", "spending"} /\ Goes(m, s)
      /\ rules' = (IF writer = {m} THEN own ELSE rules) /\ writer' = writer \ {m}
      /\ hushed' = hushed /\ edit' = edit /\ late' = late
      /\ mine' = mine /\ cached' = cached /\ tries' = tries
      /\ armed' = armed /\ wasted' = wasted /\ deleted' = deleted
      /\ raced' = raced /\ misled' = misled /\ strayed' = strayed
      /\ UNCHANGED <<on, gate, charges, trigUsed>>
  BY DEF CommitRules
<1>3. /\ at'[m] = s /\ at' \in [TrigMessages -> Steps]
      /\ \A n \in TrigMessages : n # m => at'[n] = at[n]
  BY <1>1, <1>2 DEF Goes, Steps
<1>4. writer = {} \/ (\E w \in TrigMessages : writer = {w})
  <2>1. IsFiniteSet(writer) /\ Cardinality(writer) <= 1
    BY TriggersAssumption, FS_Subset DEF TrigInv, TrigTypeOK
  <2>2. Cardinality(writer) \in Nat
    BY <2>1, FS_CardinalityType
  <2>3. Cardinality(writer) = 0 \/ Cardinality(writer) = 1
    BY <2>1, <2>2
  <2>4. writer = {} \/ \E w : writer = {w}
    BY <2>1, <2>3, FS_EmptySet, FS_Singleton
  <2>5. QED
    BY <1>1, <2>4
<1>5. own.left = mine[m].left /\ own.auto = mine[m].auto /\ own \in Rules /\ NoneLeft(own)
  BY <1>1, SameMind, PausedShape
<1> HIDE DEF own
<1>6. rules' \in Rules /\ NoneLeft(rules')
  BY <1>1, <1>2, <1>5, SameMind
<1>7. TrigTypeOK'
  <2>1. writer' \subseteq TrigMessages /\ Cardinality(writer') <= 1
    <3>2. Cardinality({}) = 0
      BY FS_EmptySet
    <3>3. Cardinality(writer) <= 1
      BY DEF TrigInv, TrigTypeOK
    <3>4. CASE writer' = {}
      BY <3>2, <3>4
    <3>5. CASE writer' = writer
      BY <1>1, <3>3, <3>5
    <3>6. QED
      BY <1>2, <1>4, <3>4, <3>5
  <2>2. hushed' \subseteq TrigMessages
    BY <1>1, <1>2
  <2>3. QED
    BY <1>2, <1>3, <1>6, <2>1, <2>2, Zenon DEF TrigInv, TrigTypeOK
<1>8. Evaluated'
  <2>1. \A n \in TrigMessages : tries'[n] < MaxAttempts \/ at'[n] = "dropped"
    <3>1. tries[m] < MaxAttempts
      BY <1>2 DEF TrigInv, Evaluated
    <3>2. QED
      BY <1>2, <1>3, <3>1 DEF TrigInv, Evaluated
  <2>2. NoneLeft(rules)' /\ NoneLeft(edit.copy)' /\ \A n \in TrigMessages : NoneLeft(mine[n])'
    BY <1>2, <1>6 DEF TrigInv, Evaluated, NoneLeft
  <2>3. \A w \in writer' : at'[w] \in {"registering", "spending"}
    BY <1>1, <1>2, <1>3 DEF TrigInv, Evaluated
  <2>4. edit'.at = "wrote" => writer' = {}
    BY <1>2 DEF TrigInv, Evaluated
  <2>5. QED
    BY <2>1, <2>2, <2>3, <2>4 DEF Evaluated
<1>9. m \notin writer => rules' = rules /\ writer' = writer
  BY <1>2
<1>10. m \in writer => writer = {m} /\ rules' = own /\ writer' = {}
  BY <1>2, <1>4
<1>11. WriterKnows'
  <2>1. CASE m \in writer
    BY <1>10, <2>1 DEF WriterKnows
  <2>2. CASE m \notin writer
    BY <1>1, <1>2, <1>3, <1>9, <2>2 DEF TrigInv, WriterKnows
  <2>3. QED
    BY <2>1, <2>2
<1>12. MindMatches'
  <2> SUFFICES ASSUME ~misled, NEW n \in TrigMessages
               PROVE  /\ at'[n] \in {"checked", "charged"} => Matches(mine[n], n)
                      /\ at'[n] \in {"registering", "registered"} => MatchesChat(mine[n], TrigChatOf[n])
                      /\ at'[n] = "spending" /\ n \notin writer' => TrigChatOf[n] \in ToSet(mine[n].auto)
    BY <1>2 DEF MindMatches, Matches, MatchesChat, MatchesUnknown
  <2>1. CASE n = m
    BY <1>2, <1>3, <2>1 DEF TrigInv, MindMatches
  <2>2. CASE n # m
    BY <1>2, <1>3, <2>2 DEF TrigInv, MindMatches
  <2>3. QED
    BY <2>1, <2>2
<1>13. AllRest'
  <2>1. Coming' = Coming /\ \A q \in Rows' : q \in Rows
    <3>1. CASE m \in writer
      <4>1. edit.at # "wrote" /\ edit' = edit
        BY <1>2, <3>1 DEF TrigInv, Evaluated
      <4>2. Coming = {own} /\ Coming' = {own}
        BY <1>10, <3>1, <4>1 DEF Coming, own
      <4>3. QED
        BY <1>2, <1>10, <3>1, <4>2 DEF Rows
    <3>2. CASE m \notin writer
      <4>1. Coming' = Coming
        BY <1>2, <1>9, <3>2, SameComing
      <4>2. QED
        BY <1>2, <1>9, <3>2, <4>1 DEF Rows
    <3>3. QED
      BY <3>1, <3>2
  <2>2. \A n \in hushed' : Rests(n) => Rests(n)'
    <3>1. \A n \in hushed : Rests(n) => at'[n] = at[n] /\ mine'[n] = mine[n]
      BY <1>1, <1>2, <1>3 DEF Rests
    <3>2. QED
      BY <1>2, <3>1 DEF Rests, Matches, MatchesChat, MatchesUnknown
  <2>3. ~strayed' => (late' = {} => cached' \subseteq Coming')
    BY <1>2, <2>1 DEF TrigInv, AllRest
  <2>4. QED
    BY <1>2, <2>1, <2>2, <2>3, RestKept DEF TrigInv
<1>14. FiresAreAccounted'
  <2> SUFFICES ASSUME ~raced, ~misled
               PROVE  FiresAreAccounted'
    BY <1>2 DEF FiresAreAccounted
  <2>1. CASE at[m] = "registering"
    <3>1. rules'.left = rules.left
      BY <1>2, <1>5, <2>1 DEF TrigInv, WriterKnows
    <3>2. Thinks(m, mine[m]) /\ s \in Steps /\ s # "spent"
      BY <1>2, <2>1, SameMind DEF Thinks, Steps
    <3>3. QED
      BY <1>2, <2>1, <3>1, <3>2, SameMind, FiresKept DEF TrigInv, TrigTypeOK
  <2>2. CASE at[m] = "spending"
    <3> SUFFICES ASSUME NEW d \in TrigChats \ deleted
                 PROVE  MaxLeft - rules'.left[d] = armed[d] + wasted[d] + Cardinality(Owing(d)')
      BY <1>2 DEF FiresAreAccounted, Owing, ByEntry
    <3>1. MaxLeft - rules.left[d] = armed[d] + wasted[d] + Cardinality(Owing(d))
      BY DEF TrigInv, FiresAreAccounted, Owing
    <3>2. /\ IsFiniteSet(Owing(d)) /\ Cardinality(Owing(d)) \in Nat
          /\ armed[d] \in Nat /\ wasted[d] \in Nat /\ rules.left[d] \in 0..MaxLeft
      BY <1>1, TriggersAssumption, FS_Subset, FS_CardinalityType DEF Owing, TrigInv, TrigTypeOK
    <3>3. m \notin Owing(d)
      BY <2>2 DEF Owing
    <3>4. CASE d = c /\ c \notin ToSet(mine[m].auto)
      <4>1. m \in writer
        BY <2>2, <3>4 DEF TrigInv, MindMatches
      <4>2. rules.left[c] > 0 /\ rules'.left = [rules.left EXCEPT ![c] = @ - 1]
        BY <1>5, <1>10, <2>2, <4>1 DEF TrigInv, WriterKnows
      <4>3. rules'.left[d] = rules.left[d] - 1
        BY <1>1, <3>4, <4>2
      <4>4. Owing(d)' = Owing(d) \cup {m}
        BY <1>2, <1>3, <2>2, <3>4 DEF Owing, ByEntry
      <4>5. Cardinality(Owing(d)') = Cardinality(Owing(d)) + 1
        BY <3>2, <3>3, <4>4, FS_AddElement
      <4>6. QED
        BY <1>1, <3>1, <3>2, <4>3, <4>5
    <3>5. CASE ~(d = c /\ c \notin ToSet(mine[m].auto))
      <4>1. Owing(d)' = Owing(d)
        BY <1>2, <1>3, <2>2, <3>5 DEF Owing, ByEntry
      <4>2. rules'.left[d] = rules.left[d]
        <5>1. CASE m \notin writer
          BY <1>9, <5>1
        <5>2. CASE m \in writer
          <6>1. /\ rules.left[c] > 0 /\ mine[m].left = [rules.left EXCEPT ![c] = @ - 1]
                /\ mine[m].auto = rules.auto
            BY <2>2, <5>2 DEF TrigInv, WriterKnows
          <6>2. c \notin ToSet(mine[m].auto)
            BY <1>1, <6>1, SameMind DEF NoneLeft
          <6>3. d # c
            BY <3>5, <6>2
          <6>4. rules'.left = mine[m].left
            BY <1>5, <1>10, <5>2
          <6>5. QED
            BY <1>1, <6>1, <6>3, <6>4
        <5>3. QED
          BY <5>1, <5>2
      <4>3. QED
        BY <3>1, <4>1, <4>2
    <3>6. QED
      BY <3>4, <3>5
  <2>3. QED
    BY <1>2, <2>1, <2>2
<1>15. EditKnows'
  <2>1. edit.at = "wrote" => rules' = rules
    BY <1>9 DEF TrigInv, Evaluated
  <2>2. QED
    BY <1>2, <2>1 DEF TrigInv, EditKnows
<1>16. QED
  BY <1>7, <1>8, <1>11, <1>12, <1>13, <1>14, <1>15 DEF TrigInv

-----------------------------------------------------------------------------
LEMMA TrigInitHolds == TrigInit => TrigInv
<1> SUFFICES ASSUME TrigInit PROVE TrigInv
  OBVIOUS
<1>1. FirstRules \in Rules /\ ToSet(FirstRules.auto) = {} /\ \A c \in TrigChats : FirstRules.left[c] = MaxLeft
  BY TriggersAssumption DEF Rules, FirstRules, ToSet
<1>2. Cardinality({}) = 0
  BY FS_EmptySet
<1>3. TrigTypeOK
  <2>1. /\ trigUsed \in [changes : 0..TrigChanges, faults : 0..TrigFaults]
        /\ tries \in [TrigMessages -> 0..MaxAttempts] /\ at \in [TrigMessages -> Steps]
        /\ armed \in [TrigChats -> Nat] /\ wasted \in [TrigChats -> Nat] /\ charges \in Nat
    BY TriggersAssumption DEF TrigInit, TrigFresh, Steps
  <2>2. /\ on \in BOOLEAN /\ gate \in BOOLEAN /\ raced \in BOOLEAN /\ misled \in BOOLEAN /\ strayed \in BOOLEAN
    BY Zenon DEF TrigInit, TrigFresh
  <2>3. /\ rules \in Rules /\ mine \in [TrigMessages -> Rules] /\ cached \subseteq Rules
        /\ writer \subseteq TrigMessages /\ hushed \subseteq TrigMessages /\ deleted \subseteq TrigChats
        /\ edit \in [at : {"none", "read", "wrote"}, copy : Rules, gone : SUBSET TrigChats] /\ late = {}
    BY <1>1 DEF TrigInit, TrigFresh, NoEdit
  <2>4. Cardinality(cached) <= 1 /\ Cardinality(writer) <= 1
    BY <1>2 DEF TrigInit, TrigFresh
  <2>5. QED
    BY <2>1, <2>2, <2>3, <2>4, Zenon DEF TrigTypeOK
<1>4. Evaluated
  BY <1>1, TriggersAssumption DEF TrigInit, TrigFresh, NoEdit, Evaluated, NoneLeft
<1>5. WriterKnows /\ EditKnows /\ MindMatches /\ AllRest
  BY DEF TrigInit, TrigFresh, NoEdit, WriterKnows, EditKnows, MindMatches, AllRest
<1>6. FiresAreAccounted
  <2>1. \A c \in TrigChats : {m \in TrigMessages : TrigChatOf[m] = c /\ at[m] = "spent" /\ ByEntry(m)} = {}
    BY DEF TrigInit, TrigFresh
  <2>2. \A c \in TrigChats : MaxLeft - rules.left[c] = 0 /\ armed[c] = 0 /\ wasted[c] = 0
    BY <1>1, TriggersAssumption DEF TrigInit, TrigFresh
  <2>3. QED
    BY <1>2, <2>1, <2>2 DEF FiresAreAccounted
<1>7. QED
  BY <1>3, <1>4, <1>5, <1>6 DEF TrigInv

LEMMA TrigStep == TrigInv /\ [TrigNext]_trigVars => TrigInv'
<1> SUFFICES ASSUME TrigInv, [TrigNext]_trigVars PROVE TrigInv'
  OBVIOUS
<1>1. ASSUME NEW m \in TrigMessages,
             \/ Queue(m) \/ LoadCfg(m) \/ FillCache(m) \/ Recheck(m) \/ Charge(m)
             \/ Register(m) \/ Spend(m) \/ CommitRules(m) \/ Arm(m)
             \/ Fail(m) \/ WorkerDies(m)
      PROVE  TrigInv'
  BY <1>1, QueueKeeps, LoadCfgKeeps, FillCacheKeeps, RecheckKeeps, ChargeKeeps, RegisterKeeps,
     SpendKeeps, CommitRulesKeeps, ArmKeeps, BreaksKeep
<1>2. ASSUME NEW c \in TrigChats, OwnerDeletes(c) \/ Resume(c) \/ TurnDeletes(c) \/ TurnPauses(c)
      PROVE  TrigInv'
  BY <1>2, RequestsKeep, ToolsKeep
<1>3. ASSUME NEW p \in late, Renew(p) PROVE TrigInv'
  BY <1>3, RenewKeeps
<1>4. ASSUME ReadRow \/ Switch \/ TurnCommits \/ TurnFails PROVE TrigInv'
  BY <1>4, ReadRowKeeps, SwitchKeeps, TurnsEndKeep
<1>5. CASE Reconcile
  BY <1>5, EditTypes, GateKeeps DEF Reconcile
<1>6. CASE UNCHANGED trigVars
  BY <1>6, EditTypes, GateKeeps DEF trigVars
<1>7. QED
  BY <1>1, <1>2, <1>3, <1>4, <1>5, <1>6 DEF TrigNext

LEMMA TrigAlways == TrigSpec => [](TrigTypeOK /\ FiresAreAccounted /\ QuietIsKept)
<1>1. TrigInv => TrigTypeOK /\ FiresAreAccounted /\ QuietIsKept
  BY DEF TrigInv, AllRest, Rests, QuietIsKept
<1>2. QED
  BY <1>1, TrigInitHolds, TrigStep, PTL DEF TrigSpec

\* However evaluations, commits, failures, the owner's requests and the tools of
\* the agent's turns interleave, no fire of a trigger is lost but to a failure
\* between commit and arming, and a message whose trigger is gone wakes nobody;
\* but after a write from an aged copy, a match the row no longer had, or a
\* renewal of the cached copy that failed, came out of order or ran ahead of a
\* commit that never came (the trigger engine, its queue and its cache).
THEOREM TriggersHoldAlways == TrigSpec => []TriggersHold
<1>1. TrigTypeOK /\ FiresAreAccounted /\ QuietIsKept => TriggersHold
  BY DEF TriggersHold
<1>2. QED
  BY <1>1, TrigAlways, PTL

-----------------------------------------------------------------------------
(***************************************************************************)
(* Handles.  The log of a user is what is left of all their renames when   *)
(* those that left the window are dropped; a handle that was let go is     *)
(* held, or whoever has it, or its hold, is excused.                       *)
(***************************************************************************)

Asking(r) == rename[r].step \in {"check", "write"}

LoginRecords == [step : {"unsent", "pick", "create", "refetch", "in", "failed"},
                 name : Names \cup {NoName}, tries : Nat]
RenameRecords == [step : {"unsent", "check", "write", "done", "refused"},
                  user : Phones \cup {NoOne}, to : Names \cup {NoName},
                  old : Names \cup {NoName}, log : Seq(Days), since : Days]

\* What HandlesTypeOK has no room for.
HandlesTyped ==
    /\ changeLog \in [Phones -> Seq(Days)] /\ changed \in [Phones -> Seq(Days)]
    /\ login \in [Logins -> LoginRecords] /\ rename \in [Renames -> RenameRecords]
    /\ released \subseteq [user : Phones, name : Names, day : Days, since : Days]
    /\ triesMade \subseteq Logins
    /\ \A l \in Logins : login[l].step = "create" => login[l].name \in Names
    /\ \A r \in Renames : Asking(r) => /\ rename[r].user \in Phones /\ rename[r].to \in Names
                                       /\ name[rename[r].user] \in Names

\* A log is what is left of all the renames of its user when the first ones,
\* which have left the window, are dropped.
IsLogOf(days, all) ==
    LET k == Len(all) - Len(days) IN
    /\ k >= 0
    /\ \A i \in 1..Len(all) : IF i <= k THEN day - all[i] >= ChangeDays ELSE all[i] = days[i - k]
    /\ \A i \in 1..Len(all) : all[i] <= day
    /\ \A i, j \in 1..Len(all) : i <= j => all[i] <= all[j]

LogIsSuffix(p) == IsLogOf(changeLog[p], changed[p])

\* A rename that no other of its user raced goes by the row as it is.
RowIsFresh(r) ==
    LET u == rename[r].user IN
    Asking(r) /\ u \notin doubled =>
        /\ rename[r].log = changeLog[u] /\ QuotaLeft(rename[r].log) /\ rename[r].old = name[u]
        /\ \A q \in Renames : Asking(q) /\ rename[q].user = u => q = r

\* Who let go before it of the handle it will let go of asked before it did.
AsksLast(r) ==
    Asking(r) /\ rename[r].user \notin doubled =>
        \A e \in released : e.name = rename[r].old => e.since <= rename[r].since

LogsHold ==
    /\ \A p \in Phones \ doubled : LogIsSuffix(p)
    /\ \A r \in Renames : RowIsFresh(r)

\* No one who had the handle since the release e has renamed twice at once.
CleanSince(e) ==
    /\ \A f \in released : f.name = e.name /\ f.day >= e.day => f.user \notin doubled
    /\ day < e.since + GraceDays

Excused(e) == {e.user} \cup stale \cup doubled

HoldsHold ==
    /\ \A p, q \in Phones : name[p] = name[q] => p = q \/ name[p] = NoName
    /\ \A e \in released : CleanSince(e) =>
          /\ HeldBy(e.name) \subseteq Excused(e)
          /\ HeldBy(e.name) = {} => \/ hold[e.name].for \in doubled
                                    \/ /\ hold[e.name].until >= e.since + GraceDays
                                       /\ hold[e.name].for \in Excused(e)
    /\ \A e \in released : e.day <= day /\ e.since <= day
    /\ \A r \in Renames : rename[r].since <= day /\ AsksLast(r)
    /\ \A l \in triesMade : name[PhoneOf[l]] # NoName
    /\ \A l, k \in triesMade : PhoneOf[l] = PhoneOf[k] => l = k

HandlesInv == HandlesTypeOK /\ HandlesTyped /\ LogsHold /\ HoldsHold

-----------------------------------------------------------------------------
LEMMA WindowCount ==
  ASSUME NEW days \in Seq(Days), day \in Days
  PROVE  /\ InWindow(days) \subseteq 1..Len(days) /\ IsFiniteSet(InWindow(days))
         /\ Cardinality(InWindow(days)) \in 0..Len(days) /\ Len(days) \in Nat
<1>1. InWindow(days) \subseteq 1..Len(days) /\ Len(days) \in Nat
  BY DEF InWindow
<1>0. \A n \in Nat : IsFiniteSet(1..n) /\ Cardinality(1..n) = n
  <2> TAKE n \in Nat
  <2>1. 1 \in Int /\ n \in Int
    OBVIOUS
  <2>2. IsFiniteSet(1..n) /\ Cardinality(1..n) = IF 1 > n THEN 0 ELSE n - 1 + 1
    BY <2>1, FS_Interval
  <2>3. QED
    BY <2>2
<1>2. IsFiniteSet(1..Len(days)) /\ Cardinality(1..Len(days)) = Len(days)
  BY <1>0, <1>1
<1>3. IsFiniteSet(InWindow(days)) /\ Cardinality(InWindow(days)) <= Len(days)
  BY <1>1, <1>2, FS_Subset
<1>4. Cardinality(InWindow(days)) \in Nat
  BY <1>3, FS_CardinalityType
<1>5. QED
  BY <1>1, <1>3, <1>4

\* A set of numbers that has everything above each of its members is the last
\* ones.
LEMMA LastOnes ==
  ASSUME NEW n \in Nat, NEW K, K \subseteq 1..n, \A i \in K : \A j \in 1..n : i <= j => j \in K
  PROVE  \A i \in K : i > n - Cardinality(K)
<1> TAKE i \in K
<1>1. i \in Int /\ 1 <= i /\ i <= n /\ i..n \subseteq K
  OBVIOUS
<1>2. Cardinality(i..n) = n - i + 1
  BY <1>1, FS_Interval
<1>3. IsFiniteSet(K)
  <2>1. 1 \in Int /\ n \in Int
    OBVIOUS
  <2>2. IsFiniteSet(1..n)
    BY <2>1, FS_Interval
  <2>3. QED
    BY <2>2, FS_Subset
<1>4. Cardinality(i..n) <= Cardinality(K) /\ Cardinality(K) \in Nat
  BY <1>1, <1>3, FS_Subset, FS_CardinalityType
<1>5. QED
  BY <1>1, <1>2, <1>4

LEMMA RecentShape ==
  ASSUME NEW days \in Seq(Days), day \in Days, NEW c, c = Cardinality(InWindow(days))
  PROVE  /\ Recent(days) \in Seq(Days) /\ Len(Recent(days)) = c /\ c \in 0..Len(days) /\ Len(days) \in Nat
         /\ \A i \in 1..c : Recent(days)[i] = days[Len(days) - c + i]
<1>1. c \in 0..Len(days) /\ Len(days) \in Nat
  BY WindowCount
<1>2. Recent(days) = SubSeq(days, Len(days) - c + 1, Len(days))
  BY DEF Recent
<1>3. /\ SubSeq(days, Len(days) - c + 1, Len(days)) \in Seq(Days)
      /\ Len(SubSeq(days, Len(days) - c + 1, Len(days))) = c
      /\ \A i \in 1..c : SubSeq(days, Len(days) - c + 1, Len(days))[i] = days[Len(days) - c + i]
  BY <1>1
<1>4. QED
  BY <1>1, <1>2, <1>3

\* The log as WriteName leaves it.
LogWritten(old) ==
    LET days == Append(Recent(old), day)
    IN  SubSeq(days, 1 + Len(days) - (IF Len(days) < MaxChanges THEN Len(days) ELSE MaxChanges), Len(days))

LEMMA LogWrittenShape ==
  ASSUME NEW old \in Seq(Days), day \in Days
  PROVE  /\ LogWritten(old) \in Seq(Days) /\ Len(LogWritten(old)) <= MaxChanges
         /\ QuotaLeft(old) => LogWritten(old) = Append(Recent(old), day)
<1> DEFINE days == Append(Recent(old), day)
           m == IF Len(days) < MaxChanges THEN Len(days) ELSE MaxChanges
           s == SubSeq(days, 1 + Len(days) - m, Len(days))
<1>1. /\ Recent(old) \in Seq(Days) /\ Len(Recent(old)) = Cardinality(InWindow(old))
      /\ Cardinality(InWindow(old)) \in Nat
  BY RecentShape
<1>2. days \in Seq(Days) /\ Len(days) = Cardinality(InWindow(old)) + 1 /\ Len(days) \in Nat
  BY <1>1
<1>3. LogWritten(old) = s
  BY DEF LogWritten
<1>4. MaxChanges \in Nat
  BY HandlesAssumption
<1>5. m \in Nat /\ m <= MaxChanges /\ m <= Len(days)
  BY <1>2, <1>4
<1> HIDE DEF days
<1>6. QuotaLeft(old) => m = Len(days)
  BY <1>1, <1>2, <1>4 DEF QuotaLeft
<1> HIDE DEF m
<1>7. s \in Seq(Days) /\ Len(s) = m
  BY <1>2, <1>5
<1>8. m = Len(days) => s = days
  BY <1>2, <1>7
<1>9. QED
  BY <1>3, <1>5, <1>6, <1>7, <1>8 DEF days

LEMMA SuffixStays ==
  ASSUME HandlesInv, UNCHANGED <<changeLog, changed, day>>, doubled \subseteq doubled'
  PROVE  \A p \in Phones \ doubled' : LogIsSuffix(p)'
<1> TAKE p \in Phones \ doubled'
<1>1. LogIsSuffix(p)
  BY DEF HandlesInv, LogsHold
<1>2. QED
  BY <1>1 DEF LogIsSuffix, IsLogOf

\* An unfilled quota stays so as days pass.
LEMMA QuotaStays ==
  ASSUME NEW days \in Seq(Days), day \in Days, day' \in Days, day <= day', QuotaLeft(days)
  PROVE  QuotaLeft(days)'
<1>1. ChangeDays \in Nat /\ MaxChanges \in Nat
  BY HandlesAssumption
<1>2. \A i \in DOMAIN days : days[i] \in Days
  OBVIOUS
<1>3. day \in Int /\ day' \in Int /\ \A i \in DOMAIN days : days[i] \in Int
  BY <1>2, HandlesAssumption DEF Days
<1>4. InWindow(days)' \subseteq InWindow(days)
  BY <1>1, <1>3 DEF InWindow
<1>5. IsFiniteSet(InWindow(days)) /\ Cardinality(InWindow(days)) \in Nat
  BY WindowCount
<1>6. Cardinality(InWindow(days)') <= Cardinality(InWindow(days)) /\ Cardinality(InWindow(days)') \in Nat
  BY <1>4, <1>5, FS_Subset, FS_CardinalityType
<1>7. QED
  BY <1>1, <1>5, <1>6 DEF QuotaLeft

\* Steps that leave the handles and their holds alone.
LEMMA HoldsStay ==
  ASSUME HandlesInv, UNCHANGED <<name, hold, released, triesMade, day>>,
         doubled \subseteq doubled', stale \subseteq stale',
         \A r \in Renames : rename'[r].since <= day /\ AsksLast(r)'
  PROVE  HoldsHold'
<1>1. \A e \in released : CleanSince(e)' => CleanSince(e)
  BY DEF CleanSince
<1>2. \A e \in released : Excused(e) \subseteq Excused(e)'
  BY DEF Excused
<1>3. \A n : HeldBy(n)' = HeldBy(n)
  BY DEF HeldBy
<1>4. \A e \in released : CleanSince(e)' =>
        /\ HeldBy(e.name)' \subseteq Excused(e)'
        /\ HeldBy(e.name)' = {} => \/ hold[e.name].for \in doubled'
                                   \/ /\ hold[e.name].until >= e.since + GraceDays
                                      /\ hold[e.name].for \in Excused(e)'
  BY <1>1, <1>2, <1>3 DEF HandlesInv, HoldsHold
<1>5. QED
  BY <1>4 DEF HandlesInv, HoldsHold

\* When no rename is asked anew.
LEMMA StillLast ==
  ASSUME HandlesInv, UNCHANGED <<released, day>>, doubled \subseteq doubled',
         \A r \in Renames : /\ rename'[r].since = rename[r].since
                            /\ Asking(r)' => /\ Asking(r) /\ rename'[r].user = rename[r].user
                                             /\ rename'[r].old = rename[r].old
  PROVE  \A r \in Renames : rename'[r].since <= day /\ AsksLast(r)'
<1> TAKE r \in Renames
<1>1. rename[r].since <= day /\ AsksLast(r)
  BY DEF HandlesInv, HoldsHold
<1>2. \A e \in released' : e \in released
  OBVIOUS
<1>3. SUFFICES ASSUME Asking(r)', rename'[r].user \notin doubled',
                      NEW e \in released, e.name = rename'[r].old
               PROVE  e.since <= rename'[r].since
  BY <1>1, <1>2 DEF AsksLast, Asking
<1>4. QED
  BY <1>1, <1>3 DEF AsksLast, Asking

LEMMA LoginReadsKeeps ==
  ASSUME HandlesInv, NEW l \in Logins, LookUp(l) \/ (\E n \in Names : Pick(l, n) \/ PickUnasked(l, n)) \/ Refetch(l)
  PROVE  HandlesInv'
<1>1. /\ UNCHANGED <<name, triesMade, changeLog, hold, rename, changed, released, doubled, stale, day>>
      /\ \/ \E s \in {"in", "pick", "failed"} : login' = [login EXCEPT ![l].step = s]
         \/ \E n \in Names : login' = [login EXCEPT ![l].step = "create", ![l].name = n]
  BY DEF LookUp, Pick, PickUnasked, Refetch, LoginAt, HandlesStay
<1>2. /\ login' \in [Logins -> LoginRecords]
      /\ \A k \in Logins : login'[k].step = "create" => login'[k].name \in Names
  <2>1. /\ login \in [Logins -> LoginRecords] /\ login[l] \in LoginRecords
        /\ \A k \in Logins : login[k].step = "create" => login[k].name \in Names
    BY DEF HandlesInv, HandlesTyped
  <2>2. CASE \E s \in {"in", "pick", "failed"} : login' = [login EXCEPT ![l].step = s]
    <3>1. PICK s \in {"in", "pick", "failed"} : login' = [login EXCEPT ![l].step = s]
      BY <2>2
    <3>2. [login[l] EXCEPT !.step = s] \in LoginRecords /\ [login[l] EXCEPT !.step = s].step = s
      BY <2>1 DEF LoginRecords
    <3>3. QED
      BY <2>1, <3>1, <3>2
  <2>3. CASE \E n \in Names : login' = [login EXCEPT ![l].step = "create", ![l].name = n]
    <3>1. PICK n \in Names : login' = [login EXCEPT ![l].step = "create", ![l].name = n]
      BY <2>3
    <3>2. /\ [login[l] EXCEPT !.step = "create", !.name = n] \in LoginRecords
          /\ [login[l] EXCEPT !.step = "create", !.name = n].name = n
      BY <2>1 DEF LoginRecords
    <3>3. QED
      BY <2>1, <3>1, <3>2
  <2>4. QED
    BY <1>1, <2>2, <2>3
<1>3. HandlesTypeOK'
  BY <1>1, <1>2 DEF HandlesInv, HandlesTypeOK, LoginRecords
<1>4. HandlesTyped'
  BY <1>1, <1>2 DEF HandlesInv, HandlesTyped, Asking
<1>5. LogsHold'
  BY <1>1 DEF HandlesInv, LogsHold, LogIsSuffix, IsLogOf, RowIsFresh, Asking, QuotaLeft, InWindow
<1>6. HoldsHold'
  BY <1>1, HoldsStay, StillLast DEF Asking
<1>7. QED
  BY <1>3, <1>4, <1>5, <1>6 DEF HandlesInv

LEMMA CreateUserKeeps ==
  ASSUME HandlesInv, NEW l \in Logins, CreateUser(l)
  PROVE  HandlesInv'
<1> DEFINE p == PhoneOf[l]
           n == login[l].name
<1>1. /\ login[l].step = "create"
      /\ UNCHANGED <<changeLog, hold, rename, changed, released, doubled, day>>
      /\ p \in Phones /\ n \in Names /\ NoName \notin Names
  BY HandlesAssumption DEF CreateUser, HandlesInv, HandlesTyped
<1>2. /\ login' \in [Logins -> LoginRecords]
      /\ \A k \in Logins : login'[k].step = "create" => login'[k].name \in Names
  <2>1. /\ login \in [Logins -> LoginRecords]
        /\ \A k \in Logins : k # l => login'[k] = login[k]
        /\ \E s \in {"in", "pick", "refetch"} :
              login' = [login EXCEPT ![l].tries = @ + 1, ![l].step = s]
    BY DEF CreateUser, HandlesInv, HandlesTyped
  <2>2. PICK s \in {"in", "pick", "refetch"} : login' = [login EXCEPT ![l].tries = @ + 1, ![l].step = s]
    BY <2>1
  <2>3. login'[l] \in LoginRecords /\ login'[l].step = s
    <3>1. login[l] \in LoginRecords /\ login[l].tries + 1 \in Nat
      BY <2>1 DEF LoginRecords
    <3>2. login'[l] = [login[l] EXCEPT !.tries = login[l].tries + 1, !.step = s]
      BY <2>1, <2>2
    <3>3. QED
      BY <3>1, <3>2 DEF LoginRecords
  <2>4. login' = [k \in Logins |-> login'[k]]
    BY <2>2, <2>1
  <2>5. QED
    BY <2>1, <2>3, <2>4 DEF HandlesInv, HandlesTyped
<1>3. LogsHold' \/ name' # name
  BY <1>1 DEF HandlesInv, LogsHold, LogIsSuffix, IsLogOf, RowIsFresh, Asking, QuotaLeft, InWindow
<1>4. CASE ~(p \notin Accounts /\ HeldBy(n) = {})
  <2>1. UNCHANGED <<name, triesMade, stale>>
    BY <1>4 DEF CreateUser
  <2>2. HandlesTypeOK'
    BY <1>1, <1>2, <2>1 DEF HandlesInv, HandlesTypeOK, LoginRecords
  <2>3. HandlesTyped'
    BY <1>1, <1>2, <2>1 DEF HandlesInv, HandlesTyped, Asking
  <2>4. HoldsHold'
    BY <1>1, <2>1, HoldsStay, StillLast DEF Asking
  <2>5. QED
    BY <1>3, <2>1, <2>2, <2>3, <2>4 DEF HandlesInv
<1>5. CASE p \notin Accounts /\ HeldBy(n) = {}
  <2>1. /\ name' = [name EXCEPT ![p] = n] /\ triesMade' = triesMade \cup {l}
        /\ stale' = IF FairlyFree(n, NoOne) THEN stale ELSE stale \cup {p}
    BY <1>5 DEF CreateUser
  <2>2. /\ name \in [Phones -> Names \cup {NoName}] /\ name[p] = NoName
        /\ name' \in [Phones -> Names \cup {NoName}] /\ name'[p] = n
        /\ \A q \in Phones : q # p => name'[q] = name[q]
        /\ \A q \in Phones : name[q] # n
    BY <1>1, <1>5, <2>1 DEF HandlesInv, HandlesTypeOK, Accounts, HeldBy
  <2>3. HandlesTypeOK'
    BY <1>1, <1>2, <2>1, <2>2 DEF HandlesInv, HandlesTypeOK, LoginRecords
  <2>4. \A r \in Renames : Asking(r)' => Asking(r) /\ rename[r].user \in Phones \ {p}
    BY <1>1, <2>2 DEF HandlesInv, HandlesTyped, Asking
  <2>5. HandlesTyped'
    BY <1>1, <1>2, <2>1, <2>2, <2>4 DEF HandlesInv, HandlesTyped, Asking
  <2>6. LogsHold'
    <3>1. \A q \in Phones \ doubled' : LogIsSuffix(q)'
      BY <1>1, SuffixStays
    <3>2. ASSUME NEW r \in Renames PROVE RowIsFresh(r)'
      <4>1. RowIsFresh(r)
        BY DEF HandlesInv, LogsHold
      <4>2. QED
        BY <4>1, <1>1, <2>2, <2>4 DEF RowIsFresh, Asking, QuotaLeft, InWindow
    <3>3. QED
      BY <3>1, <3>2 DEF LogsHold
  <2>7. HoldsHold'
    <3>1. \A q, t \in Phones : name'[q] = name'[t] => q = t \/ name'[q] = NoName
      BY <2>2 DEF HandlesInv, HoldsHold
    <3>2. ASSUME NEW e \in released, CleanSince(e)'
          PROVE  /\ HeldBy(e.name)' \subseteq Excused(e)'
                 /\ HeldBy(e.name)' = {} => \/ hold[e.name].for \in doubled
                                            \/ /\ hold[e.name].until >= e.since + GraceDays
                                               /\ hold[e.name].for \in Excused(e)'
      <4>1. /\ e.name \in Names /\ e.user \in Phones /\ e.since \in Days
        BY DEF HandlesInv, HandlesTyped
      <4>2. /\ HeldBy(e.name) \subseteq Excused(e)
            /\ HeldBy(e.name) = {} => \/ hold[e.name].for \in doubled
                                      \/ /\ hold[e.name].until >= e.since + GraceDays
                                         /\ hold[e.name].for \in Excused(e)
            /\ day < e.since + GraceDays
        BY <1>1, <3>2 DEF CleanSince, HandlesInv, HoldsHold
      <4>3. Excused(e) \subseteq Excused(e)'
        BY <1>1, <2>1 DEF Excused
      <4>4. CASE e.name = n
        <5>1. HeldBy(e.name)' = {p}
          BY <4>4, <2>2, <1>1 DEF HeldBy
        <5>2. hold[n].for \in doubled \/ (hold[n].until > day /\ hold[n].for # NoOne)
          <6>1. hold[n].until \in Int /\ day \in Int /\ e.since + GraceDays \in Int
            BY <1>1, <4>1, HandlesAssumption DEF HandlesInv, HandlesTypeOK, Days
          <6>2. NoOne \notin Excused(e)
            BY <4>1, HandlesAssumption DEF Excused, HandlesInv, HandlesTypeOK
          <6>3. QED
            BY <6>1, <6>2, <4>2, <4>4, <1>5
        <5>3. ~FairlyFree(n, NoOne)
          BY <5>2 DEF FairlyFree, FreeHandle, HoldLives
        <5>4. QED
          BY <5>1, <5>3, <2>1 DEF Excused
      <4>5. CASE e.name # n
        <5>1. HeldBy(e.name)' = HeldBy(e.name)
          BY <4>5, <4>1, <2>2, <1>1 DEF HeldBy
        <5>2. QED
          BY <5>1, <4>2, <4>3
      <4>6. QED
        BY <4>4, <4>5
    <3>3. \A k \in triesMade' : name'[PhoneOf[k]] # NoName
      BY <2>1, <2>2, <1>1, HandlesAssumption DEF HandlesInv, HoldsHold, HandlesTyped
    <3>4. \A j, k \in triesMade' : PhoneOf[j] = PhoneOf[k] => j = k
      BY <2>1, <2>2 DEF HandlesInv, HoldsHold
    <3>5. \A r \in Renames : rename'[r].since <= day /\ AsksLast(r)'
      BY <1>1, StillLast DEF Asking
    <3>6. QED
      BY <1>1, <3>1, <3>2, <3>3, <3>4, <3>5 DEF HandlesInv, HoldsHold
  <2>8. QED
    BY <2>3, <2>5, <2>6, <2>7 DEF HandlesInv
<1>6. QED
  BY <1>4, <1>5

LEMMA AskRenameKeeps ==
  ASSUME HandlesInv, NEW r \in Renames, NEW u \in Phones, NEW n \in Names, AskRename(r, u, n)
  PROVE  HandlesInv'
<1>1. /\ rename[r].step = "unsent" /\ name[u] # NoName
      /\ UNCHANGED <<name, changeLog, hold, login, triesMade, changed, released, stale, day>>
      /\ doubled' = IF \E q \in Renames \ {r} : rename[q].user = u /\ Asking(q)
                    THEN doubled \cup {u} ELSE doubled
  BY DEF AskRename, Asking, Accounts
<1>2. /\ name[u] \in Names /\ changeLog[u] \in Seq(Days) /\ day \in Days /\ day \in Int
      /\ rename \in [Renames -> RenameRecords]
  BY <1>1, HandlesAssumption DEF HandlesInv, HandlesTyped, HandlesTypeOK, Days
<1>3. /\ rename'[r] = [step |-> IF QuotaLeft(changeLog[u]) THEN "check" ELSE "refused",
                       user |-> u, to |-> n, old |-> name[u], log |-> changeLog[u], since |-> day]
      /\ \A q \in Renames : q # r => rename'[q] = rename[q]
      /\ rename' = [q \in Renames |-> rename'[q]]
  BY <1>2 DEF AskRename
<1>4. rename'[r] \in RenameRecords
  BY <1>2, <1>3 DEF RenameRecords
<1>5. rename' \in [Renames -> RenameRecords]
  BY <1>2, <1>3, <1>4
<1>6. HandlesTypeOK'
  BY <1>1, <1>5 DEF HandlesInv, HandlesTypeOK, RenameRecords
<1>7. HandlesTyped'
  <2>1. \A q \in Renames : Asking(q)' => /\ rename'[q].user \in Phones /\ rename'[q].to \in Names
                                         /\ name[rename'[q].user] \in Names
    <3>1. rename'[r].user = u /\ rename'[r].to = n
      BY <1>3
    <3>2. \A q \in Renames : q # r /\ Asking(q)' => Asking(q)
      BY <1>3 DEF Asking
    <3>3. QED
      BY <3>1, <3>2, <1>2, <1>3 DEF HandlesInv, HandlesTyped
  <2>2. QED
    BY <2>1, <1>1, <1>5 DEF HandlesInv, HandlesTyped
<1>8. LogsHold'
  <2>1. \A p \in Phones \ doubled' : LogIsSuffix(p)'
    BY <1>1, SuffixStays
  <2>2. ASSUME NEW q \in Renames, Asking(q)', rename'[q].user \notin doubled'
        PROVE  /\ rename'[q].log = changeLog[rename'[q].user] /\ QuotaLeft(rename'[q].log)
               /\ rename'[q].old = name[rename'[q].user]
               /\ \A x \in Renames : Asking(x)' /\ rename'[x].user = rename'[q].user => x = q
    <3>1. CASE q = r
      <4>1. \A x \in Renames \ {r} : ~(rename[x].user = u /\ Asking(x))
        BY <3>1, <2>2, <1>1, <1>3
      <4>2. \A x \in Renames : Asking(x)' /\ rename'[x].user = u => x = r
        BY <4>1, <1>3 DEF Asking
      <4>3. QuotaLeft(changeLog[u])
        BY <2>2, <3>1, <1>3 DEF Asking
      <4>4. QED
        BY <3>1, <4>2, <4>3, <1>3
    <3>2. CASE q # r
      <4>1. rename'[q] = rename[q] /\ Asking(q) /\ rename[q].user \notin doubled
        BY <3>2, <2>2, <1>1, <1>3 DEF Asking
      <4>2. /\ rename[q].log = changeLog[rename[q].user] /\ QuotaLeft(rename[q].log)
            /\ rename[q].old = name[rename[q].user]
            /\ \A x \in Renames : Asking(x) /\ rename[x].user = rename[q].user => x = q
        BY <4>1 DEF HandlesInv, LogsHold, RowIsFresh
      <4>3. rename[q].user # u
        BY <3>2, <4>1, <2>2, <1>1
      <4>4. \A x \in Renames : Asking(x)' /\ rename'[x].user = rename[q].user => x = q
        BY <4>2, <4>3, <1>3 DEF Asking
      <4>5. QED
        BY <4>1, <4>2, <4>4
    <3>3. QED
      BY <3>1, <3>2
  <2>3. QED
    BY <2>1, <2>2, <1>1 DEF LogsHold, RowIsFresh, QuotaLeft, InWindow
<1>9. HoldsHold'
  <2>1. ASSUME NEW q \in Renames PROVE rename'[q].since <= day /\ AsksLast(q)'
    <3>1. CASE q = r
      BY <3>1, <1>1, <1>2, <1>3 DEF AsksLast, HandlesInv, HoldsHold
    <3>2. CASE q # r
      <4>1. rename'[q] = rename[q] /\ rename[q].since <= day /\ AsksLast(q) /\ doubled \subseteq doubled'
        BY <3>2, <1>1, <1>3 DEF HandlesInv, HoldsHold
      <4>2. QED
        BY <4>1, <1>1 DEF AsksLast, Asking
    <3>3. QED
      BY <3>1, <3>2
  <2>2. QED
    BY <2>1, <1>1, HoldsStay
<1>10. QED
  BY <1>6, <1>7, <1>8, <1>9 DEF HandlesInv

\* A rename that is answered: it goes on or it is refused.
LEMMA CheckKeeps ==
  ASSUME HandlesInv, NEW r \in Renames, NEW s \in {"write", "refused"}, Asking(r),
         rename' = [rename EXCEPT ![r].step = s],
         UNCHANGED <<name, changeLog, hold, login, triesMade, changed, released, doubled, stale, day>>
  PROVE  HandlesInv'
<1>1. /\ rename' \in [Renames -> RenameRecords]
      /\ \A q \in Renames : /\ rename'[q].user = rename[q].user /\ rename'[q].to = rename[q].to
                            /\ rename'[q].old = rename[q].old /\ rename'[q].log = rename[q].log
                            /\ rename'[q].since = rename[q].since
                            /\ Asking(q)' => Asking(q)
  BY DEF HandlesInv, HandlesTyped, RenameRecords, Asking
<1>2. HandlesTypeOK'
  BY <1>1 DEF HandlesInv, HandlesTypeOK, RenameRecords
<1>3. HandlesTyped'
  BY <1>1 DEF HandlesInv, HandlesTyped
<1>4. LogsHold'
  <2>1. \A p \in Phones \ doubled' : LogIsSuffix(p)'
    BY SuffixStays
  <2>2. ASSUME NEW q \in Renames PROVE RowIsFresh(q)'
    <3>1. RowIsFresh(q)
      BY DEF HandlesInv, LogsHold
    <3>2. \A days : QuotaLeft(days)' = QuotaLeft(days)
      BY DEF QuotaLeft, InWindow
    <3>3. QED
      BY <3>1, <3>2, <1>1 DEF RowIsFresh
  <2>3. QED
    BY <2>1, <2>2 DEF LogsHold
<1>5. HoldsHold'
  BY <1>1, HoldsStay, StillLast
<1>6. QED
  BY <1>2, <1>3, <1>4, <1>5 DEF HandlesInv

LEMMA DayPassesKeeps ==
  ASSUME HandlesInv, DayPasses
  PROVE  HandlesInv'
<1>1. /\ day' = day + 1 /\ day \in Days /\ day' \in Days /\ day \in Nat /\ ChangeDays \in Nat /\ GraceDays \in Nat
      /\ UNCHANGED <<name, changeLog, hold, login, rename, triesMade, changed, released, doubled, stale>>
  BY HandlesAssumption DEF DayPasses, HandlesInv, HandlesTypeOK, Days
<1>2. HandlesTypeOK'
  BY <1>1 DEF HandlesInv, HandlesTypeOK
<1>3. HandlesTyped'
  BY <1>1 DEF HandlesInv, HandlesTyped, Asking
<1>4. LogsHold'
  <2>1. ASSUME NEW p \in Phones \ doubled PROVE LogIsSuffix(p)'
    <3>1. LogIsSuffix(p) /\ changed[p] \in Seq(Days) /\ Days \subseteq Nat
      BY DEF HandlesInv, LogsHold, HandlesTyped, Days
    <3>2. \A i \in 1..Len(changed[p]) : changed[p][i] \in Days
      BY <3>1
    <3>3. \A i \in 1..Len(changed[p]) : changed[p][i] \in Nat
      BY <3>1, <3>2
    <3>4. /\ \A i \in 1..Len(changed[p]) : changed[p][i] <= day => changed[p][i] <= day'
          /\ \A i \in 1..Len(changed[p]) : day - changed[p][i] >= ChangeDays => day' - changed[p][i] >= ChangeDays
      BY <3>3, <1>1
    <3> DEFINE k == Len(changed[p]) - Len(changeLog[p])
    <3>5. /\ k >= 0
          /\ \A i \in 1..Len(changed[p]) :
                IF i <= k THEN day - changed[p][i] >= ChangeDays ELSE changed[p][i] = changeLog[p][i - k]
          /\ \A i \in 1..Len(changed[p]) : changed[p][i] <= day
          /\ \A i, j \in 1..Len(changed[p]) : i <= j => changed[p][i] <= changed[p][j]
      BY <3>1 DEF LogIsSuffix, IsLogOf
    <3> HIDE DEF k
    <3>6. /\ k >= 0
          /\ \A i \in 1..Len(changed[p]) :
                IF i <= k THEN day' - changed[p][i] >= ChangeDays ELSE changed[p][i] = changeLog[p][i - k]
          /\ \A i \in 1..Len(changed[p]) : changed[p][i] <= day'
          /\ \A i, j \in 1..Len(changed[p]) : i <= j => changed[p][i] <= changed[p][j]
      BY <3>4, <3>5
    <3>7. QED
      BY <3>6, <1>1 DEF LogIsSuffix, IsLogOf, k
  <2>2. ASSUME NEW q \in Renames PROVE RowIsFresh(q)'
    <3>1. RowIsFresh(q) /\ rename[q].log \in Seq(Days)
      BY DEF HandlesInv, LogsHold, HandlesTyped, RenameRecords
    <3>2. QuotaLeft(rename[q].log) => QuotaLeft(rename[q].log)'
      BY <3>1, <1>1, QuotaStays
    <3>3. QED
      BY <3>1, <3>2, <1>1 DEF RowIsFresh, Asking
  <2>3. QED
    BY <2>1, <2>2, <1>1 DEF LogsHold
<1>5. HoldsHold'
  <2>1. /\ \A e \in released : e.day \in Nat /\ e.day <= day /\ e.since \in Nat /\ e.since <= day
        /\ \A r \in Renames : rename[r].since \in Nat /\ rename[r].since <= day /\ AsksLast(r)
    BY DEF HandlesInv, HandlesTyped, RenameRecords, HoldsHold, Days
  <2>2. \A e \in released : CleanSince(e)' => CleanSince(e)
    BY <1>1, <2>1 DEF CleanSince
  <2>3. \A e \in released : Excused(e)' = Excused(e) /\ HeldBy(e.name)' = HeldBy(e.name)
    BY <1>1 DEF Excused, HeldBy
  <2>4. \A r \in Renames : rename'[r].since <= day' /\ AsksLast(r)'
    BY <1>1, <2>1 DEF AsksLast, Asking
  <2>5. QED
    BY <1>1, <2>1, <2>2, <2>3, <2>4 DEF HandlesInv, HoldsHold
<1>6. QED
  BY <1>2, <1>3, <1>4, <1>5 DEF HandlesInv

\* The window of a log is its last entries, and a rename keeps them.
LEMMA LogGrows ==
  ASSUME NEW days \in Seq(Days), NEW all \in Seq(Days), day \in Days, IsLogOf(days, all)
  PROVE  IsLogOf(Append(Recent(days), day), Append(all, day))
<1> DEFINE n == Len(days)
           m == Len(all)
           w == Cardinality(InWindow(days))
           k == m - n
           new == Append(Recent(days), day)
           more == Append(all, day)
<1>0. day \in Int /\ ChangeDays \in Int /\ Days \subseteq Int
  BY HandlesAssumption DEF Days
<1>1. /\ n \in Nat /\ m \in Nat /\ w \in 0..n /\ Recent(days) \in Seq(Days) /\ Len(Recent(days)) = w
      /\ \A i \in 1..w : Recent(days)[i] = days[n - w + i]
  BY RecentShape
<1>2. /\ k >= 0
      /\ \A i \in 1..m : IF i <= k THEN day - all[i] >= ChangeDays ELSE all[i] = days[i - k]
      /\ \A i \in 1..m : all[i] <= day
      /\ \A i, j \in 1..m : i <= j => all[i] <= all[j]
  BY DEF IsLogOf
<1>3. /\ new \in Seq(Days) /\ Len(new) = w + 1 /\ new[w + 1] = day
      /\ \A i \in 1..w : new[i] = Recent(days)[i]
  BY <1>1
<1>4. /\ more \in Seq(Days) /\ Len(more) = m + 1 /\ more[m + 1] = day
      /\ \A i \in 1..m : more[i] = all[i]
  BY <1>1
<1>5. /\ \A i \in 1..n : days[i] \in Int /\ days[i] = all[k + i] /\ k + i \in 1..m
      /\ \A i \in 1..m : all[i] \in Int
  <2>1. /\ \A i \in 1..n : days[i] \in Days
        /\ \A i \in 1..m : all[i] \in Days
    OBVIOUS
  <2>2. \A i \in 1..n : k + i \in 1..m /\ ~(k + i <= k) /\ (k + i) - k = i
    BY <1>1, <1>2
  <2>3. \A i \in 1..n : days[i] = all[k + i]
    BY <1>2, <2>2
  <2>4. QED
    BY <2>1, <2>2, <2>3, <1>0
<1>6. \A i \in 1..n : i \in InWindow(days) <=> day - days[i] < ChangeDays
  BY DEF InWindow
<1> HIDE DEF n, m, w, k, new, more
<1>7. \A i \in InWindow(days) : i > n - w
  <2>1. InWindow(days) \subseteq 1..n
    BY DEF InWindow, n
  <2>2. ASSUME NEW i \in InWindow(days), NEW j \in 1..n, i <= j
        PROVE  j \in InWindow(days)
    <3>1. i \in 1..n /\ day - days[i] < ChangeDays
      BY <2>1, <1>6
    <3>2. k + i <= k + j /\ k \in Int
      BY <2>2, <3>1, <1>1 DEF k
    <3>3. days[i] <= days[j]
      BY <3>1, <3>2, <1>2, <1>5
    <3>4. day - days[j] < ChangeDays
      BY <3>1, <3>3, <1>0, <1>5
    <3>5. QED
      BY <3>4, <1>6
  <2>3. QED
    BY <1>1, <2>1, <2>2, LastOnes DEF w
<1>8. Len(more) - Len(new) = m - w /\ m - w >= 0 /\ m - w \in Int /\ k = m - n
  BY <1>1, <1>2, <1>3, <1>4 DEF k
<1>9. ASSUME NEW i \in 1..m + 1
      PROVE  IF i <= m - w THEN day - more[i] >= ChangeDays ELSE more[i] = new[i - (m - w)]
  <2>1. CASE i <= k
    <3>1. i \in 1..m /\ i <= m - w
      BY <2>1, <1>1, <1>8
    <3>2. QED
      BY <3>1, <2>1, <1>2, <1>4
  <2>2. CASE i > k /\ i <= m - w
    <3>1. i - k \in 1..n /\ ~(i - k > n - w) /\ i \in 1..m /\ k + (i - k) = i /\ ~(i <= k)
      BY <2>2, <1>1, <1>8
    <3>2. ~(day - days[i - k] < ChangeDays)
      BY <3>1, <1>6, <1>7
    <3>3. more[i] = days[i - k] /\ days[i - k] \in Int
      BY <3>1, <1>2, <1>4, <1>5
    <3>4. QED
      BY <3>2, <3>3, <2>2, <1>0
  <2>3. CASE i > m - w /\ i <= m
    <3>1. /\ i - (m - w) \in 1..w /\ n - w + (i - (m - w)) = i - k /\ i \in 1..m
          /\ ~(i <= k) /\ ~(i <= m - w)
      BY <2>3, <1>1, <1>8
    <3>2. new[i - (m - w)] = days[i - k]
      BY <3>1, <1>1, <1>3
    <3>3. more[i] = days[i - k]
      BY <3>1, <1>2, <1>4
    <3>4. QED
      BY <3>1, <3>2, <3>3
  <2>4. CASE i = m + 1
    <3>1. i - (m - w) = w + 1 /\ ~(i <= m - w)
      BY <2>4, <1>1, <1>8
    <3>2. QED
      BY <3>1, <2>4, <1>3, <1>4
  <2>5. QED
    BY <2>1, <2>2, <2>3, <2>4, <1>1, <1>8
<1>10. \A i \in 1..m + 1 : (i \in 1..m \/ i = m + 1) /\ more[i] \in Int /\ more[i] <= day
  <2> TAKE i \in 1..m + 1
  <2>1. i \in 1..m \/ i = m + 1
    BY <1>1
  <2>2. CASE i \in 1..m
    BY <2>2, <1>2, <1>4, <1>5
  <2>3. CASE i = m + 1
    BY <2>3, <1>0, <1>4
  <2>4. QED
    BY <2>1, <2>2, <2>3
<1>11. \A i, j \in 1..m + 1 : i <= j => more[i] <= more[j]
  <2> TAKE i, j \in 1..m + 1
  <2>1. CASE j = m + 1
    BY <2>1, <1>4, <1>10
  <2>2. CASE j # m + 1 /\ i <= j
    <3>1. i \in 1..m /\ j \in 1..m
      BY <2>2, <1>1
    <3>2. QED
      BY <3>1, <2>2, <1>2, <1>4
  <2>3. QED
    BY <2>1, <2>2
<1>12. QED
  BY <1>4, <1>8, <1>9, <1>10, <1>11 DEF IsLogOf, new, more

LEMMA WriteKeepsLogs ==
  ASSUME HandlesInv, NEW r \in Renames, WriteName(r), HeldBy(rename[r].to) \subseteq {rename[r].user}
  PROVE  LogsHold'
<1> DEFINE u == rename[r].user
           n == rename[r].to
<1>1. /\ Asking(r) /\ u \in Phones /\ n \in Names /\ name[u] \in Names
      /\ rename[r].log \in Seq(Days) /\ day \in Days
  BY DEF WriteName, Asking, HandlesInv, HandlesTyped, HandlesTypeOK, RenameRecords
<1>2. /\ name' = [name EXCEPT ![u] = n]
      /\ changeLog' = [changeLog EXCEPT ![u] = LogWritten(rename[r].log)]
      /\ changed' = [changed EXCEPT ![u] = Append(changed[u], day)]
      /\ rename' = [rename EXCEPT ![r].step = "done"]
      /\ UNCHANGED <<doubled, day>>
  BY DEF WriteName, LogWritten
<1>3. /\ \A p \in Phones \ {u} : changeLog'[p] = changeLog[p] /\ changed'[p] = changed[p] /\ name'[p] = name[p]
      /\ changeLog'[u] = LogWritten(rename[r].log) /\ changed'[u] = Append(changed[u], day)
      /\ changeLog[u] \in Seq(Days) /\ changed[u] \in Seq(Days)
  BY <1>1, <1>2 DEF HandlesInv, HandlesTyped, HandlesTypeOK
<1>4. /\ ~Asking(r)'
      /\ \A q \in Renames : q # r => rename'[q] = rename[q]
  BY <1>2 DEF HandlesInv, HandlesTyped, RenameRecords, Asking
<1>5. ASSUME NEW p \in Phones \ doubled PROVE LogIsSuffix(p)'
  <2>0. LogIsSuffix(p)
    BY DEF HandlesInv, LogsHold
  <2>1. CASE p = u
    <3>1. rename[r].log = changeLog[u] /\ QuotaLeft(rename[r].log)
      BY <2>1, <1>1 DEF HandlesInv, LogsHold, RowIsFresh
    <3>2. changeLog'[u] = Append(Recent(changeLog[u]), day)
      BY <3>1, <1>1, <1>3, LogWrittenShape
    <3>3. IsLogOf(changeLog'[u], changed'[u])
      BY <3>2, <2>0, <2>1, <1>1, <1>3, LogGrows DEF LogIsSuffix
    <3>4. QED
      BY <3>3, <2>1, <1>2 DEF LogIsSuffix, IsLogOf
  <2>2. CASE p # u
    BY <2>0, <2>2, <1>2, <1>3 DEF LogIsSuffix, IsLogOf
  <2>3. QED
    BY <2>1, <2>2
<1>6. ASSUME NEW q \in Renames PROVE RowIsFresh(q)'
  <2>1. RowIsFresh(q) /\ RowIsFresh(r)
    BY DEF HandlesInv, LogsHold
  <2>2. \A days : QuotaLeft(days)' = QuotaLeft(days)
    BY <1>2 DEF QuotaLeft, InWindow
  <2>3. \A x \in Renames : Asking(x)' => Asking(x) /\ rename'[x] = rename[x] /\ x # r
    BY <1>4 DEF Asking
  <2>4. SUFFICES ASSUME Asking(q)', rename[q].user \notin doubled PROVE RowIsFresh(q)'
    BY <2>3, <1>2 DEF RowIsFresh
  <2>5. rename[q].user # u /\ rename[q].user \in Phones
    BY <2>1, <2>3, <2>4, <1>1 DEF RowIsFresh, HandlesInv, HandlesTyped
  <2>6. QED
    BY <2>1, <2>2, <2>3, <2>4, <2>5, <1>2, <1>3 DEF RowIsFresh
<1>7. QED
  BY <1>2, <1>5, <1>6 DEF LogsHold

LEMMA WriteKeepsTypes ==
  ASSUME HandlesInv, NEW r \in Renames, WriteName(r), HeldBy(rename[r].to) \subseteq {rename[r].user}
  PROVE  HandlesTypeOK' /\ HandlesTyped'
<1> DEFINE u == rename[r].user
           n == rename[r].to
           since == rename[r].since
<1>1. /\ Asking(r) /\ u \in Phones /\ n \in Names /\ name[u] \in Names
      /\ rename[r].log \in Seq(Days) /\ day \in Days /\ since \in Days
  BY DEF WriteName, Asking, HandlesInv, HandlesTyped, HandlesTypeOK, RenameRecords
<1>2. /\ name' = [name EXCEPT ![u] = n]
      /\ hold' = [h \in Names |-> IF h = rename[r].old THEN HoldFor(u, since)
                                  ELSE IF h = n /\ hold[h].for = u THEN NoHold ELSE hold[h]]
      /\ changeLog' = [changeLog EXCEPT ![u] = LogWritten(rename[r].log)]
      /\ changed' = [changed EXCEPT ![u] = Append(changed[u], day)]
      /\ rename' = [rename EXCEPT ![r].step = "done"]
      /\ released' = released \cup {[user |-> u, name |-> m, day |-> day, since |-> since] : m \in {name[u]} \ {n}}
      /\ stale' = IF FairlyFree(n, u) THEN stale ELSE stale \cup {u}
      /\ UNCHANGED <<login, triesMade, doubled, day>>
  BY DEF WriteName, LogWritten
<1>3. /\ LogWritten(rename[r].log) \in Seq(Days) /\ Len(LogWritten(rename[r].log)) <= MaxChanges
      /\ Append(changed[u], day) \in Seq(Days)
  BY <1>1, LogWrittenShape DEF HandlesInv, HandlesTyped
<1>4. /\ name' \in [Phones -> Names \cup {NoName}] /\ \A p \in Phones : name[p] \in Names => name'[p] \in Names
      /\ changeLog' \in [Phones -> Seq(Days)] /\ changed' \in [Phones -> Seq(Days)]
      /\ \A p \in Phones : Len(changeLog'[p]) <= MaxChanges
  BY <1>1, <1>2, <1>3 DEF HandlesInv, HandlesTyped, HandlesTypeOK
<1>5. hold' \in [Names -> [for : Phones \cup {NoOne}, until : 0..LastDay + GraceDays]]
  <2>1. HoldFor(u, since) \in [for : Phones \cup {NoOne}, until : 0..LastDay + GraceDays]
    BY <1>1, HandlesAssumption DEF HoldFor, Days
  <2>2. NoHold \in [for : Phones \cup {NoOne}, until : 0..LastDay + GraceDays]
    BY HandlesAssumption DEF NoHold
  <2>3. QED
    BY <1>2, <2>1, <2>2 DEF HandlesInv, HandlesTypeOK
<1>6. /\ rename' \in [Renames -> RenameRecords] /\ ~Asking(r)'
      /\ \A q \in Renames : q # r => rename'[q] = rename[q]
  <2>1. rename \in [Renames -> RenameRecords] /\ rename[r] \in RenameRecords
    BY DEF HandlesInv, HandlesTyped
  <2>2. [rename[r] EXCEPT !.step = "done"] \in RenameRecords /\ [rename[r] EXCEPT !.step = "done"].step = "done"
    BY <2>1 DEF RenameRecords
  <2>3. QED
    BY <1>2, <2>1, <2>2 DEF Asking
<1>7. HandlesTypeOK'
  BY <1>1, <1>2, <1>4, <1>5, <1>6 DEF HandlesInv, HandlesTypeOK, RenameRecords
<1>8. HandlesTyped'
  <2>1. released' \subseteq [user : Phones, name : Names, day : Days, since : Days]
    BY <1>1, <1>2 DEF HandlesInv, HandlesTyped
  <2>2. \A q \in Renames : Asking(q)' => Asking(q) /\ rename'[q] = rename[q]
    BY <1>6 DEF Asking
  <2>3. \A q \in Renames : Asking(q)' => /\ rename'[q].user \in Phones /\ rename'[q].to \in Names
                                         /\ name'[rename'[q].user] \in Names
    BY <2>2, <1>4 DEF HandlesInv, HandlesTyped
  <2>4. QED
    BY <2>1, <2>3, <1>2, <1>4, <1>6 DEF HandlesInv, HandlesTyped
<1>9. QED
  BY <1>7, <1>8

LEMMA WriteKeepsHolds ==
  ASSUME HandlesInv, NEW r \in Renames, WriteName(r), HeldBy(rename[r].to) \subseteq {rename[r].user}
  PROVE  HoldsHold'
<1> DEFINE u == rename[r].user
           n == rename[r].to
           old == rename[r].old
           since == rename[r].since
<1>1. /\ Asking(r) /\ u \in Phones /\ n \in Names /\ name[u] \in Names /\ name[u] # NoName /\ n # NoName
      /\ day \in Nat /\ GraceDays \in Nat /\ since \in Nat /\ since <= day
  BY HandlesAssumption DEF WriteName, Asking, HandlesInv, HandlesTyped, HandlesTypeOK, HoldsHold,
     RenameRecords, Days
<1>2. /\ name' = [name EXCEPT ![u] = n]
      /\ hold' = [h \in Names |-> IF h = old THEN HoldFor(u, since)
                                  ELSE IF h = n /\ hold[h].for = u THEN NoHold ELSE hold[h]]
      /\ released' = released \cup {[user |-> u, name |-> m, day |-> day, since |-> since] : m \in {name[u]} \ {n}}
      /\ stale' = IF FairlyFree(n, u) THEN stale ELSE stale \cup {u}
      /\ rename' = [rename EXCEPT ![r].step = "done"]
      /\ UNCHANGED <<login, triesMade, doubled, day>>
  BY DEF WriteName
<1>3. /\ name'[u] = n /\ \A p \in Phones \ {u} : name'[p] = name[p] /\ name[p] # n
      /\ \A p, q \in Phones : name[p] = name[q] => p = q \/ name[p] = NoName
  BY <1>1, <1>2 DEF HandlesInv, HandlesTypeOK, HoldsHold, HeldBy
<1>4. /\ u \notin doubled => old = name[u]
      /\ u \notin doubled => \A e \in released : e.name = old => e.since <= since
  BY <1>1 DEF HandlesInv, LogsHold, HoldsHold, RowIsFresh, AsksLast
<1>5. HoldFor(u, since).for = u /\ HoldFor(u, since).until = since + GraceDays
  BY DEF HoldFor
<1>6. ASSUME NEW e \in released', CleanSince(e)'
      PROVE  /\ HeldBy(e.name)' \subseteq Excused(e)'
             /\ HeldBy(e.name)' = {} => \/ hold'[e.name].for \in doubled'
                                        \/ /\ hold'[e.name].until >= e.since + GraceDays
                                           /\ hold'[e.name].for \in Excused(e)'
  <2>1. CASE e \notin released
    <3>1. e = [user |-> u, name |-> name[u], day |-> day, since |-> since] /\ name[u] # n
      BY <2>1, <1>2
    <3>2. u \notin doubled
      BY <3>1, <1>1, <1>2, <1>6 DEF CleanSince
    <3>3. hold'[e.name] = HoldFor(u, since)
      BY <3>1, <3>2, <1>1, <1>2, <1>4
    <3>4. HeldBy(e.name)' = {}
      BY <3>1, <1>1, <1>3 DEF HeldBy
    <3>5. QED
      BY <3>1, <3>3, <3>4, <1>1, <1>5 DEF Excused
  <2>2. CASE e \in released
    <3>1. /\ e.name \in Names /\ e.user \in Phones /\ e.day \in Nat /\ e.day <= day /\ e.since \in Nat
      BY <2>2 DEF HandlesInv, HandlesTyped, HoldsHold, Days
    <3>2. CleanSince(e)
      BY <1>2, <1>6 DEF CleanSince
    <3>3. /\ HeldBy(e.name) \subseteq Excused(e)
          /\ HeldBy(e.name) = {} => \/ hold[e.name].for \in doubled
                                    \/ /\ hold[e.name].until >= e.since + GraceDays
                                       /\ hold[e.name].for \in Excused(e)
          /\ day < e.since + GraceDays
      BY <2>2, <3>2 DEF CleanSince, HandlesInv, HoldsHold
    <3>4. Excused(e) \subseteq Excused(e)'
      BY <1>2 DEF Excused
    <3>5. CASE e.name = n
      <4>1. HeldBy(e.name)' = {u}
        BY <3>5, <1>1, <1>3 DEF HeldBy
      <4>2. CASE FairlyFree(n, u) /\ HeldBy(n) = {}
        <5>1. hold[n].until > day /\ hold[n].for # NoOne
          <6>1. hold[n].until \in Int
            BY <1>1, HandlesAssumption DEF HandlesInv, HandlesTypeOK, Days
          <6>2. NoOne \notin Excused(e)
            BY <3>1, HandlesAssumption DEF Excused, HandlesInv, HandlesTypeOK
          <6>3. QED
            BY <6>1, <6>2, <4>2, <3>1, <3>3, <3>5, <1>1 DEF FairlyFree
        <5>2. hold[n].for = u
          BY <5>1, <4>2 DEF FairlyFree, FreeHandle, HoldLives
        <5>3. QED
          BY <5>2, <4>1, <4>2, <3>3, <3>4, <3>5 DEF FairlyFree
      <4>3. CASE FairlyFree(n, u) /\ HeldBy(n) # {}
        <5>1. u \in HeldBy(n)
          BY <4>3
        <5>2. QED
          BY <5>1, <4>1, <3>3, <3>4, <3>5
      <4>4. CASE ~FairlyFree(n, u)
        BY <4>1, <4>4, <1>2 DEF Excused
      <4>5. QED
        BY <4>2, <4>3, <4>4
    <3>6. CASE e.name # n
      <4>1. HeldBy(e.name)' = HeldBy(e.name) \ {u}
        BY <3>1, <3>6, <1>1, <1>3 DEF HeldBy
      <4>2. hold'[e.name] = IF e.name = old THEN HoldFor(u, since) ELSE hold[e.name]
        BY <3>1, <3>6, <1>2
      <4>3. CASE u \in HeldBy(e.name)
        <5>1. e.name = name[u] /\ u \in Excused(e)
          BY <4>3, <3>3 DEF HeldBy
        <5>2. \E f \in released' : f.user = u /\ f.name = e.name /\ f.day = day
          <6>1. [user |-> u, name |-> name[u], day |-> day, since |-> since] \in released'
            BY <5>1, <3>6, <1>2
          <6>2. QED
            BY <6>1, <5>1
        <5>3. u \notin doubled
          BY <5>2, <3>1, <1>2, <1>6 DEF CleanSince
        <5>4. hold'[e.name] = HoldFor(u, since)
          BY <4>2, <5>1, <5>3, <1>4
        <5>5. e.since <= since
          BY <2>2, <5>1, <5>3, <1>4
        <5>6. hold'[e.name].until >= e.since + GraceDays /\ hold'[e.name].for \in Excused(e)'
          BY <5>1, <5>4, <5>5, <3>1, <3>4, <1>1, <1>5
        <5>7. QED
          BY <5>6, <4>1, <3>3, <3>4
      <4>4. CASE u \notin HeldBy(e.name)
        <5>1. HeldBy(e.name)' = HeldBy(e.name)
          BY <4>1, <4>4
        <5>2. CASE e.name # old
          BY <5>1, <5>2, <4>2, <3>3, <3>4, <1>2
        <5>3. CASE e.name = old
          <6>1. name[u] # old
            BY <4>4, <5>3, <1>1 DEF HeldBy
          <6>2. u \in doubled' /\ hold'[e.name].for = u
            BY <6>1, <5>3, <4>2, <1>2, <1>4, <1>5
          <6>3. QED
            BY <5>1, <6>2, <3>3, <3>4
        <5>4. QED
          BY <5>2, <5>3
      <4>5. QED
        BY <4>3, <4>4
    <3>7. QED
      BY <3>5, <3>6
  <2>3. QED
    BY <2>1, <2>2
<1>7. \A p, q \in Phones : name'[p] = name'[q] => p = q \/ name'[p] = NoName
  BY <1>1, <1>3
<1>8. \A e \in released' : e.day <= day' /\ e.since <= day'
  BY <1>1, <1>2 DEF HandlesInv, HoldsHold
<1>9. \A l \in triesMade' : name'[PhoneOf[l]] # NoName
  <2>1. \A l \in triesMade : PhoneOf[l] \in Phones /\ name[PhoneOf[l]] # NoName
    BY HandlesAssumption DEF HandlesInv, HandlesTyped, HoldsHold
  <2>2. QED
    BY <2>1, <1>1, <1>2, <1>3
<1>10. \A l, k \in triesMade' : PhoneOf[l] = PhoneOf[k] => l = k
  BY <1>2 DEF HandlesInv, HoldsHold
<1>11. ASSUME NEW q \in Renames PROVE rename'[q].since <= day' /\ AsksLast(q)'
  <2>1. /\ rename'[q].since = rename[q].since /\ rename'[q].old = rename[q].old
        /\ rename'[q].user = rename[q].user
        /\ Asking(q)' => Asking(q) /\ q # r
        /\ rename[q].since <= day /\ AsksLast(q)
    BY <1>2 DEF HandlesInv, HandlesTyped, RenameRecords, HoldsHold, Asking
  <2>2. SUFFICES ASSUME Asking(q), q # r, rename[q].user \notin doubled,
                        NEW e \in released', e.name = rename[q].old
                 PROVE  e.since <= rename[q].since
    BY <2>1, <1>2 DEF AsksLast
  <2>3. CASE e \in released
    BY <2>1, <2>2, <2>3 DEF AsksLast
  <2>4. CASE e \notin released
    <3>1. name[u] = rename[q].old
      BY <2>2, <2>4, <1>2
    <3>2. /\ rename[q].old = name[rename[q].user] /\ rename[q].user \in Phones
          /\ \A x \in Renames : Asking(x) /\ rename[x].user = rename[q].user => x = q
      BY <2>2 DEF HandlesInv, HandlesTyped, LogsHold, RowIsFresh
    <3>3. u = rename[q].user
      BY <3>1, <3>2, <1>1, <1>3
    <3>4. QED
      BY <3>2, <3>3, <2>2, <1>1
  <2>5. QED
    BY <2>3, <2>4
<1>12. QED
  BY <1>6, <1>7, <1>8, <1>9, <1>10, <1>11, <1>2 DEF HoldsHold

LEMMA RenameAnswersKeeps ==
  ASSUME HandlesInv, NEW r \in Renames, CheckFree(r) \/ WriteName(r)
  PROVE  HandlesInv'
<1>1. CASE CheckFree(r)
  <2>1. \E s \in {"write", "refused"} : rename' = [rename EXCEPT ![r].step = s]
    BY <1>1 DEF CheckFree
  <2>2. QED
    BY <1>1, <2>1, CheckKeeps DEF CheckFree, Asking
<1>2. CASE WriteName(r) /\ HeldBy(rename[r].to) \subseteq {rename[r].user}
  BY <1>2, WriteKeepsTypes, WriteKeepsLogs, WriteKeepsHolds DEF HandlesInv
<1>3. CASE WriteName(r) /\ ~(HeldBy(rename[r].to) \subseteq {rename[r].user})
  BY <1>3, CheckKeeps DEF WriteName, Asking
<1>4. QED
  BY <1>1, <1>2, <1>3

LEMMA HandlesInitInv == HandlesInit => HandlesInv
<1> SUFFICES ASSUME HandlesInit PROVE HandlesInv
  OBVIOUS
<1>1. /\ changeLog = [p \in Phones |-> <<>>] /\ changed = [p \in Phones |-> <<>>] /\ day = 0
      /\ released = {} /\ triesMade = {} /\ doubled = {} /\ stale = {} /\ name = Start
      /\ \A l \in Logins : login[l].step = "unsent" /\ login[l] \in LoginRecords
      /\ \A r \in Renames : rename[r].step = "unsent" /\ rename[r] \in RenameRecords
      /\ login \in [Logins -> LoginRecords] /\ rename \in [Renames -> RenameRecords]
  <2>1. 0 \in Days
    BY HandlesAssumption DEF Days
  <2>2. QED
    BY <2>1 DEF HandlesInit, LoginRecords, RenameRecords
<1>0. \A r \in Renames : rename[r].since = 0
  BY DEF HandlesInit
<1>2. HandlesTypeOK
  <2>1. hold \in [Names -> [for : Phones \cup {NoOne}, until : 0..LastDay + GraceDays]]
    BY HandlesAssumption DEF HandlesInit, NoHold
  <2>2. \A p \in Phones : Len(changeLog[p]) <= MaxChanges
    BY <1>1, HandlesAssumption
  <2>3. name \in [Phones -> Names \cup {NoName}] /\ day \in Days
    BY <1>1, HandlesAssumption DEF Days
  <2>4. QED
    BY <1>1, <2>1, <2>2, <2>3 DEF HandlesTypeOK
<1>3. HandlesTyped
  BY <1>1 DEF HandlesTyped, Asking
<1>4. LogsHold
  BY <1>1 DEF LogsHold, LogIsSuffix, IsLogOf, RowIsFresh, Asking
<1>5. HoldsHold
  BY <1>1, <1>0, HandlesAssumption DEF HoldsHold, AsksLast, Asking
<1>6. QED
  BY <1>2, <1>3, <1>4, <1>5 DEF HandlesInv

LEMMA HandlesNextInv == HandlesInv /\ [HandlesNext]_handleVars => HandlesInv'
<1> SUFFICES ASSUME HandlesInv, [HandlesNext]_handleVars PROVE HandlesInv'
  OBVIOUS
<1>1. ASSUME NEW l \in Logins,
             LookUp(l) \/ (\E n \in Names : Pick(l, n) \/ PickUnasked(l, n)) \/ CreateUser(l) \/ Refetch(l)
      PROVE  HandlesInv'
  BY <1>1, LoginReadsKeeps, CreateUserKeeps
<1>2. ASSUME NEW r \in Renames,
             (\E u \in Phones, n \in Names : AskRename(r, u, n)) \/ CheckFree(r) \/ WriteName(r)
      PROVE  HandlesInv'
  BY <1>2, AskRenameKeeps, RenameAnswersKeeps
<1>3. CASE DayPasses
  BY <1>3, DayPassesKeeps
<1>4. CASE UNCHANGED handleVars
  <2>1. /\ UNCHANGED <<name, changeLog, hold, login, rename, triesMade>>
        /\ UNCHANGED <<changed, released, doubled, stale, day>>
    BY <1>4 DEF handleVars
  <2>2. HandlesTypeOK' /\ HandlesTyped'
    BY <2>1 DEF HandlesInv, HandlesTypeOK, HandlesTyped, Asking
  <2>3. LogsHold'
    BY <2>1 DEF HandlesInv, LogsHold, LogIsSuffix, IsLogOf, RowIsFresh, Asking, QuotaLeft, InWindow
  <2>4. HoldsHold'
    BY <2>1, HoldsStay, StillLast DEF Asking
  <2>5. QED
    BY <2>2, <2>3, <2>4 DEF HandlesInv
<1>5. QED
  BY <1>1, <1>2, <1>3, <1>4 DEF HandlesNext

\* Of the renames of a user only those in the log are in the window.
LEMMA HandlesInvSays == HandlesInv => HandlesTypeOK /\ HandleHeld /\ QuotaHolds
<1> SUFFICES ASSUME HandlesInv PROVE HandlesTypeOK /\ HandleHeld /\ QuotaHolds
  OBVIOUS
<1>1. HandlesTypeOK
  BY DEF HandlesInv
<1>2. HandleHeld
  <2> SUFFICES ASSUME NEW e \in released, day < e.since + GraceDays,
                      \A f \in released : f.name = e.name /\ f.day >= e.day => f.user \notin doubled
               PROVE  /\ HeldBy(e.name) \subseteq Excused(e)
                      /\ HeldBy(e.name) = {} => \/ hold[e.name].for \in doubled
                                                \/ HoldLives(e.name) /\ hold[e.name].for \in Excused(e)
    BY DEF HandleHeld, Excused
  <2>1. /\ e.name \in Names /\ e.user \in Phones /\ e.since \in Nat
    BY DEF HandlesInv, HandlesTyped, Days
  <2>2. /\ HeldBy(e.name) \subseteq Excused(e)
        /\ HeldBy(e.name) = {} => \/ hold[e.name].for \in doubled
                                  \/ /\ hold[e.name].until >= e.since + GraceDays
                                     /\ hold[e.name].for \in Excused(e)
    BY DEF CleanSince, HandlesInv, HoldsHold
  <2>3. hold[e.name].until \in Int /\ day \in Int /\ GraceDays \in Int
    BY <2>1, HandlesAssumption DEF HandlesInv, HandlesTypeOK, Days
  <2>4. NoOne \notin Excused(e)
    BY <2>1, HandlesAssumption DEF Excused, HandlesInv, HandlesTypeOK
  <2>5. QED
    BY <2>1, <2>2, <2>3, <2>4 DEF HoldLives
<1>3. ASSUME NEW p \in Phones \ doubled PROVE Cardinality(InWindow(changed[p])) <= MaxChanges
  <2> DEFINE days == changeLog[p]
             all == changed[p]
             k == Len(all) - Len(days)
  <2>1. /\ days \in Seq(Days) /\ all \in Seq(Days) /\ Len(days) <= MaxChanges /\ day \in Int
        /\ Len(days) \in Nat /\ Len(all) \in Nat /\ ChangeDays \in Int
    BY HandlesAssumption DEF HandlesInv, HandlesTyped, HandlesTypeOK, Days
  <2>2. k >= 0 /\ \A i \in 1..Len(all) : i <= k => day - all[i] >= ChangeDays
    BY DEF HandlesInv, LogsHold, LogIsSuffix, IsLogOf
  <2>3. \A i \in 1..Len(all) : all[i] \in Int
    <3>1. \A i \in 1..Len(all) : all[i] \in Days
      BY <2>1
    <3>2. QED
      BY <3>1 DEF Days
  <2>4. InWindow(all) = {i \in 1..Len(all) : day - all[i] < ChangeDays}
    BY <2>1 DEF InWindow
  <2> HIDE DEF days, all
  <2>5. InWindow(all) \subseteq k + 1..Len(all)
    BY <2>1, <2>2, <2>3, <2>4
  <2>6. IsFiniteSet(k + 1..Len(all)) /\ Cardinality(k + 1..Len(all)) = Len(days)
    <3>1. k + 1 \in Int /\ Len(all) \in Int
      BY <2>1
    <3>2. /\ IsFiniteSet(k + 1..Len(all))
          /\ Cardinality(k + 1..Len(all)) = IF k + 1 > Len(all) THEN 0 ELSE Len(all) - (k + 1) + 1
      BY <3>1, FS_Interval
    <3>3. QED
      BY <3>2, <2>1
  <2>7. Cardinality(InWindow(all)) <= Len(days) /\ Cardinality(InWindow(all)) \in Nat
    BY <2>5, <2>6, FS_Subset, FS_CardinalityType
  <2>8. QED
    BY <2>1, <2>7, HandlesAssumption DEF all
<1>4. QED
  BY <1>1, <1>2, <1>3 DEF QuotaHolds, HandlesInv, HoldsHold

LEMMA HandlesAlways == HandlesSpec => [](HandlesTypeOK /\ HandleHeld /\ QuotaHolds)
<1>1. HandlesSpec => []HandlesInv
  BY HandlesInitInv, HandlesNextInv, PTL DEF HandlesSpec
<1>2. QED
  BY <1>1, HandlesInvSays, PTL

-----------------------------------------------------------------------------
(***************************************************************************)
(* Refresh tokens.  A line is one token that is valid, or one that is      *)
(* taken out and not yet exchanged.                                        *)
(***************************************************************************)

Busy(a) == ask[a].step \in {"sent", "taken", "issued"}
LineOf(c) == {t \in valid : lineOf[t] = c}

AskRecords == [client : Clients \cup {"nobody"}, token : Tokens \cup {NoToken},
               step : {"unsent", "sent", "taken", "issued", "done"},
               next : Tokens \cup {NoToken}]

\* What SessionsTypeOK has no room for: tokens are issued in order, and who
\* holds or exchanges one is the client that logged in for it.
LinesHold ==
    /\ valid \subseteq 1..issued
    /\ ask \in [Asks -> AskRecords]
    /\ \A c \in Clients :
          IF kept[c] = NoToken THEN c \notin out /\ \A t \in 1..issued : lineOf[t] # c
          ELSE kept[c] \in 1..issued /\ lineOf[kept[c]] = c
    /\ \A a \in Asks :
          /\ Busy(a) => /\ ask[a].client \in Clients /\ ask[a].token \in 1..issued
                        /\ lineOf[ask[a].token] = ask[a].client
          /\ ask[a].step = "issued" => /\ ask[a].next \in 1..issued
                                       /\ lineOf[ask[a].next] = ask[a].client

\* A line is one token that is valid, or one that is taken out and not yet
\* exchanged; a token that was exchanged is neither.
OneOfALine ==
    /\ \A s, t \in valid : lineOf[s] = lineOf[t] => s = t
    /\ \A a \in Asks : ask[a].step = "taken" =>
          /\ \A t \in valid : lineOf[t] # ask[a].client
          /\ \A b \in Asks : ask[b].step = "taken" /\ ask[b].client = ask[a].client => a = b
          /\ children[ask[a].token] = 0
    /\ \A t \in valid : children[t] = 0
    /\ \A t \in Tokens : t > issued => children[t] = 0
    /\ \A t \in Tokens : children[t] <= 1

\* A client whose requests neither died nor raced has one request at most, and
\* its line is what that request has made of it.
LineIsKept ==
    \A c \in Clients : kept[c] # NoToken /\ c \notin hurt \cup sessionRaced =>
        /\ \A a, b \in Asks : Busy(a) /\ Busy(b) /\ ask[a].client = c /\ ask[b].client = c => a = b
        /\ ~RefreshRuns(c) => LineOf(c) = IF c \in out THEN {} ELSE {kept[c]}
        /\ \A a \in Asks : ask[a].client = c =>
              /\ ask[a].step = "sent" => /\ ask[a].token = kept[c]
                                         /\ LineOf(c) = IF c \in out THEN {} ELSE {kept[c]}
              /\ ask[a].step = "taken" => c \notin out /\ LineOf(c) = {}
              /\ ask[a].step = "issued" => c \notin out /\ LineOf(c) = {ask[a].next}

SessionsInv == SessionsTypeOK /\ LinesHold /\ OneOfALine /\ LineIsKept

-----------------------------------------------------------------------------
\* Issuing gives a token that no one had.
LEMMA IssueIsNew ==
  ASSUME SessionsInv, NEW c \in Clients, Issue(c)
  PROVE  /\ issued' \in Tokens /\ issued' = issued + 1 /\ issued \in Nat
         /\ issued' \notin valid /\ valid' = valid \cup {issued'}
         /\ issued' \in 1..issued' /\ \A t \in 1..issued : t \in 1..issued' /\ t # issued'
         /\ lineOf' \in [Tokens -> Clients \cup {"nobody"}]
         /\ lineOf'[issued'] = c /\ \A t \in 1..issued : lineOf'[t] = lineOf[t]
         /\ children[issued'] = 0
<1>1. issued \in Nat /\ issued' = issued + 1 /\ issued' \in Tokens
  BY SessionsAssumption DEF SessionsInv, SessionsTypeOK, Issue, Tokens
<1>2. valid \subseteq 1..issued /\ \A t \in 1..issued : t \in Tokens
  BY <1>1, SessionsAssumption DEF SessionsInv, LinesHold, Tokens
<1>3. lineOf \in [Tokens -> Clients \cup {"nobody"}] /\ lineOf' = [lineOf EXCEPT ![issued'] = c]
  BY DEF SessionsInv, SessionsTypeOK, Issue
<1>4. children[issued'] = 0
  BY <1>1 DEF SessionsInv, OneOfALine
<1>5. QED
  BY <1>1, <1>2, <1>3, <1>4 DEF Issue

LEMMA LoginKeeps ==
  ASSUME SessionsInv, NEW c \in Clients, Login(c)
  PROVE  SessionsInv'
<1>1. /\ Issue(c) /\ kept[c] = NoToken /\ kept' = [kept EXCEPT ![c] = issued']
      /\ UNCHANGED <<ask, children, out, hurt, sessionRaced>>
  BY DEF Login
<1>2. /\ issued' \in Tokens /\ issued' = issued + 1 /\ issued \in Nat
      /\ issued' \notin valid /\ valid' = valid \cup {issued'}
      /\ issued' \in 1..issued' /\ \A t \in 1..issued : t \in 1..issued' /\ t # issued'
      /\ lineOf' \in [Tokens -> Clients \cup {"nobody"}]
      /\ lineOf'[issued'] = c /\ \A t \in 1..issued : lineOf'[t] = lineOf[t]
      /\ children[issued'] = 0
  BY <1>1, IssueIsNew
<1>3. /\ valid \subseteq 1..issued /\ c \notin out /\ \A t \in 1..issued : lineOf[t] # c
      /\ kept'[c] = issued' /\ \A d \in Clients : d # c => kept'[d] = kept[d]
  BY <1>1 DEF SessionsInv, SessionsTypeOK, LinesHold
<1>4. \A a \in Asks : Busy(a) => ask[a].client # c
  BY <1>3 DEF SessionsInv, LinesHold, AskRecords
<1>5. SessionsTypeOK'
  BY <1>1, <1>2 DEF SessionsInv, SessionsTypeOK, Tokens
<1>6. LinesHold'
  <2>1. \A d \in Clients : IF kept'[d] = NoToken THEN d \notin out' /\ \A t \in 1..issued' : lineOf'[t] # d
                           ELSE kept'[d] \in 1..issued' /\ lineOf'[kept'[d]] = d
    <3> SUFFICES ASSUME NEW d \in Clients
                 PROVE  IF kept'[d] = NoToken THEN d \notin out /\ \A t \in 1..issued' : lineOf'[t] # d
                        ELSE kept'[d] \in 1..issued' /\ lineOf'[kept'[d]] = d
      BY <1>1
    <3>1. CASE d = c
      BY <3>1, <1>2, <1>3 DEF NoToken
    <3>2. CASE d # c
      BY <3>2, <1>2, <1>3 DEF SessionsInv, LinesHold, AskRecords
    <3>3. QED
      BY <3>1, <3>2
  <2>2. QED
    BY <2>1, <1>1, <1>2 DEF SessionsInv, LinesHold, Busy
<1>7. OneOfALine'
  BY <1>1, <1>2, <1>3, <1>4 DEF SessionsInv, OneOfALine, Busy
<1>8. LineIsKept'
  <2> SUFFICES ASSUME NEW d \in Clients, kept'[d] # NoToken, d \notin hurt \cup sessionRaced
               PROVE  /\ \A a, b \in Asks : Busy(a) /\ Busy(b) /\ ask[a].client = d /\ ask[b].client = d => a = b
                      /\ ~RefreshRuns(d) => LineOf(d)' = IF d \in out THEN {} ELSE {kept'[d]}
                      /\ \A a \in Asks : ask[a].client = d =>
                            /\ ask[a].step = "sent" => /\ ask[a].token = kept'[d]
                                                       /\ LineOf(d)' = IF d \in out THEN {} ELSE {kept'[d]}
                            /\ ask[a].step = "taken" => d \notin out /\ LineOf(d)' = {}
                            /\ ask[a].step = "issued" => d \notin out /\ LineOf(d)' = {ask[a].next}
    BY <1>1 DEF LineIsKept, Busy, RefreshRuns
  <2>1. CASE d = c
    <3>0. \A t \in valid : lineOf'[t] # c
      BY <1>2, <1>3
    <3>1. LineOf(d)' = {kept'[d]}
      BY <2>1, <3>0, <1>2, <1>3 DEF LineOf
    <3>2. QED
      BY <2>1, <3>1, <1>3, <1>4 DEF Busy
  <2>2. CASE d # c
    <3>1. LineOf(d)' = LineOf(d) /\ kept'[d] = kept[d]
      BY <2>2, <1>2, <1>3 DEF LineOf
    <3>2. QED
      BY <3>1 DEF SessionsInv, LineIsKept
  <2>3. QED
    BY <2>1, <2>2
<1>9. QED
  BY <1>5, <1>6, <1>7, <1>8 DEF SessionsInv

LEMMA SendRefreshKeeps ==
  ASSUME SessionsInv, NEW a \in Asks, NEW c \in Clients, SendRefresh(a, c)
  PROVE  SessionsInv'
<1>1. /\ ask[a].step = "unsent" /\ kept[c] # NoToken
      /\ sessionRaced' = IF RefreshRuns(c) THEN sessionRaced \cup {c} ELSE sessionRaced
      /\ UNCHANGED <<valid, lineOf, issued, kept, children, out, hurt>>
  BY DEF SendRefresh
<1>2. /\ ask'[a] = [client |-> c, token |-> kept[c], step |-> "sent", next |-> NoToken]
      /\ \A b \in Asks : b # a => ask'[b] = ask[b]
      /\ ask' \in [Asks -> AskRecords]
  BY DEF SendRefresh, SessionsInv, LinesHold, SessionsTypeOK, AskRecords
<1>3. kept[c] \in 1..issued /\ lineOf[kept[c]] = c
  BY <1>1 DEF SessionsInv, LinesHold, AskRecords
<1>4. SessionsTypeOK'
  BY <1>1, <1>2 DEF SessionsInv, SessionsTypeOK
<1>5. LinesHold'
  BY <1>1, <1>2, <1>3 DEF SessionsInv, LinesHold, Busy
<1>6. OneOfALine'
  BY <1>1, <1>2 DEF SessionsInv, OneOfALine
<1>7. LineIsKept'
  <2> SUFFICES ASSUME NEW d \in Clients, kept[d] # NoToken, d \notin hurt \cup sessionRaced'
               PROVE  /\ \A x, y \in Asks : Busy(x)' /\ Busy(y)' /\ ask'[x].client = d /\ ask'[y].client = d => x = y
                      /\ ~RefreshRuns(d)' => LineOf(d) = IF d \in out THEN {} ELSE {kept[d]}
                      /\ \A x \in Asks : ask'[x].client = d =>
                            /\ ask'[x].step = "sent" => /\ ask'[x].token = kept[d]
                                                       /\ LineOf(d) = IF d \in out THEN {} ELSE {kept[d]}
                            /\ ask'[x].step = "taken" => d \notin out /\ LineOf(d) = {}
                            /\ ask'[x].step = "issued" => d \notin out /\ LineOf(d) = {ask'[x].next}
    BY <1>1 DEF LineIsKept, LineOf
  <2>0. d \notin hurt \cup sessionRaced
    BY <1>1
  <2>1. CASE d = c
    <3>1. ~RefreshRuns(c)
      BY <2>1, <1>1
    <3>2. LineOf(c) = IF c \in out THEN {} ELSE {kept[c]}
      BY <2>0, <2>1, <3>1 DEF SessionsInv, LineIsKept
    <3>3. \A x \in Asks : ask[x].client = c => ~Busy(x)
      BY <3>1 DEF RefreshRuns, Busy
    <3>4. QED
      BY <1>2, <2>1, <3>2, <3>3 DEF Busy, RefreshRuns
  <2>2. CASE d # c
    <3>1. \A x \in Asks : ask'[x].client = d => ask'[x] = ask[x] /\ x # a
      BY <2>2, <1>2
    <3>2. ~RefreshRuns(d)' => ~RefreshRuns(d)
      BY <1>1, <1>2 DEF RefreshRuns
    <3>3. QED
      BY <3>1, <3>2, <2>0 DEF SessionsInv, LineIsKept, Busy
  <2>3. QED
    BY <2>1, <2>2
<1>8. QED
  BY <1>4, <1>5, <1>6, <1>7 DEF SessionsInv

LEMMA TakeOutKeeps ==
  ASSUME SessionsInv, NEW a \in Asks, TakeOut(a)
  PROVE  SessionsInv'
<1> DEFINE t == ask[a].token
           c == ask[a].client
<1>1. /\ ask[a].step = "sent" /\ valid' = valid \ {t}
      /\ ask' = [ask EXCEPT ![a].step = IF t \in valid THEN "taken" ELSE "done"]
      /\ UNCHANGED <<lineOf, issued, kept, children, out, hurt, sessionRaced>>
  BY DEF TakeOut, Removed
<1>2. /\ ask'[a] = [ask[a] EXCEPT !.step = IF t \in valid THEN "taken" ELSE "done"]
      /\ ask'[a].client = c /\ ask'[a].token = t
      /\ ask'[a].step = IF t \in valid THEN "taken" ELSE "done"
      /\ \A b \in Asks : b # a => ask'[b] = ask[b]
      /\ ask' \in [Asks -> AskRecords]
  BY <1>1 DEF SessionsInv, LinesHold, AskRecords
<1>3. c \in Clients /\ t \in 1..issued /\ lineOf[t] = c
  BY <1>1 DEF SessionsInv, LinesHold, Busy
<1>4. SessionsTypeOK'
  BY <1>1, <1>2 DEF SessionsInv, SessionsTypeOK
<1>5. LinesHold'
  <2>1. \A b \in Asks : Busy(b)' => Busy(b) /\ ask'[b].client = ask[b].client /\ ask'[b].token = ask[b].token
    BY <1>1, <1>2 DEF Busy
  <2>2. \A b \in Asks : ask'[b].step = "issued" => ask'[b] = ask[b]
    BY <1>2
  <2>3. QED
    BY <1>1, <1>2, <2>1, <2>2 DEF SessionsInv, LinesHold, AskRecords
<1>6. OneOfALine'
  <2>1. \A b \in Asks : ask'[b].step = "taken" =>
          /\ \A s \in valid' : lineOf[s] # ask'[b].client
          /\ \A d \in Asks : ask'[d].step = "taken" /\ ask'[d].client = ask'[b].client => b = d
          /\ children[ask'[b].token] = 0
    <3>1. CASE t \in valid
      <4>1. \A s \in valid' : lineOf[s] # c
        BY <3>1, <1>1, <1>3 DEF SessionsInv, OneOfALine
      <4>2. \A b \in Asks : b # a /\ ask[b].step = "taken" => ask[b].client # c
        BY <3>1, <1>3 DEF SessionsInv, OneOfALine
      <4>3. children[t] = 0
        BY <3>1 DEF SessionsInv, OneOfALine
      <4>4. \A b \in Asks : b # a /\ ask[b].step = "taken" =>
              /\ \A s \in valid' : lineOf[s] # ask[b].client
              /\ \A d \in Asks : d # a /\ ask[d].step = "taken" /\ ask[d].client = ask[b].client => b = d
              /\ children[ask[b].token] = 0
        BY <1>1 DEF SessionsInv, OneOfALine
      <4>5. ASSUME NEW b \in Asks, ask'[b].step = "taken"
            PROVE  /\ \A s \in valid' : lineOf[s] # ask'[b].client
                   /\ \A d \in Asks : ask'[d].step = "taken" /\ ask'[d].client = ask'[b].client => b = d
                   /\ children[ask'[b].token] = 0
        <5>1. CASE b = a
          <6>1. \A d \in Asks : d # a /\ ask'[d].step = "taken" => ask'[d].client # c
            BY <4>2, <1>2
          <6>2. QED
            BY <5>1, <6>1, <4>1, <4>3, <1>2
        <5>2. CASE b # a
          <6>1. ask'[b] = ask[b] /\ ask[b].step = "taken" /\ ask[b].client # c
            BY <4>2, <4>5, <5>2, <1>2
          <6>2. \A d \in Asks : ask'[d].step = "taken" /\ ask'[d].client = ask[b].client =>
                  d # a /\ ask[d].step = "taken" /\ ask[d].client = ask[b].client
            BY <6>1, <1>2
          <6>3. QED
            BY <5>2, <6>1, <6>2, <4>4
        <5>3. QED
          BY <5>1, <5>2
      <4>6. QED
        BY <4>5
    <3>2. CASE t \notin valid
      <4>1. \A b \in Asks : ask'[b].step = "taken" => b # a /\ ask'[b] = ask[b] /\ ask[b].step = "taken"
        BY <3>2, <1>2
      <4>2. QED
        BY <4>1, <1>1 DEF SessionsInv, OneOfALine
    <3>3. QED
      BY <3>1, <3>2
  <2>2. QED
    BY <2>1, <1>1 DEF SessionsInv, OneOfALine
<1>7. LineIsKept'
  <2> SUFFICES ASSUME NEW d \in Clients, kept[d] # NoToken, d \notin hurt \cup sessionRaced
               PROVE  /\ \A x, y \in Asks : Busy(x)' /\ Busy(y)' /\ ask'[x].client = d /\ ask'[y].client = d => x = y
                      /\ ~RefreshRuns(d)' => LineOf(d)' = IF d \in out THEN {} ELSE {kept[d]}
                      /\ \A x \in Asks : ask'[x].client = d =>
                            /\ ask'[x].step = "sent" => /\ ask'[x].token = kept[d]
                                                       /\ LineOf(d)' = IF d \in out THEN {} ELSE {kept[d]}
                            /\ ask'[x].step = "taken" => d \notin out /\ LineOf(d)' = {}
                            /\ ask'[x].step = "issued" => d \notin out /\ LineOf(d)' = {ask'[x].next}
    BY <1>1 DEF LineIsKept
  <2>0. \A x \in Asks : (Busy(x)' => Busy(x)) /\ ask'[x].client = ask[x].client
    BY <1>1, <1>2 DEF Busy
  <2>1. CASE d = c
    <3>1. /\ \A x \in Asks : Busy(x) /\ ask[x].client = c => x = a
          /\ t = kept[c] /\ LineOf(c) = IF c \in out THEN {} ELSE {kept[c]}
      BY <2>1, <1>1 DEF SessionsInv, LineIsKept, Busy
    <3>2. \A x \in Asks : x # a /\ ask'[x].client = c => ~Busy(x)'
      BY <3>1, <2>0
    <3>3. CASE c \in out
      <4>1. t \notin valid
        BY <3>1, <3>3, <1>3 DEF LineOf
      <4>2. LineOf(c)' = {}
        BY <3>1, <3>3, <1>1 DEF LineOf
      <4>3. QED
        BY <4>1, <4>2, <3>2, <3>3, <2>1, <1>2 DEF Busy
    <3>4. CASE c \notin out
      <4>1. t \in valid
        BY <3>1, <3>4 DEF LineOf
      <4>2. LineOf(c)' = {}
        BY <3>1, <3>4, <1>1 DEF LineOf
      <4>3. RefreshRuns(c)'
        BY <4>1, <1>2 DEF RefreshRuns
      <4>4. QED
        BY <4>1, <4>2, <4>3, <3>2, <3>4, <2>1, <1>2 DEF Busy
    <3>5. QED
      BY <3>3, <3>4
  <2>2. CASE d # c
    <3>1. \A x \in Asks : ask'[x].client = d => ask'[x] = ask[x] /\ x # a
      BY <2>2, <1>2
    <3>2. LineOf(d)' = LineOf(d)
      BY <2>2, <1>1, <1>3 DEF LineOf
    <3>3. ~RefreshRuns(d)' => ~RefreshRuns(d)
      BY <1>2, <2>2 DEF RefreshRuns
    <3>4. QED
      BY <3>1, <3>2, <3>3 DEF SessionsInv, LineIsKept, Busy
  <2>3. QED
    BY <2>1, <2>2
<1>8. QED
  BY <1>4, <1>5, <1>6, <1>7 DEF SessionsInv

LEMMA PutNextKeeps ==
  ASSUME SessionsInv, NEW a \in Asks, PutNext(a)
  PROVE  SessionsInv'
<1> DEFINE t == ask[a].token
           c == ask[a].client
<1>1. /\ ask[a].step = "taken" /\ Issue(c)
      /\ children' = [children EXCEPT ![t] = @ + 1]
      /\ ask' = [ask EXCEPT ![a].step = "issued", ![a].next = issued']
      /\ UNCHANGED <<kept, out, hurt, sessionRaced>>
  BY DEF PutNext
<1>2. c \in Clients /\ t \in 1..issued /\ lineOf[t] = c /\ kept[c] # NoToken
  BY <1>1 DEF SessionsInv, LinesHold, Busy
<1>3. /\ issued' \in Tokens /\ issued' = issued + 1 /\ issued \in Nat
      /\ issued' \notin valid /\ valid' = valid \cup {issued'}
      /\ issued' \in 1..issued' /\ \A s \in 1..issued : s \in 1..issued' /\ s # issued'
      /\ lineOf' \in [Tokens -> Clients \cup {"nobody"}]
      /\ lineOf'[issued'] = c /\ \A s \in 1..issued : lineOf'[s] = lineOf[s]
      /\ children[issued'] = 0
  <2> HIDE DEF c
  <2>1. QED
    BY <1>1, <1>2, IssueIsNew
<1>4. /\ ask'[a].client = c /\ ask'[a].token = t /\ ask'[a].step = "issued" /\ ask'[a].next = issued'
      /\ \A b \in Asks : b # a => ask'[b] = ask[b]
      /\ ask' \in [Asks -> AskRecords]
  <2>1. ask[a] \in AskRecords
    BY DEF SessionsInv, LinesHold, AskRecords
  <2>2. /\ ask'[a] = [ask[a] EXCEPT !.step = "issued", !.next = issued']
        /\ \A b \in Asks : b # a => ask'[b] = ask[b]
        /\ ask' = [b \in Asks |-> ask'[b]]
    BY <1>1 DEF SessionsInv, LinesHold, AskRecords
  <2>3. \A b \in Asks : ask[b] \in AskRecords
    BY DEF SessionsInv, LinesHold, AskRecords
  <2>4. ask'[a] \in AskRecords
    BY <2>1, <2>2, <1>3 DEF AskRecords
  <2>5. ask'[a].client = c /\ ask'[a].token = t /\ ask'[a].step = "issued" /\ ask'[a].next = issued'
    BY <2>1, <2>2 DEF AskRecords
  <2>6. QED
    BY <2>2, <2>3, <2>4, <2>5
<1>5. /\ \A s \in valid : lineOf[s] # c /\ s \in 1..issued /\ lineOf'[s] = lineOf[s]
      /\ \A b \in Asks : b # a /\ ask[b].step = "taken" => ask[b].client # c
      /\ children[t] = 0 /\ t \in Tokens /\ t \notin valid'
  <2>1. /\ \A s \in valid : lineOf[s] # c /\ s \in 1..issued /\ lineOf'[s] = lineOf[s]
    BY <1>1, <1>3 DEF SessionsInv, OneOfALine, LinesHold
  <2>2. /\ \A b \in Asks : b # a /\ ask[b].step = "taken" => ask[b].client # c
        /\ children[t] = 0
    BY <1>1 DEF SessionsInv, OneOfALine
  <2>3. t \in Tokens /\ t \notin valid'
    <3>1. t \in Tokens
      BY <1>2, SessionsAssumption DEF SessionsInv, SessionsTypeOK, Tokens
    <3>2. t # issued' /\ t \notin valid
      BY <2>1, <1>2, <1>3
    <3>3. QED
      BY <3>1, <3>2, <1>3
  <2>4. QED
    BY <2>1, <2>2, <2>3
<1>6. /\ children'[t] = 1 /\ \A s \in Tokens : s # t => children'[s] = children[s]
      /\ children' \in [Tokens -> 0..MaxTokens]
  <2>1. children \in [Tokens -> 0..MaxTokens] /\ 1 \in 0..MaxTokens
    BY <1>2, SessionsAssumption DEF SessionsInv, SessionsTypeOK, Tokens
  <2>2. QED
    BY <2>1, <1>1, <1>5
<1>7. SessionsTypeOK'
  <2>1. valid' \subseteq Tokens /\ issued' \in 0..MaxTokens
    BY <1>3, SessionsAssumption DEF SessionsInv, SessionsTypeOK, Tokens
  <2>2. \A b \in Asks : ask'[b].step \in {"unsent", "sent", "taken", "issued", "done"}
    BY <1>4 DEF AskRecords
  <2>3. QED
    BY <2>1, <2>2, <1>1, <1>3, <1>6 DEF SessionsInv, SessionsTypeOK
<1>8. LinesHold'
  <2>1. valid' \subseteq 1..issued'
    BY <1>3, <1>5
  <2>2. \A d \in Clients : IF kept'[d] = NoToken THEN d \notin out' /\ \A s \in 1..issued' : lineOf'[s] # d
                           ELSE kept'[d] \in 1..issued' /\ lineOf'[kept'[d]] = d
    <3> SUFFICES ASSUME NEW d \in Clients
                 PROVE  IF kept[d] = NoToken THEN d \notin out /\ \A s \in 1..issued' : lineOf'[s] # d
                        ELSE kept[d] \in 1..issued' /\ lineOf'[kept[d]] = d
      BY <1>1
    <3>1. \A s \in 1..issued' : s \in 1..issued \/ s = issued'
      BY <1>3
    <3>2. CASE kept[d] = NoToken
      <4>1. d # c /\ d \notin out /\ \A s \in 1..issued : lineOf[s] # d
        BY <3>2, <1>2 DEF SessionsInv, LinesHold, AskRecords
      <4>2. QED
        BY <4>1, <3>1, <3>2, <1>3
    <3>3. CASE kept[d] # NoToken
      <4>1. kept[d] \in 1..issued /\ lineOf[kept[d]] = d
        BY <3>3 DEF SessionsInv, LinesHold, AskRecords
      <4>2. QED
        BY <4>1, <3>3, <1>3
    <3>4. QED
      BY <3>2, <3>3
  <2>3. \A b \in Asks :
          /\ Busy(b)' => /\ ask'[b].client \in Clients /\ ask'[b].token \in 1..issued'
                         /\ lineOf'[ask'[b].token] = ask'[b].client
          /\ ask'[b].step = "issued" => /\ ask'[b].next \in 1..issued'
                                        /\ lineOf'[ask'[b].next] = ask'[b].client
    <3> TAKE b \in Asks
    <3>1. CASE b = a
      BY <3>1, <1>2, <1>3, <1>4
    <3>2. CASE b # a
      BY <3>2, <1>3, <1>4 DEF SessionsInv, LinesHold, Busy
    <3>3. QED
      BY <3>1, <3>2
  <2>4. QED
    BY <2>1, <2>2, <2>3, <1>4 DEF LinesHold
<1>9. OneOfALine'
  <2>1. \A r, s \in valid' : lineOf'[r] = lineOf'[s] => r = s
    BY <1>3, <1>5 DEF SessionsInv, OneOfALine
  <2>2. \A b \in Asks : ask'[b].step = "taken" =>
          /\ \A s \in valid' : lineOf'[s] # ask'[b].client
          /\ \A d \in Asks : ask'[d].step = "taken" /\ ask'[d].client = ask'[b].client => b = d
          /\ children'[ask'[b].token] = 0
    <3> SUFFICES ASSUME NEW b \in Asks, ask'[b].step = "taken"
                 PROVE  /\ \A s \in valid' : lineOf'[s] # ask'[b].client
                        /\ \A d \in Asks : ask'[d].step = "taken" /\ ask'[d].client = ask'[b].client => b = d
                        /\ children'[ask'[b].token] = 0
      OBVIOUS
    <3>1. b # a /\ ask'[b] = ask[b] /\ ask[b].client # c
      BY <1>4, <1>5
    <3>2. ask[b].token \in 1..issued /\ lineOf[ask[b].token] = ask[b].client /\ ask[b].token \in Tokens
      <4>1. ask[b].token \in 1..issued /\ lineOf[ask[b].token] = ask[b].client
        BY <3>1 DEF SessionsInv, LinesHold, Busy
      <4>2. QED
        BY <4>1, SessionsAssumption DEF SessionsInv, SessionsTypeOK, Tokens
    <3>3. ask[b].token # t
      BY <3>1, <3>2, <1>2
    <3>4. \A s \in valid' : lineOf'[s] # ask[b].client
      BY <3>1, <1>3, <1>5 DEF SessionsInv, OneOfALine
    <3>5. \A d \in Asks : ask'[d].step = "taken" => d # a /\ ask'[d] = ask[d]
      BY <1>4
    <3>6. QED
      BY <3>1, <3>2, <3>3, <3>4, <3>5, <1>6 DEF SessionsInv, OneOfALine
  <2>3. \A s \in valid' : children'[s] = 0
    BY <1>3, <1>5, <1>6 DEF SessionsInv, OneOfALine, SessionsTypeOK
  <2>4. \A s \in Tokens : s > issued' => children'[s] = 0
    BY <1>2, <1>3, <1>6 DEF SessionsInv, OneOfALine, Tokens
  <2>5. \A s \in Tokens : children'[s] <= 1
    BY <1>6 DEF SessionsInv, OneOfALine
  <2>6. QED
    BY <2>1, <2>2, <2>3, <2>4, <2>5 DEF OneOfALine
<1>10. LineIsKept'
  <2> SUFFICES ASSUME NEW d \in Clients, kept[d] # NoToken, d \notin hurt \cup sessionRaced
               PROVE  /\ \A x, y \in Asks : Busy(x)' /\ Busy(y)' /\ ask'[x].client = d /\ ask'[y].client = d => x = y
                      /\ ~RefreshRuns(d)' => LineOf(d)' = IF d \in out THEN {} ELSE {kept[d]}
                      /\ \A x \in Asks : ask'[x].client = d =>
                            /\ ask'[x].step = "sent" => /\ ask'[x].token = kept[d]
                                                       /\ LineOf(d)' = IF d \in out THEN {} ELSE {kept[d]}
                            /\ ask'[x].step = "taken" => d \notin out /\ LineOf(d)' = {}
                            /\ ask'[x].step = "issued" => d \notin out /\ LineOf(d)' = {ask'[x].next}
    <3>1. UNCHANGED <<kept, out, hurt, sessionRaced>>
      BY <1>1
    <3>2. QED
      BY <3>1 DEF LineIsKept
  <2>0. \A x \in Asks : (Busy(x)' => Busy(x)) /\ ask'[x].client = ask[x].client
    BY <1>1, <1>4 DEF Busy
  <2>1. CASE d = c
    <3>1. /\ \A x \in Asks : Busy(x) /\ ask[x].client = c => x = a
          /\ c \notin out /\ LineOf(c) = {}
      BY <2>1, <1>1 DEF SessionsInv, LineIsKept, Busy
    <3>2. \A x \in Asks : x # a /\ ask'[x].client = c => ~Busy(x)'
      BY <3>1, <2>0
    <3>0. \A s \in valid : lineOf'[s] # c
      BY <1>5
    <3>3. LineOf(d)' = {issued'}
      BY <3>0, <2>1, <1>3 DEF LineOf
    <3>4. RefreshRuns(c)'
      BY <1>4 DEF RefreshRuns
    <3>5. QED
      BY <3>1, <3>2, <3>3, <3>4, <2>1, <1>4 DEF Busy
  <2>2. CASE d # c
    <3>1. \A x \in Asks : ask'[x].client = d => ask'[x] = ask[x] /\ x # a
      BY <2>2, <1>4
    <3>2. LineOf(d)' = LineOf(d)
      BY <2>2, <1>3, <1>5 DEF LineOf
    <3>3. ~RefreshRuns(d)' => ~RefreshRuns(d)
      BY <1>4, <2>2 DEF RefreshRuns
    <3>4. QED
      BY <3>1, <3>2, <3>3 DEF SessionsInv, LineIsKept, Busy
  <2>3. QED
    BY <2>1, <2>2
<1>11. QED
  BY <1>7, <1>8, <1>9, <1>10 DEF SessionsInv

LEMMA AnswerAskKeeps ==
  ASSUME SessionsInv, NEW a \in Asks, AnswerAsk(a)
  PROVE  SessionsInv'
<1> DEFINE c == ask[a].client
           n == ask[a].next
<1>1. /\ ask[a].step = "issued" /\ kept' = [kept EXCEPT ![c] = n]
      /\ ask' = [ask EXCEPT ![a].step = "done"]
      /\ UNCHANGED <<valid, lineOf, issued, children, out, hurt, sessionRaced>>
  BY DEF AnswerAsk
<1>2. c \in Clients /\ n \in 1..issued /\ lineOf[n] = c /\ kept[c] # NoToken /\ n \in Tokens /\ n # NoToken
  BY <1>1 DEF SessionsInv, LinesHold, Busy, SessionsTypeOK, Tokens, NoToken, AskRecords
<1>3. /\ ask'[a].step = "done" /\ ask'[a].client = c
      /\ \A b \in Asks : b # a => ask'[b] = ask[b]
      /\ ask' \in [Asks -> AskRecords]
  BY <1>1 DEF SessionsInv, LinesHold, AskRecords
<1>4. kept'[c] = n /\ \A d \in Clients : d # c => kept'[d] = kept[d]
  BY <1>1, <1>2 DEF SessionsInv, SessionsTypeOK
<1>5. SessionsTypeOK'
  BY <1>1, <1>2, <1>3 DEF SessionsInv, SessionsTypeOK
<1>6. LinesHold'
  BY <1>1, <1>2, <1>3, <1>4 DEF SessionsInv, LinesHold, Busy
<1>7. OneOfALine'
  BY <1>1, <1>3 DEF SessionsInv, OneOfALine
<1>8. LineIsKept'
  <2> SUFFICES ASSUME NEW d \in Clients, kept'[d] # NoToken, d \notin hurt \cup sessionRaced
               PROVE  /\ \A x, y \in Asks : Busy(x)' /\ Busy(y)' /\ ask'[x].client = d /\ ask'[y].client = d => x = y
                      /\ ~RefreshRuns(d)' => LineOf(d) = IF d \in out THEN {} ELSE {kept'[d]}
                      /\ \A x \in Asks : ask'[x].client = d =>
                            /\ ask'[x].step = "sent" => /\ ask'[x].token = kept'[d]
                                                       /\ LineOf(d) = IF d \in out THEN {} ELSE {kept'[d]}
                            /\ ask'[x].step = "taken" => d \notin out /\ LineOf(d) = {}
                            /\ ask'[x].step = "issued" => d \notin out /\ LineOf(d) = {ask'[x].next}
    BY <1>1 DEF LineIsKept, LineOf
  <2>1. CASE d = c
    <3>1. /\ \A x \in Asks : Busy(x) /\ ask[x].client = c => x = a
          /\ c \notin out /\ LineOf(c) = {n}
      BY <2>1, <1>1, <1>2 DEF SessionsInv, LineIsKept, Busy
    <3>2. \A x \in Asks : ask'[x].client = c => ~Busy(x)'
      BY <3>1, <1>3 DEF Busy
    <3>3. QED
      BY <3>1, <3>2, <2>1, <1>4 DEF Busy
  <2>2. CASE d # c
    <3>1. \A x \in Asks : ask'[x].client = d => ask'[x] = ask[x] /\ x # a
      BY <2>2, <1>3
    <3>2. ~RefreshRuns(d)' => ~RefreshRuns(d)
      BY <1>3, <2>2 DEF RefreshRuns
    <3>3. kept'[d] = kept[d]
      BY <2>2, <1>4
    <3>4. QED
      BY <3>1, <3>2, <3>3 DEF SessionsInv, LineIsKept, Busy
  <2>3. QED
    BY <2>1, <2>2
<1>9. QED
  BY <1>5, <1>6, <1>7, <1>8 DEF SessionsInv

LEMMA AskLostKeeps ==
  ASSUME SessionsInv, NEW a \in Asks, AskLost(a)
  PROVE  SessionsInv'
<1> DEFINE c == ask[a].client
<1>1. /\ Busy(a) /\ hurt' = hurt \cup {c}
      /\ ask' = [ask EXCEPT ![a].step = "done"]
      /\ UNCHANGED <<valid, lineOf, issued, kept, children, out, sessionRaced>>
  BY DEF AskLost, Busy
<1>2. c \in Clients
  BY <1>1 DEF SessionsInv, LinesHold, AskRecords
<1>3. /\ ask'[a].step = "done" /\ ask'[a].client = c
      /\ \A b \in Asks : b # a => ask'[b] = ask[b]
      /\ ask' \in [Asks -> AskRecords]
  BY <1>1 DEF SessionsInv, LinesHold, AskRecords
<1>4. SessionsTypeOK'
  BY <1>1, <1>2, <1>3 DEF SessionsInv, SessionsTypeOK
<1>5. LinesHold'
  BY <1>1, <1>3 DEF SessionsInv, LinesHold, Busy
<1>6. OneOfALine'
  BY <1>1, <1>3 DEF SessionsInv, OneOfALine
<1>7. LineIsKept'
  <2>1. ASSUME NEW d \in Clients, kept[d] # NoToken, d \notin hurt' \cup sessionRaced
        PROVE  /\ d \notin hurt \cup sessionRaced
               /\ \A x \in Asks : ask'[x].client = d => ask'[x] = ask[x]
               /\ ~RefreshRuns(d)' => ~RefreshRuns(d)
    <3>1. d # c /\ d \notin hurt \cup sessionRaced
      BY <2>1, <1>1
    <3>2. \A x \in Asks : ask'[x].client = d => ask'[x] = ask[x]
      BY <3>1, <1>3
    <3>3. \A x \in Asks : ask[x].client = d => ask'[x] = ask[x]
      BY <3>1, <1>3
    <3>4. QED
      BY <3>1, <3>2, <3>3 DEF RefreshRuns
  <2>2. \A d \in Clients : LineOf(d)' = LineOf(d)
    BY <1>1 DEF LineOf
  <2>3. QED
    BY <2>1, <2>2, <1>1 DEF SessionsInv, LineIsKept, Busy
<1>8. QED
  BY <1>4, <1>5, <1>6, <1>7 DEF SessionsInv

LEMMA LogoutKeeps ==
  ASSUME SessionsInv, NEW c \in Clients, Logout(c)
  PROVE  SessionsInv'
<1>1. /\ kept[c] # NoToken /\ c \notin out /\ valid' = valid \ {kept[c]} /\ out' = out \cup {c}
      /\ sessionRaced' = IF RefreshRuns(c) THEN sessionRaced \cup {c} ELSE sessionRaced
      /\ UNCHANGED <<lineOf, issued, kept, ask, children, hurt>>
  BY DEF Logout
<1>2. kept[c] \in 1..issued /\ lineOf[kept[c]] = c
  BY <1>1 DEF SessionsInv, LinesHold, AskRecords
<1>3. SessionsTypeOK'
  BY <1>1 DEF SessionsInv, SessionsTypeOK
<1>4. LinesHold'
  BY <1>1 DEF SessionsInv, LinesHold, Busy
<1>5. OneOfALine'
  BY <1>1 DEF SessionsInv, OneOfALine
<1>6. LineIsKept'
  <2> SUFFICES ASSUME NEW d \in Clients, kept[d] # NoToken, d \notin hurt \cup sessionRaced'
               PROVE  /\ \A x, y \in Asks : Busy(x) /\ Busy(y) /\ ask[x].client = d /\ ask[y].client = d => x = y
                      /\ ~RefreshRuns(d) => LineOf(d)' = IF d \in out' THEN {} ELSE {kept[d]}
                      /\ \A x \in Asks : ask[x].client = d =>
                            /\ ask[x].step = "sent" => /\ ask[x].token = kept[d]
                                                       /\ LineOf(d)' = IF d \in out' THEN {} ELSE {kept[d]}
                            /\ ask[x].step = "taken" => d \notin out' /\ LineOf(d)' = {}
                            /\ ask[x].step = "issued" => d \notin out' /\ LineOf(d)' = {ask[x].next}
    BY <1>1 DEF LineIsKept, Busy, RefreshRuns
  <2>0. d \notin hurt \cup sessionRaced
    BY <1>1
  <2>1. CASE d = c
    <3>1. ~RefreshRuns(c)
      BY <2>1, <1>1
    <3>2. LineOf(c) = {kept[c]}
      BY <2>0, <2>1, <3>1, <1>1 DEF SessionsInv, LineIsKept
    <3>3. LineOf(c)' = {}
      BY <3>2, <1>1 DEF LineOf
    <3>4. QED
      BY <2>1, <3>1, <3>3, <1>1 DEF RefreshRuns, Busy
  <2>2. CASE d # c
    <3>1. LineOf(d)' = LineOf(d) /\ (d \in out' <=> d \in out)
      BY <2>2, <1>1, <1>2 DEF LineOf
    <3>2. QED
      BY <3>1, <2>0 DEF SessionsInv, LineIsKept
  <2>3. QED
    BY <2>1, <2>2
<1>7. QED
  BY <1>3, <1>4, <1>5, <1>6 DEF SessionsInv

\* Each step of SessionsNext, and a stutter, keeps the invariant.
LEMMA SessionsKept == ASSUME SessionsInv, [SessionsNext]_sessionVars PROVE SessionsInv'
<1>1. CASE UNCHANGED sessionVars
  BY <1>1 DEF sessionVars, SessionsInv, SessionsTypeOK, LinesHold, OneOfALine, LineIsKept, LineOf, Busy, RefreshRuns
<1>2. CASE SessionsNext
  BY <1>2, LoginKeeps, LogoutKeeps, SendRefreshKeeps, TakeOutKeeps, PutNextKeeps, AnswerAskKeeps, AskLostKeeps
     DEF SessionsNext
<1>3. QED
  BY <1>1, <1>2

LEMMA SessionsStart == SessionsInit => SessionsInv
<1> SUFFICES ASSUME SessionsInit PROVE SessionsInv
  OBVIOUS
<1>1. SessionsTypeOK
  BY SessionsAssumption DEF SessionsInit, SessionsTypeOK, NoAsk, Tokens
<1>2. LinesHold
  BY SessionsAssumption DEF SessionsInit, LinesHold, NoAsk, Tokens, NoToken, Busy, AskRecords
<1>3. OneOfALine
  BY DEF SessionsInit, OneOfALine, NoAsk
<1>4. LineIsKept
  BY DEF SessionsInit, LineIsKept
<1>5. QED
  BY <1>1, <1>2, <1>3, <1>4 DEF SessionsInv

\* A line has at most one member.
LEMMA LineFollows == SessionsInv => SessionIsOne
<1> SUFFICES ASSUME SessionsInv PROVE SessionIsOne
  OBVIOUS
<1>1. ASSUME NEW c \in Clients PROVE Cardinality(LineOf(c)) <= 1
  <2>1. CASE LineOf(c) = {}
    BY <2>1, FS_EmptySet
  <2>2. CASE LineOf(c) # {}
    <3>1. PICK t \in LineOf(c) : TRUE
      BY <2>2
    <3>2. LineOf(c) = {t}
      BY <3>1 DEF SessionsInv, OneOfALine, LineOf
    <3>3. QED
      BY <3>2, FS_Singleton
  <2>3. QED
    BY <2>1, <2>2
<1>2. \A c \in Clients : ~RefreshRuns(c) /\ kept[c] # NoToken /\ c \notin hurt \cup sessionRaced =>
                            LineOf(c) = IF c \in out THEN {} ELSE {kept[c]}
  BY DEF SessionsInv, LineIsKept
<1>3. QED
  BY <1>1, <1>2 DEF SessionIsOne, LineOf, SessionsInv, OneOfALine

LEMMA SessionsAlways == SessionsSpec => [](SessionsTypeOK /\ SessionIsOne)
<1>1. SessionsInv => SessionsTypeOK /\ SessionIsOne
  BY LineFollows DEF SessionsInv
<1>2. QED
  BY <1>1, SessionsStart, SessionsKept, PTL DEF SessionsSpec

\* A handle that a user let go within the grace period is held for them, an
\* account's renames stay in their quota and its number makes one account, a
\* login is one line of tokens - but for users who took a handle on an answer
\* out of date or renamed twice at once, and clients whose requests died or
\* raced (auth and users services, refresh tokens).
THEOREM AccountsHoldAlways == HandlesSpec /\ SessionsSpec => []AccountsHold
<1>1. HandlesTypeOK /\ HandleHeld /\ QuotaHolds /\ SessionsTypeOK /\ SessionIsOne => AccountsHold
  BY DEF AccountsHold
<1>2. QED
  BY <1>1, HandlesAlways, SessionsAlways, PTL

=============================================================================
