---------------------------- MODULE Locks_proofs ----------------------------
(***************************************************************************)
(* The mutexes and threads of a process block each other only where Locks  *)
(* says so, and a thread that is joined ends, for any number of threads of *)
(* the application and any calls they make.                                *)
(*                                                                         *)
(* What a thread has still to do always leads from the mutexes it has      *)
(* locked to none, by instructions that are in the order of the mutexes or *)
(* in one of the four known places (Path, LockInv).  Of threads that wait  *)
(* for each other in a circle, none of them in such a place, each would    *)
(* wait for something later in the order than the one before.              *)
(***************************************************************************)
EXTENDS Locks, TLAPS

-----------------------------------------------------------------------------
(* How often a thread has locked every mutex, and what an instruction does to *)
(* it.                                                                        *)

Depth == [Mutex -> Nat]
Nothing == [m \in Mutex |-> 0]
Once(d, m) == [d EXCEPT ![m] = @ + 1]

Held(t) == [m \in Mutex |-> IF holder[m] = t THEN depth[m] ELSE 0]

After(i, d) ==
    IF i.do = "lock" THEN Once(d, i.on)
    ELSE IF i.do = "unlock" THEN [d EXCEPT ![i.on] = IF @ = 0 THEN 0 ELSE @ - 1]
    ELSE d

\* The order of the mutexes, and of the threads to join among them: a thread is
\* joined before the mutexes it takes.
Rank(m) ==
    IF m = "discovery" THEN 1 ELSE IF m = "query" THEN 2 ELSE IF m = "node" THEN 4
    ELSE IF m = "publisher" THEN 5 ELSE IF m = "subscriber" THEN 6 ELSE 8

JoinRank(r) ==
    IF r = "discovery" THEN 0 ELSE IF r = "node" THEN 3 ELSE IF r = "publisher" THEN 3 ELSE 7

UpTo(d, k) == \A m \in Mutex : d[m] > 0 => Rank(m) <= k

\* Instruction i is in the order for a thread that has locked what d says.
InOrder(i, d) ==
    /\ i.do = "lock" => UpTo(d, Rank(i.on))
    /\ i.do = "join" => UpTo(d, JoinRank(i.on))

\* The four places of AgainstOrder.
Excepted(i, d) ==
    \/ i = Do("lock", "discovery") /\ d["node"] > 0
    \/ i = Do("lock", "node") /\ d["manager"] > 0
    \/ i = Do("join", "node") /\ d["node"] > 0
    \/ i = Do("join", "publisher") /\ d["publisher"] > 0

\* What a thread does: the application uses objects, it suspends or resumes the
\* node that it has locked, or it deletes an object; or a reading thread is in
\* its handler.
Mode == {"using", "suspending", "deleting"} \cup Reader

Allowed(k, i, d) ==
    /\ k \in Reader =>
           /\ i.do \in {"lock", "unlock"}
           /\ InOrder(i, d)
           /\ i.do = "lock" => Rank(i.on) > JoinRank(k)
    /\ k = "using" =>
           /\ i.do \in {"lock", "unlock"}
           /\ InOrder(i, d) \/ Excepted(i, d)
    /\ k = "suspending" =>
           /\ d["node"] > 0
           /\ i.do \in {"suspended", "resumed"} => d = Once(Nothing, "node")
           /\ InOrder(i, d) \/ Excepted(i, d)
    /\ k = "deleting" =>
           /\ i.do \notin {"start", "suspended", "resumed"}
           /\ InOrder(i, d) \/ Excepted(i, d)

\* The instructions of s lead from d to e, through the depths of f.
Leads(k, s, d, e, f) ==
    /\ f \in [0 .. Len(s) -> Depth]
    /\ f[0] = d /\ f[Len(s)] = e
    /\ \A i \in 1 .. Len(s) : Allowed(k, s[i], f[i - 1]) /\ f[i] = After(s[i], f[i - 1])

Path(k, s, d, e) == s \in Seq(Instruction) /\ \E f : Leads(k, s, d, e, f)

-----------------------------------------------------------------------------
(* Sequences.                                                                 *)

LEMMA SameSequence ==
    ASSUME NEW S, NEW s \in Seq(S), NEW t \in Seq(S), Len(s) = Len(t),
           \A i \in 1 .. Len(s) : s[i] = t[i]
    PROVE  s = t
OBVIOUS

LEMMA HeadTail ==
    ASSUME NEW S, NEW s \in Seq(S), s # <<>>
    PROVE  /\ Head(s) \in S /\ Head(s) = s[1]
           /\ Tail(s) \in Seq(S) /\ Len(Tail(s)) = Len(s) - 1
           /\ Len(s) \in Nat /\ Len(s) >= 1
           /\ \A i \in 1 .. Len(Tail(s)) : Tail(s)[i] = s[i + 1]
OBVIOUS

LEMMA Concatenated ==
    ASSUME NEW S, NEW s \in Seq(S), NEW t \in Seq(S)
    PROVE  /\ s \o t \in Seq(S) /\ Len(s \o t) = Len(s) + Len(t)
           /\ Len(s) \in Nat /\ Len(t) \in Nat
           /\ \A i \in 1 .. Len(s) : (s \o t)[i] = s[i]
           /\ \A i \in Len(s) + 1 .. Len(s) + Len(t) : (s \o t)[i] = t[i - Len(s)]
OBVIOUS

LEMMA Associative ==
    ASSUME NEW S, NEW s \in Seq(S), NEW t \in Seq(S), NEW u \in Seq(S)
    PROVE  (s \o t) \o u = s \o (t \o u)
OBVIOUS

-----------------------------------------------------------------------------
(* Paths.                                                                     *)

LEMMA AfterType ==
    ASSUME NEW i \in Instruction, NEW d \in Depth
    PROVE  After(i, d) \in Depth
BY DEF After, Once, Depth, Instruction, Mutex, Reader

LEMMA PathEmpty ==
    ASSUME NEW k, NEW d \in Depth
    PROVE  Path(k, <<>>, d, d)
<1>. DEFINE f == [i \in 0 .. 0 |-> d]
<1>1. f \in [0 .. 0 -> Depth] /\ f[0] = d
  OBVIOUS
<1>2. Len(<<>>) = 0 /\ <<>> \in Seq(Instruction)
  OBVIOUS
<1>3. Leads(k, <<>>, d, d, f)
  <2>. HIDE DEF f
  <2>. QED
    BY <1>1, <1>2 DEF Leads
<1>. QED
  BY <1>2, <1>3 DEF Path

LEMMA PathCons ==
    ASSUME NEW k, NEW i \in Instruction, NEW s, NEW d \in Depth, NEW e,
           Allowed(k, i, d), Path(k, s, After(i, d), e)
    PROVE  Path(k, <<i>> \o s, d, e)
<1>. DEFINE c == <<i>> \o s
<1>. s \in Seq(Instruction)
  BY DEF Path
<1>1. /\ c \in Seq(Instruction) /\ Len(c) = Len(s) + 1 /\ c[1] = i
      /\ \A j \in 2 .. Len(c) : c[j] = s[j - 1]
      /\ Len(s) \in Nat
  OBVIOUS
<1>2. PICK f : Leads(k, s, After(i, d), e, f)
  BY DEF Path
<1>. DEFINE g == [j \in 0 .. Len(c) |-> IF j = 0 THEN d ELSE f[j - 1]]
<1>3. g \in [0 .. Len(c) -> Depth] /\ g[0] = d /\ g[Len(c)] = e
  BY <1>1, <1>2 DEF Leads
<1>4. ASSUME NEW j \in 1 .. Len(c)
      PROVE  Allowed(k, c[j], g[j - 1]) /\ g[j] = After(c[j], g[j - 1])
  <2>1. CASE j = 1
    BY <2>1, <1>1, <1>2 DEF Leads
  <2>2. CASE j # 1
    <3>1. j - 1 \in 1 .. Len(s) /\ g[j] = f[j - 1] /\ g[j - 1] = f[(j - 1) - 1] /\ c[j] = s[j - 1]
      BY <2>2, <1>1
    <3>. QED
      BY <3>1, <1>2 DEF Leads
  <2>. QED
    BY <2>1, <2>2
<1>5. Leads(k, c, d, e, g)
  <2>. HIDE DEF c, g
  <2>. QED
    BY <1>3, <1>4 DEF Leads
<1>. QED
  BY <1>1, <1>5 DEF Path

LEMMA PathConcat ==
    ASSUME NEW k, NEW s, NEW t, NEW d, NEW e, NEW h,
           Path(k, s, d, e), Path(k, t, e, h)
    PROVE  Path(k, s \o t, d, h)
<1>. DEFINE c == s \o t
<1>. s \in Seq(Instruction) /\ t \in Seq(Instruction)
  BY DEF Path
<1>1. /\ c \in Seq(Instruction) /\ Len(c) = Len(s) + Len(t)
      /\ \A j \in 1 .. Len(s) : c[j] = s[j]
      /\ \A j \in Len(s) + 1 .. Len(c) : c[j] = t[j - Len(s)]
      /\ Len(s) \in Nat /\ Len(t) \in Nat
  BY Concatenated
<1>2. PICK f : Leads(k, s, d, e, f)
  BY DEF Path
<1>3. PICK g : Leads(k, t, e, h, g)
  BY DEF Path
<1>. DEFINE b == [j \in 0 .. Len(c) |-> IF j <= Len(s) THEN f[j] ELSE g[j - Len(s)]]
<1>. HIDE DEF c
<1>4. b \in [0 .. Len(c) -> Depth] /\ b[0] = d /\ b[Len(c)] = h
  BY <1>1, <1>2, <1>3 DEF Leads
<1>5. ASSUME NEW j \in 1 .. Len(c)
      PROVE  Allowed(k, c[j], b[j - 1]) /\ b[j] = After(c[j], b[j - 1])
  <2>1. CASE j <= Len(s)
    <3>1. j \in 1 .. Len(s) /\ c[j] = s[j] /\ b[j] = f[j] /\ b[j - 1] = f[j - 1]
      BY <2>1, <1>1
    <3>. QED
      BY <3>1, <1>2 DEF Leads
  <2>2. CASE j > Len(s)
    <3>1. j - Len(s) \in 1 .. Len(t) /\ b[j] = g[j - Len(s)] /\ c[j] = t[j - Len(s)]
      BY <2>2, <1>1
    <3>. DEFINE i == j - Len(s)
    <3>2. Allowed(k, t[i], g[i - 1]) /\ g[i] = After(t[i], g[i - 1])
      <4>1. i \in 1 .. Len(t)
        BY <3>1
      <4>. HIDE DEF i
      <4>. QED
        BY <4>1, <1>3 DEF Leads
    <3>3. CASE j - 1 = Len(s)
      <4>1. b[j - 1] = f[Len(s)] /\ i - 1 = 0
        BY <3>3, <1>1
      <4>2. b[j - 1] = g[i - 1]
        BY <4>1, <1>2, <1>3 DEF Leads
      <4>. QED
        BY <4>2, <3>1, <3>2
    <3>4. CASE j - 1 # Len(s)
      <4>1. j - 1 \in 0 .. Len(c) /\ ~(j - 1 <= Len(s)) /\ (j - 1) - Len(s) = i - 1
        BY <3>4, <2>2, <1>1
      <4>2. b[j - 1] = g[i - 1]
        BY <4>1
      <4>. QED
        BY <4>2, <3>1, <3>2
    <3>. QED
      BY <3>3, <3>4
  <2>. QED
    BY <2>1, <2>2, <1>1
<1>6. Leads(k, c, d, h, b)
  <2>. HIDE DEF b
  <2>. QED
    BY <1>4, <1>5 DEF Leads
<1>7. Path(k, c, d, h)
  BY <1>1, <1>6 DEF Path
<1>. QED
  BY <1>7 DEF c

LEMMA PathTail ==
    ASSUME NEW k, NEW s, NEW d \in Depth, NEW e, Path(k, s, d, e), s # <<>>
    PROVE  /\ Head(s) \in Instruction
           /\ Allowed(k, Head(s), d)
           /\ Path(k, Tail(s), After(Head(s), d), e)
<1>. DEFINE c == Tail(s)
<1>. s \in Seq(Instruction)
  BY DEF Path
<1>1. /\ c \in Seq(Instruction) /\ Len(c) = Len(s) - 1 /\ Len(s) \in Nat /\ Len(s) >= 1
      /\ \A j \in 1 .. Len(c) : c[j] = s[j + 1]
      /\ Head(s) = s[1] /\ Head(s) \in Instruction
  BY HeadTail
<1>2. PICK f : Leads(k, s, d, e, f)
  BY DEF Path
<1>3. Allowed(k, Head(s), d) /\ f[1] = After(Head(s), d)
  BY <1>1, <1>2 DEF Leads
<1>. DEFINE g == [j \in 0 .. Len(c) |-> f[j + 1]]
<1>. HIDE DEF c
<1>4. g \in [0 .. Len(c) -> Depth] /\ g[0] = After(Head(s), d) /\ g[Len(c)] = e
  BY <1>1, <1>2, <1>3 DEF Leads
<1>5. ASSUME NEW j \in 1 .. Len(c)
      PROVE  Allowed(k, c[j], g[j - 1]) /\ g[j] = After(c[j], g[j - 1])
  <2>1. j + 1 \in 1 .. Len(s) /\ c[j] = s[j + 1] /\ g[j] = f[j + 1] /\ g[j - 1] = f[(j + 1) - 1]
    BY <1>1, <1>2
  <2>. QED
    BY <2>1, <1>2 DEF Leads
<1>6. Leads(k, c, After(Head(s), d), e, g)
  <2>. HIDE DEF g
  <2>. QED
    BY <1>4, <1>5 DEF Leads
<1>7. Path(k, c, After(Head(s), d), e)
  BY <1>1, <1>6 DEF Path
<1>. QED
  BY <1>1, <1>3, <1>7 DEF c

-----------------------------------------------------------------------------
LEMMA DoFields ==
    ASSUME NEW what, NEW on
    PROVE  Do(what, on).do = what /\ Do(what, on).on = on
BY DEF Do

LEMMA LockInstruction ==
    ASSUME NEW m \in Mutex
    PROVE  Do("lock", m) \in Instruction /\ Do("unlock", m) \in Instruction
BY DEF Do, Instruction

LEMMA AfterLock ==
    ASSUME NEW m \in Mutex, NEW d \in Depth
    PROVE  After(Do("lock", m), d) = Once(d, m) /\ Once(d, m) \in Depth
BY DEF Do, After, Once, Depth

LEMMA AfterUnlock ==
    ASSUME NEW m \in Mutex, NEW d \in Depth
    PROVE  After(Do("unlock", m), Once(d, m)) = d
<1>1. After(Do("unlock", m), Once(d, m)) = [Once(d, m) EXCEPT ![m] = IF @ = 0 THEN 0 ELSE @ - 1]
  BY DEF Do, After
<1>2. /\ Once(d, m) \in Depth /\ Once(d, m)[m] = d[m] + 1 /\ d[m] \in Nat
      /\ \A n \in Mutex \ {m} : Once(d, m)[n] = d[n]
  BY DEF Once, Depth
<1>. QED
  BY <1>1, <1>2 DEF Depth

LEMMA PathOne ==
    ASSUME NEW k, NEW i \in Instruction, NEW d \in Depth, Allowed(k, i, d)
    PROVE  Path(k, <<i>>, d, After(i, d))
<1>. DEFINE empty == <<>>
<1>1. Path(k, empty, After(i, d), After(i, d))
  BY AfterType, PathEmpty
<1>2. <<i>> \o empty = <<i>>
  OBVIOUS
<1>. HIDE DEF empty
<1>3. Path(k, <<i>> \o empty, d, After(i, d))
  BY <1>1, PathCons
<1>. QED
  BY <1>2, <1>3, Zenon

LEMMA PathTwo ==
    ASSUME NEW k, NEW a, NEW b, NEW d, NEW e, NEW f,
           Path(k, <<a>>, d, e), Path(k, <<b>>, e, f)
    PROVE  Path(k, <<a, b>>, d, f)
<1>. DEFINE s == <<a>> \o <<b>>
            t == <<a, b>>
<1>1. /\ s \in Seq({a, b}) /\ Len(s) = 2 /\ s[1] = a /\ s[2] = b
      /\ t \in Seq({a, b}) /\ Len(t) = 2 /\ t[1] = a /\ t[2] = b
  OBVIOUS
<1>2. Path(k, s, d, f)
  BY PathConcat
<1>. HIDE DEF s, t
<1>3. \A i \in 1 .. Len(s) : s[i] = t[i]
  BY <1>1
<1>4. s = t
  BY <1>1, <1>3, SameSequence
<1>5. Path(k, t, d, f)
  BY <1>2, <1>4, Zenon
<1>. QED
  BY <1>5 DEF t

LEMMA PathThree ==
    ASSUME NEW k, NEW a, NEW b, NEW c, NEW d, NEW e, NEW f, NEW g,
           Path(k, <<a>>, d, e), Path(k, <<b>>, e, f), Path(k, <<c>>, f, g)
    PROVE  Path(k, <<a, b, c>>, d, g)
<1>. DEFINE s == <<a>> \o <<b, c>>
            t == <<a, b, c>>
<1>1. /\ s \in Seq({a, b, c}) /\ Len(s) = 3 /\ s[1] = a /\ s[2] = b /\ s[3] = c
      /\ t \in Seq({a, b, c}) /\ Len(t) = 3 /\ t[1] = a /\ t[2] = b /\ t[3] = c
  OBVIOUS
<1>2. Path(k, s, d, g)
  BY PathTwo, PathConcat
<1>. HIDE DEF s, t
<1>3. \A i \in 1 .. Len(s) : s[i] = t[i]
  BY <1>1
<1>4. s = t
  BY <1>1, <1>3, SameSequence
<1>5. Path(k, t, d, g)
  BY <1>2, <1>4, Zenon
<1>. QED
  BY <1>5 DEF t

(* The body of a lock runs with the mutex locked once more.                   *)
LEMMA PathLocked ==
    ASSUME NEW k, NEW m \in Mutex, NEW body, NEW d \in Depth,
           Allowed(k, Do("lock", m), d),
           Allowed(k, Do("unlock", m), Once(d, m)),
           Path(k, body, Once(d, m), Once(d, m))
    PROVE  Path(k, Locked(m, body), d, d)
<1>1. Path(k, <<Do("unlock", m)>>, Once(d, m), d)
  BY PathOne, LockInstruction, AfterLock, AfterUnlock
<1>2. Path(k, body \o <<Do("unlock", m)>>, Once(d, m), d)
  BY <1>1, PathConcat
<1>3. Path(k, <<Do("lock", m)>>, d, Once(d, m))
  BY PathOne, LockInstruction, AfterLock
<1>4. Path(k, <<Do("lock", m)>> \o (body \o <<Do("unlock", m)>>), d, d)
  BY <1>2, <1>3, PathConcat
<1>5. /\ <<Do("lock", m)>> \in Seq(Instruction) /\ <<Do("unlock", m)>> \in Seq(Instruction)
      /\ body \in Seq(Instruction)
  BY <1>1, <1>3 DEF Path
<1>6. <<Do("lock", m)>> \o (body \o <<Do("unlock", m)>>) = Locked(m, body)
  BY <1>5, Associative DEF Locked
<1>. QED
  BY <1>4, <1>6, Zenon


-----------------------------------------------------------------------------
(* Locks taken in the order.                                                  *)

LEMMA UpToOnce ==
    ASSUME NEW m \in Mutex, NEW d \in Depth, UpTo(d, Rank(m))
    PROVE  UpTo(Once(d, m), Rank(m))
BY DEF UpTo, Once, Rank, Mutex, Depth

\* A thread in mode k may lock m when it has locked what d says.
MayLock(k, m, d) ==
    /\ k \in Mode
    /\ m \in Mutex
    /\ d \in Depth
    /\ UpTo(d, Rank(m))
    /\ k \in Reader => Rank(m) > JoinRank(k)
    /\ k = "suspending" => d["node"] > 0

LEMMA LockAllowed ==
    ASSUME NEW k, NEW m, NEW d, MayLock(k, m, d)
    PROVE  Allowed(k, Do("lock", m), d) /\ Allowed(k, Do("unlock", m), Once(d, m))
<1>1. InOrder(Do("lock", m), d) /\ InOrder(Do("unlock", m), Once(d, m))
  BY DEF MayLock, InOrder, Do
<1>2. k = "suspending" => Once(d, m)["node"] > 0
  BY DEF MayLock, Once, Depth, Mutex
<1>. QED
  BY <1>1, <1>2, DoFields DEF Allowed, MayLock, Mode, Reader

LEMMA LockedInOrder ==
    ASSUME NEW k, NEW m, NEW d, NEW body,
           MayLock(k, m, d), Path(k, body, Once(d, m), Once(d, m))
    PROVE  Path(k, Locked(m, body), d, d)
BY LockAllowed, PathLocked DEF MayLock

LEMMA LockedNothing ==
    ASSUME NEW k, NEW m, NEW d, MayLock(k, m, d)
    PROVE  Path(k, Locked(m, <<>>), d, d)
BY LockedInOrder, PathEmpty, AfterLock DEF MayLock

\* A thread in mode k that has locked nothing behind the node.
AtNode(k, d) ==
    /\ k \in Mode \ {"subscriber"}
    /\ d \in Depth
    /\ UpTo(d, Rank("node"))
    /\ k = "suspending" => d["node"] > 0

LEMMA AtNodeLocks ==
    ASSUME NEW k, NEW d, AtNode(k, d)
    PROVE  /\ MayLock(k, "node", d)
           /\ AtNode(k, Once(d, "node"))
           /\ MayLock(k, "subscriber", d)
           /\ MayLock(k, "publisher", d)
<1>1. "node" \in Mutex /\ "subscriber" \in Mutex /\ "publisher" \in Mutex
  BY DEF Mutex
<1>2. UpTo(d, Rank("subscriber")) /\ UpTo(d, Rank("publisher"))
  BY DEF AtNode, UpTo, Rank, Mutex
<1>3. k \in Reader => /\ Rank("node") > JoinRank(k) /\ Rank("subscriber") > JoinRank(k)
                      /\ Rank("publisher") > JoinRank(k)
  BY DEF AtNode, Rank, JoinRank, Reader
<1>4. Once(d, "node") \in Depth /\ Once(d, "node")["node"] > 0
  BY DEF AtNode, Once, Depth, Mutex
<1>5. UpTo(Once(d, "node"), Rank("node"))
  BY <1>1, UpToOnce DEF AtNode
<1>. QED
  BY <1>1, <1>2, <1>3, <1>4, <1>5 DEF AtNode, MayLock

LEMMA LockedNode ==
    ASSUME NEW k, NEW d, NEW body, AtNode(k, d),
           Path(k, body, Once(d, "node"), Once(d, "node"))
    PROVE  Path(k, Locked("node", body), d, d)
BY AtNodeLocks, LockedInOrder

(* What the handlers of a node do to it and to its subscribers.               *)
LEMMA NodePaths ==
    ASSUME NEW k, NEW d, AtNode(k, d)
    PROVE  /\ Path(k, Locked("node", <<>>), d, d)
           /\ Path(k, Locked("node", Locked("subscriber", <<>>)), d, d)
           /\ Path(k, AddRemotePubToLocalSubs, d, d)
           /\ Path(k, RemoveRemotePubFromLocalSubs, d, d)
           /\ Path(k, NodeAdded, d, d)
           /\ Path(k, NodeRemoved(<<>>), d, d)
           /\ Path(k, NodeRemoved(RemovedSubscriber), d, d)
<1>. DEFINE e == Once(d, "node")
            f == Once(e, "node")
<1>1. AtNode(k, e) /\ AtNode(k, f)
  BY AtNodeLocks
<1>2. \A x \in {d, e, f} : Path(k, Locked("subscriber", <<>>), x, x)
  BY <1>1, AtNodeLocks, LockedNothing
<1>3. Path(k, RemovedSubscriber, e, e)
  BY <1>1, AtNodeLocks, LockedNothing DEF RemovedSubscriber
<1>4. Path(k, Locked("node", <<>>), d, d)
  BY AtNodeLocks, LockedNothing
<1>5. Path(k, Locked("node", Locked("subscriber", <<>>)), d, d)
  BY <1>2, LockedNode
<1>6. Path(k, Locked("node", Locked("subscriber", <<>>)), e, e)
  BY <1>1, <1>2, LockedNode
<1>7. /\ Path(k, AddRemotePubToLocalSubs, d, d) /\ Path(k, RemoveRemotePubFromLocalSubs, d, d)
      /\ Path(k, AddRemotePubToLocalSubs, e, e) /\ Path(k, RemoveRemotePubFromLocalSubs, e, e)
  BY <1>5, <1>6 DEF AddRemotePubToLocalSubs, RemoveRemotePubFromLocalSubs, SubscriberAdded,
                    SubscriberRemoved
<1>8. Path(k, NodeAdded, d, d)
  BY <1>7, LockedNode DEF NodeAdded
<1>9. e \in Depth
  BY <1>1 DEF AtNode
<1>. HIDE DEF e
<1>10. Path(k, <<>>, e, e)
  BY <1>9, PathEmpty
<1>11. /\ Path(k, RemoveRemotePubFromLocalSubs \o <<>>, e, e)
       /\ Path(k, RemoveRemotePubFromLocalSubs \o RemovedSubscriber, e, e)
  BY <1>3, <1>7, <1>10, PathConcat
<1>12. Path(k, NodeRemoved(<<>>), d, d) /\ Path(k, NodeRemoved(RemovedSubscriber), d, d)
  BY <1>11, LockedNode DEF NodeRemoved, e
<1>. QED
  BY <1>4, <1>5, <1>7, <1>8, <1>12


-----------------------------------------------------------------------------
(* The operations of the application and the handlers.                        *)

LEMMA NothingLocked ==
    /\ Nothing \in Depth
    /\ \A m \in Mutex : UpTo(Nothing, Rank(m))
    /\ \A r \in Reader : UpTo(Nothing, JoinRank(r))
    /\ \A k \in Mode \ {"suspending", "subscriber"} : AtNode(k, Nothing)
    /\ AtNode("suspending", Once(Nothing, "node"))
<1>1. Nothing \in Depth /\ \A m \in Mutex : Nothing[m] = 0
  BY DEF Nothing, Depth
<1>2. Once(Nothing, "node") \in Depth /\ Once(Nothing, "node")["node"] > 0
  BY DEF Once, Nothing, Depth, Mutex
<1>3. UpTo(Once(Nothing, "node"), Rank("node"))
  BY <1>1, UpToOnce DEF UpTo, Mutex
<1>. QED
  BY <1>1, <1>2, <1>3 DEF UpTo, AtNode, Mode

(* The calls that use objects only lock mutexes, in the order except where    *)
(* addService connects the service to the node with the manager locked.       *)
LEMMA UsingPaths ==
    ASSUME NEW c \in DOMAIN Operation \ (Destructors \cup {"suspend", "resume"})
    PROVE  Path("using", Operation[c], Nothing, Nothing)
<1>. DEFINE d == Once(Nothing, "manager")
            e == Once(d, "node")
<1>. "using" \in Mode \ {"suspending", "subscriber"} /\ "using" \notin Reader
  BY DEF Mode, Reader
<1>1. AtNode("using", Nothing)
  BY NothingLocked
<1>2. MayLock("using", "manager", Nothing)
  BY NothingLocked DEF MayLock, Mutex
<1>3. Path("using", StartQuery, Nothing, Nothing)
  BY <1>2, LockedNothing DEF StartQuery
<1>4. d \in Depth /\ e \in Depth /\ d["manager"] > 0 /\ "node" \in Mutex
  BY DEF Once, Nothing, Depth, Mutex
<1>5. Allowed("using", Do("lock", "node"), d)
  BY <1>4, DoFields DEF Allowed, Excepted
<1>6. Allowed("using", Do("unlock", "node"), e)
  BY DoFields DEF Allowed, InOrder
<1>7. Path("using", Locked("node", <<>>), d, d)
  BY <1>4, <1>5, <1>6, PathEmpty, PathLocked
<1>. HIDE DEF d
<1>8. Path("using", Locked("node", <<>>) \o AddPublisher, d, d)
  BY <1>7, PathConcat DEF AddPublisher
<1>9. Path("using", AddService, Nothing, Nothing)
  BY <1>2, <1>8, LockedInOrder DEF AddService, d
<1>10. /\ Path("using", AddSubscriber, Nothing, Nothing)
       /\ Path("using", RemoveSubscriber, Nothing, Nothing)
       /\ Path("using", AddPublisher, Nothing, Nothing)
       /\ Path("using", RemovePublisher, Nothing, Nothing)
  BY <1>1, NodePaths DEF AddSubscriber, RemoveSubscriber, AddPublisher, RemovePublisher,
                         SubscriberAdded, SubscriberRemoved
<1>. HIDE DEF AddSubscriber, RemoveSubscriber, AddPublisher, RemovePublisher, AddService
<1>11. c \in {"addSubscriber", "removeSubscriber", "addPublisher", "removePublisher",
              "startQuery", "addService"}
  BY DEF Operation, Destructors
<1>. QED
  BY <1>3, <1>9, <1>10, <1>11 DEF Operation

(* A publisher or subscriber is joined with its own mutex locked.             *)
LEMMA JoinPaths ==
    ASSUME NEW k \in {"suspending", "deleting"}, NEW r \in {"publisher", "subscriber"},
           NEW d, MayLock(k, r, d)
    PROVE  /\ Path(k, Locked(r, <<Do("stop", r), Do("wake", r), Do("join", r)>>), d, d)
           /\ Path(k, <<Do("stop", r)>>, d, d)
<1>. DEFINE e == Once(d, r)
<1>. d \in Depth /\ k \in Mode /\ r \in Mutex /\ UpTo(d, Rank(r))
  BY DEF MayLock
<1>1. e \in Depth /\ e[r] > 0 /\ (k = "suspending" => d["node"] > 0 /\ e["node"] > 0)
  BY DEF MayLock, Once, Depth, Mutex
<1>2. UpTo(e, Rank(r))
  BY UpToOnce
<1>3. r = "subscriber" => UpTo(e, JoinRank(r))
  BY <1>2 DEF UpTo, Rank, JoinRank, Mutex
<1>. HIDE DEF e
<1>4. \A do \in {"stop", "wake", "join"}, x \in Depth :
          Do(do, r) \in Instruction /\ After(Do(do, r), x) = x
  BY DEF Do, Instruction, Reader, After
<1>5. \A x \in {d, e} : Allowed(k, Do("stop", r), x)
  BY <1>1, DoFields DEF Allowed, InOrder, Reader
<1>6. Allowed(k, Do("wake", r), e)
  BY <1>1, DoFields DEF Allowed, InOrder, Reader
<1>7. InOrder(Do("join", r), e) \/ Excepted(Do("join", r), e)
  BY <1>1, <1>3, DoFields DEF InOrder, Excepted
<1>8. Allowed(k, Do("join", r), e)
  BY <1>1, <1>7, DoFields DEF Allowed, Reader
<1>9. /\ Path(k, <<Do("stop", r)>>, e, e) /\ Path(k, <<Do("wake", r)>>, e, e)
      /\ Path(k, <<Do("join", r)>>, e, e) /\ Path(k, <<Do("stop", r)>>, d, d)
  BY <1>1, <1>4, <1>5, <1>6, <1>8, PathOne, Zenon
<1>10. Path(k, <<Do("stop", r), Do("wake", r), Do("join", r)>>, e, e)
  BY <1>9, PathThree, Zenon
<1>. QED
  BY <1>9, <1>10, LockedInOrder DEF e


(* suspend and resume with the node locked, and the destructors.              *)
LEMMA NodeInstructions ==
    ASSUME NEW k \in {"suspending", "deleting"}, NEW d \in Depth,
           k = "suspending" => d = Once(Nothing, "node"),
           k = "deleting" => d = Nothing
    PROVE  /\ Path(k, <<Do("stop", "node")>>, d, d)
           /\ Path(k, NodeJoin, d, d)
           /\ Path(k, Unbrowse, d, d)
           /\ k = "suspending" =>
                  /\ Path(k, <<Do("suspended", "node")>>, d, d)
                  /\ Path(k, <<Do("resumed", "node"), Do("start", "publisher")>>, d, d)
                  /\ Path(k, <<Do("start", "node")>>, d, d)
<1>. DEFINE one == {Do("stop", "node"), Do("wake", "node"), Do("join", "node")}
            more == {Do("suspended", "node"), Do("resumed", "node"), Do("start", "node"),
                     Do("start", "publisher")}
<1>1. k = "suspending" => d["node"] > 0
  BY DEF Once, Nothing, Mutex
<1>2. \A i \in one \cup more : i \in Instruction /\ After(i, d) = d
  BY DEF Do, Instruction, Reader, After
<1>3. k = "deleting" => InOrder(Do("join", "node"), d)
  BY NothingLocked, DoFields DEF InOrder, Reader
<1>4. \A i \in one : Allowed(k, i, d)
  BY <1>1, <1>3, DoFields DEF Allowed, Excepted, InOrder, Reader
<1>5. k = "suspending" => \A i \in more : Allowed(k, i, d)
  BY <1>1, DoFields DEF Allowed, InOrder, Reader
<1>. HIDE DEF one, more
<1>6. \A i \in one : Path(k, <<i>>, d, d)
  BY <1>2, <1>4, PathOne, Zenon
<1>7. k = "suspending" => \A i \in more : Path(k, <<i>>, d, d)
  BY <1>2, <1>5, PathOne, Zenon
<1>. USE DEF one, more
<1>8. /\ Path(k, NodeJoin, d, d)
      /\ k = "suspending" => Path(k, <<Do("resumed", "node"), Do("start", "publisher")>>, d, d)
  BY <1>6, <1>7, PathTwo, Zenon DEF NodeJoin
<1>9. /\ Allowed(k, Do("lock", "discovery"), d)
      /\ Allowed(k, Do("unlock", "discovery"), Once(d, "discovery"))
  <2>1. InOrder(Do("lock", "discovery"), d) \/ Excepted(Do("lock", "discovery"), d)
    BY <1>1, NothingLocked, DoFields DEF InOrder, Excepted, Mutex
  <2>2. k = "suspending" => Once(d, "discovery")["node"] > 0
    BY <1>1 DEF Once, Depth, Mutex
  <2>. QED
    BY <1>1, <2>1, <2>2, DoFields DEF Allowed, InOrder, Reader
<1>10. Path(k, Unbrowse, d, d)
  <2>1. "discovery" \in Mutex
    BY Zenon DEF Mutex
  <2>2. Path(k, <<>>, Once(d, "discovery"), Once(d, "discovery"))
    BY <2>1, PathEmpty, AfterLock, Zenon
  <2>. QED
    BY <1>9, <2>1, <2>2, PathLocked, Zenon DEF Unbrowse
<1>. QED
  BY <1>6, <1>7, <1>8, <1>10, Zenon

LEMMA DeletingPaths ==
    ASSUME NEW c \in Destructors
    PROVE  Path("deleting", Operation[c], Nothing, Nothing)
<1>1. Path("deleting", DestroyNode, Nothing, Nothing)
  <2>1. /\ Path("deleting", Unbrowse, Nothing, Nothing)
        /\ Path("deleting", <<Do("stop", "node")>>, Nothing, Nothing)
        /\ Path("deleting", NodeJoin, Nothing, Nothing)
    BY NothingLocked, NodeInstructions
  <2>. QED
    BY <2>1, PathConcat, Zenon DEF DestroyNode
<1>2. \A r \in {"publisher", "subscriber"} : MayLock("deleting", r, Nothing)
  BY NothingLocked DEF MayLock, Mode, Mutex, Reader
<1>3. Path("deleting", DestroySubscriber, Nothing, Nothing)
  BY <1>2, JoinPaths DEF DestroySubscriber, SubscriberJoin
<1>4. Path("deleting", DestroyPublisher, Nothing, Nothing)
  <2>1. Path("deleting", PublisherJoin, Nothing, Nothing)
    BY <1>2, JoinPaths DEF PublisherJoin
  <2>. QED
    BY <1>2, <2>1, JoinPaths, PathConcat DEF DestroyPublisher, PublisherSuspend
<1>5. /\ Operation["destroyNode"] = DestroyNode
      /\ Operation["destroySubscriber"] = DestroySubscriber
      /\ Operation["destroyPublisher"] = DestroyPublisher
  BY DEF Operation
<1>. QED
  BY <1>1, <1>3, <1>4, <1>5, Zenon DEF Destructors

LEMMA SuspendingPaths ==
    ASSUME NEW s \in {Suspend, Resume}
    PROVE  /\ s \in Seq(Instruction) /\ s # <<>> /\ Head(s) = Do("lock", "node")
           /\ Path("suspending", Tail(s), Once(Nothing, "node"), Nothing)
           /\ Path("suspending", <<Do("unlock", "node")>>, Once(Nothing, "node"), Nothing)
<1>. DEFINE k == "suspending"
            d == Once(Nothing, "node")
            u == <<Do("unlock", "node")>>
<1>1. AtNode(k, d) /\ d \in Depth /\ "node" \in Mutex /\ Nothing \in Depth
  BY NothingLocked DEF AtNode, Mutex
<1>2. Path(k, u, d, Nothing)
  <2>1. Allowed(k, Do("unlock", "node"), d)
    BY <1>1, DoFields DEF Allowed, InOrder, AtNode, Reader
  <2>. QED
    BY <1>1, <2>1, PathOne, LockInstruction, AfterUnlock
<1>3. Path(k, PublisherSuspend, d, d)
  BY <1>1, AtNodeLocks, JoinPaths, PathConcat DEF PublisherSuspend, PublisherJoin
<1>4. /\ Path(k, RemovePublisher, d, d) /\ Path(k, AddPublisher, d, d)
      /\ Path(k, NodeRemoved(<<>>), d, d) /\ Path(k, Locked("subscriber", <<>>), d, d)
  BY <1>1, NodePaths, AtNodeLocks, LockedNothing DEF RemovePublisher, AddPublisher
<1>5. /\ Path(k, <<Do("stop", "node")>>, d, d) /\ Path(k, NodeJoin, d, d)
      /\ Path(k, Unbrowse, d, d) /\ Path(k, Browse, d, d)
      /\ Path(k, <<Do("suspended", "node")>>, d, d)
      /\ Path(k, <<Do("resumed", "node"), Do("start", "publisher")>>, d, d)
      /\ Path(k, <<Do("start", "node")>>, d, d)
  BY <1>1, NodeInstructions DEF Browse, Unbrowse
<1>. HIDE DEF k, d
<1>. DEFINE suspend == <<Do("suspended", "node")>> \o Unbrowse \o PublisherSuspend
                       \o RemovePublisher \o NodeRemoved(<<>>) \o <<Do("stop", "node")>> \o NodeJoin
            resume == <<Do("resumed", "node"), Do("start", "publisher")>> \o AddPublisher
                      \o Locked("subscriber", <<>>) \o <<Do("start", "node")>> \o Browse
<1>6. Path(k, suspend, d, d)
  BY <1>3, <1>4, <1>5, PathConcat, Zenon
<1>7. Path(k, resume, d, d)
  BY <1>4, <1>5, PathConcat, Zenon
<1>8. Suspend = Locked("node", suspend) /\ Resume = Locked("node", resume)
  BY DEF Suspend, Resume
<1>. HIDE DEF suspend, resume
<1>9. PICK body \in {suspend, resume} : s = Locked("node", body)
  BY <1>8, Zenon
<1>10. Path(k, body, d, d) /\ body \in Seq(Instruction)
  BY <1>6, <1>7 DEF Path
<1>11. Path(k, body \o u, d, Nothing)
  BY <1>2, <1>10, PathConcat, Zenon
<1>12. /\ s \in Seq(Instruction) /\ s # <<>> /\ Head(s) = Do("lock", "node")
       /\ Tail(s) = body \o u
  <2>. DEFINE c == body \o u
  <2>1. c \in Seq(Instruction) /\ Do("lock", "node") \in Instruction
    BY <1>11, <1>1, LockInstruction DEF Path
  <2>2. s = <<Do("lock", "node")>> \o c
    BY <1>1, <1>9, <1>10, LockInstruction DEF Locked
  <2>. HIDE DEF c
  <2>3. /\ s \in Seq(Instruction) /\ s # <<>> /\ Head(s) = Do("lock", "node") /\ Tail(s) = c
    BY <2>1, <2>2
  <2>. QED
    BY <2>3 DEF c
<1>13. Path(k, Tail(s), d, Nothing)
  BY <1>11, <1>12, Zenon
<1>. QED
  BY <1>2, <1>12, <1>13 DEF k, d


(* A handler locks mutexes in the order, and only those behind the place      *)
(* where its thread is joined.                                                *)
LEMMA HandlerPaths ==
    ASSUME NEW r \in Reader, NEW h \in Handlers[r]
    PROVE  Path(r, h, Nothing, Nothing)
<1>. r \in Mode
  BY DEF Mode
<1>1. CASE r = "discovery"
  <2>. DEFINE d == Once(Nothing, "discovery")
              e == Once(d, "query")
  <2>1. MayLock(r, "discovery", Nothing)
    BY <1>1, NothingLocked DEF MayLock, Mutex, Rank, JoinRank
  <2>2. d \in Depth /\ e \in Depth
    BY DEF Once, Nothing, Depth, Mutex
  <2>3. UpTo(d, Rank("query")) /\ UpTo(e, Rank("node"))
    BY DEF UpTo, Once, Nothing, Mutex, Rank
  <2>4. MayLock(r, "query", d) /\ AtNode(r, e)
    BY <1>1, <2>2, <2>3 DEF MayLock, AtNode, Mutex, Rank, JoinRank
  <2>5. Path(r, NodeAdded, e, e) /\ Path(r, NodeRemoved(RemovedSubscriber), e, e)
    BY <2>4, NodePaths
  <2>6. /\ Path(r, Locked("discovery", Locked("query", NodeAdded)), Nothing, Nothing)
        /\ Path(r, Locked("discovery", Locked("query", NodeRemoved(RemovedSubscriber))),
                Nothing, Nothing)
    BY <2>1, <2>4, <2>5, LockedInOrder
  <2>. QED
    BY <1>1, <2>6 DEF Handlers, BonjourRun
<1>2. CASE r = "node"
  <2>. DEFINE d == Once(Nothing, "node")
              e == Once(d, "node")
              f == Once(e, "publisher")
  <2>1. AtNode(r, Nothing) /\ AtNode(r, d) /\ AtNode(r, e)
    BY <1>2, NothingLocked, AtNodeLocks
  <2>2. f \in Depth /\ UpTo(f, Rank("publisher"))
    <3>1. e \in Depth /\ UpTo(e, Rank("publisher")) /\ "publisher" \in Mutex
      BY <2>1, AtNodeLocks DEF MayLock
    <3>. QED
      BY <3>1, UpToOnce, AfterLock
  <2>3. MayLock(r, "manager", f)
    BY <1>2, <2>2 DEF MayLock, UpTo, Mutex, Rank, JoinRank
  <2>4. Path(r, AddedSubscriber, e, e) /\ Path(r, RemovedSubscriber, e, e)
    BY <2>1, <2>3, AtNodeLocks, LockedNothing, LockedInOrder
       DEF AddedSubscriber, RemovedSubscriber, Welcome
  <2>5. /\ Path(r, Locked("node", ProcessSubscription(AddedSubscriber)), Nothing, Nothing)
        /\ Path(r, Locked("node", ProcessSubscription(RemovedSubscriber)), Nothing, Nothing)
    BY <2>1, <2>4, LockedNode DEF ProcessSubscription
  <2>6. /\ Path(r, Locked("node", ProcessPubAdded), Nothing, Nothing)
        /\ Path(r, Locked("node", ProcessPubRemoved), Nothing, Nothing)
    BY <2>1, NodePaths, LockedNode DEF ProcessPubAdded, ProcessPubRemoved
  <2>7. Path(r, <<Do("unlock", "node")>>, Nothing, Nothing)
    <3>1. Allowed(r, Do("unlock", "node"), Nothing)
      BY <1>2, DoFields DEF Allowed, InOrder
    <3>2. After(Do("unlock", "node"), Nothing) = Nothing
      BY DEF After, Do, Nothing, Mutex
    <3>3. Do("unlock", "node") \in Instruction
      BY LockInstruction DEF Mutex
    <3>. QED
      BY <3>1, <3>2, <3>3, NothingLocked, PathOne
  <2>. QED
    BY <1>2, <2>5, <2>6, <2>7 DEF Handlers, NodeRun
<1>3. CASE r = "publisher"
  <2>. DEFINE d == Once(Nothing, "publisher")
              e == Once(d, "publisher")
  <2>1. d \in Depth /\ e \in Depth /\ UpTo(d, Rank("publisher")) /\ UpTo(e, Rank("manager"))
    BY DEF Once, Nothing, Depth, UpTo, Mutex, Rank
  <2>2. /\ MayLock(r, "publisher", Nothing) /\ MayLock(r, "publisher", d)
        /\ MayLock(r, "manager", e)
    BY <1>3, <2>1, NothingLocked DEF MayLock, Mutex, Rank, JoinRank
  <2>3. Path(r, Locked("publisher", AddedSubscriber), Nothing, Nothing)
    BY <2>2, LockedNothing, LockedInOrder DEF AddedSubscriber, Welcome
  <2>. QED
    BY <1>3, <2>3 DEF Handlers, PublisherRun
<1>4. CASE r = "subscriber"
  <2>1. MayLock(r, "manager", Nothing)
    BY <1>4, NothingLocked DEF MayLock, Mutex, Rank, JoinRank
  <2>. QED
    BY <1>4, <2>1, LockedNothing DEF Handlers, SubscriberRun
<1>. QED
  BY <1>1, <1>2, <1>3, <1>4 DEF Reader


-----------------------------------------------------------------------------
(* The inductive invariant.                                                   *)

\* What thread t has still to do, and what it has locked, fit to mode k.
Follows(k, t) == Path(k, code[t], Held(t), Nothing)

\* A thread of the application uses objects, is about to suspend or resume the
\* node, is suspending or resuming it, or deletes an object alone.
CallOK(a) ==
    \/ Follows("using", a)
    \/ code[a] \in {Suspend, Resume} /\ Held(a) = Nothing
    \/ Follows("suspending", a)
    \/ Follows("deleting", a) /\ destroyed /\ \A b \in Application \ {a} : code[b] = <<>>

LockInv ==
    /\ LocksTypeOK
    /\ \A r \in Reader : Follows(r, r)
    /\ \A a \in Application : CallOK(a)

LEMMA ActorFacts ==
    /\ Free \notin Actor
    /\ Application \cap Reader = {}
    /\ \A r \in Reader : r \in Mode /\ r \notin {"using", "suspending", "deleting"}
    /\ \A a \in Application : Calls[a] \subseteq DOMAIN Operation
BY CallerAssumption DEF Actor, Reader, Free, Mode

LEMMA PathDone ==
    ASSUME NEW k, NEW d, NEW e, Path(k, <<>>, d, e)
    PROVE  d = e
<1>1. PICK f : Leads(k, <<>>, d, e, f)
  BY DEF Path
<1>2. Len(<<>>) = 0
  OBVIOUS
<1>. QED
  BY <1>1, <1>2 DEF Leads

LEMMA HeldDepth ==
    ASSUME LocksTypeOK, NEW t
    PROVE  Held(t) \in Depth
BY DEF LocksTypeOK, Held, Depth

(* The head of a thread's code is an instruction of a kind.                   *)
LEMMA CurrentInstruction ==
    ASSUME LocksTypeOK, NEW t \in Actor, code[t] # <<>>
    PROVE  /\ Current(t) \in Instruction
           /\ Tail(code[t]) \in Seq(Instruction)
           /\ Current(t).do \in {"lock", "unlock"} => Current(t).on \in Mutex
           /\ Current(t).do \in {"stop", "wake", "join", "start"} => Current(t).on \in Reader
<1>1. code[t] \in Seq(Instruction)
  BY DEF LocksTypeOK
<1>2. Current(t) \in Instruction /\ Tail(code[t]) \in Seq(Instruction)
  BY <1>1, HeadTail DEF Current
<1>. HIDE DEF Current
<1>. QED
  BY <1>2 DEF Instruction

(* A step of a thread changes what it has locked as its instruction says, and *)
(* nothing of what other threads have locked.                                 *)
LEMMA HeldStep ==
    ASSUME LocksTypeOK, NEW t \in Actor, ThreadStep(t)
    PROVE  /\ Held(t)' = After(Current(t), Held(t))
           /\ \A u \in Actor \ {t} : Held(u)' = Held(u)
<1>. DEFINE m == Current(t).on
<1>0. code[t] # <<>> /\ t # Free
  BY ActorFacts DEF ThreadStep
<1>1. CASE LockMutex(t)
  <2>1. m \in Mutex /\ Current(t).do = "lock" /\ holder[m] \in {Free, t}
    BY <1>0, <1>1, CurrentInstruction DEF LockMutex
  <2>2. holder' = [holder EXCEPT ![m] = t] /\ depth' = [depth EXCEPT ![m] = @ + 1]
    BY <1>1 DEF LockMutex
  <2>3. holder[m] = Free => depth[m] = 0
    BY <2>1 DEF LocksTypeOK
  <2>4. After(Current(t), Held(t)) = Once(Held(t), m)
    BY <2>1 DEF After
  <2>. HIDE DEF m
  <2>5. Held(t)' = Once(Held(t), m)
    <3>1. \A n \in Mutex : (IF holder'[n] = t THEN depth'[n] ELSE 0)
              = IF n = m THEN Held(t)[m] + 1 ELSE Held(t)[n]
      BY <2>1, <2>2, <2>3, <1>0 DEF Held, LocksTypeOK
    <3>2. Once(Held(t), m) = [n \in Mutex |-> IF n = m THEN Held(t)[m] + 1 ELSE Held(t)[n]]
      BY <2>1, HeldDepth DEF Once, Depth
    <3>. QED
      BY <3>1, <3>2 DEF Held
  <2>6. \A u \in Actor \ {t} : Held(u)' = Held(u)
    BY <2>1, <2>2, <2>3, ActorFacts DEF Held, LocksTypeOK
  <2>. QED
    BY <2>4, <2>5, <2>6
<1>2. CASE UnlockMutex(t)
  <2>1. m \in Mutex /\ Current(t).do = "unlock"
    BY <1>0, <1>2, CurrentInstruction DEF UnlockMutex
  <2>2. /\ holder' = [holder EXCEPT ![m] = IF @ = t /\ depth[m] = 1 THEN Free ELSE @]
        /\ depth' = [depth EXCEPT ![m] = IF holder[m] = t THEN @ - 1 ELSE @]
    BY <1>2 DEF UnlockMutex
  <2>3. holder[m] = t => depth[m] # 0
    BY <2>1, <1>0 DEF LocksTypeOK
  <2>4. After(Current(t), Held(t)) = [Held(t) EXCEPT ![m] = IF @ = 0 THEN 0 ELSE @ - 1]
    BY <2>1 DEF After
  <2>. HIDE DEF m
  <2>5. Held(t)' = [Held(t) EXCEPT ![m] = IF @ = 0 THEN 0 ELSE @ - 1]
    <3>. DEFINE less == IF Held(t)[m] = 0 THEN 0 ELSE Held(t)[m] - 1
    <3>1. \A n \in Mutex : (IF holder'[n] = t THEN depth'[n] ELSE 0)
              = IF n = m THEN less ELSE Held(t)[n]
      BY <2>1, <2>2, <2>3, <1>0 DEF Held, LocksTypeOK
    <3>2. [Held(t) EXCEPT ![m] = less] = [n \in Mutex |-> IF n = m THEN less ELSE Held(t)[n]]
      BY <2>1, HeldDepth DEF Depth
    <3>. QED
      BY <3>1, <3>2 DEF Held
  <2>6. \A u \in Actor \ {t} : Held(u)' = Held(u)
    BY <2>1, <2>2, <2>3, ActorFacts DEF Held, LocksTypeOK
  <2>. QED
    BY <2>4, <2>5, <2>6
<1>3. CASE ~(LockMutex(t) \/ UnlockMutex(t))
  <2>1. UNCHANGED <<holder, depth>> /\ Current(t).do \notin {"lock", "unlock"}
    BY <1>3 DEF ThreadStep, StopThread, WakeThread, JoinThread, StartThread, TestSuspended
  <2>. QED
    BY <2>1 DEF Held, After
<1>. QED
  BY <1>1, <1>2, <1>3


LEMMA ExceptType ==
    ASSUME NEW A, NEW B, NEW f \in [A -> B], NEW x \in A, NEW v \in B
    PROVE  [f EXCEPT ![x] = v] \in [A -> B]
OBVIOUS

LEMMA CodeStep ==
    ASSUME NEW t, ThreadStep(t)
    PROVE  \/ code' = [code EXCEPT ![t] = Tail(code[t])]
           \/ /\ Current(t).do \in {"suspended", "resumed"}
              /\ code' = [code EXCEPT ![t] = <<Do("unlock", "node")>>]
<1>1. CASE TestSuspended(t)
  <2>1. CASE suspended = (Current(t).do = "suspended")
    BY <1>1, <2>1 DEF TestSuspended
  <2>2. CASE suspended # (Current(t).do = "suspended")
    BY <1>1, <2>2 DEF TestSuspended
  <2>. QED
    BY <2>1, <2>2
<1>2. CASE ~TestSuspended(t)
  BY <1>2 DEF ThreadStep, LockMutex, UnlockMutex, StopThread, WakeThread, JoinThread, StartThread,
              Goes
<1>. QED
  BY <1>1, <1>2

LEMMA LocksTypeStep ==
    ASSUME LocksTypeOK, LockNext
    PROVE  LocksTypeOK'
<1>1. ASSUME NEW a \in Application, NEW c \in Calls[a], Call(a, c)
      PROVE  LocksTypeOK'
  <2>1. Operation[c] \in Seq(Instruction)
    <3>1. c \in DOMAIN Operation
      BY ActorFacts
    <3>2. CASE c \in Destructors
      BY <3>2, DeletingPaths DEF Path
    <3>3. CASE c \in {"suspend", "resume"}
      BY <3>3, SuspendingPaths DEF Operation
    <3>4. CASE c \notin Destructors \cup {"suspend", "resume"}
      BY <3>1, <3>4, UsingPaths DEF Path
    <3>. QED
      BY <3>2, <3>3, <3>4
  <2>2. code' \in [Actor -> Seq(Instruction)]
    BY <1>1, <2>1 DEF Call, LocksTypeOK, Actor
  <2>. QED
    BY <1>1, <2>2 DEF Call, LocksTypeOK
<1>2. ASSUME NEW r \in Reader, Receive(r)
      PROVE  LocksTypeOK'
  <2>1. PICK h \in Handlers[r] : code' = [code EXCEPT ![r] = h]
    BY <1>2, Zenon DEF Receive
  <2>2. h \in Seq(Instruction)
    BY HandlerPaths DEF Path
  <2>3. code' \in [Actor -> Seq(Instruction)]
    BY <2>1, <2>2 DEF LocksTypeOK, Actor
  <2>. QED
    BY <1>2, <2>3 DEF Receive, LocksTypeOK
<1>3. ASSUME NEW r \in Reader, Exit(r)
      PROVE  LocksTypeOK'
  BY <1>3 DEF Exit, LocksTypeOK
<1>4. ASSUME NEW t \in Actor, ThreadStep(t)
      PROVE  LocksTypeOK'
  <2>. DEFINE m == Current(t).on
  <2>0. code[t] # <<>> /\ t # Free
    BY <1>4, ActorFacts DEF ThreadStep
  <2>1. code' \in [Actor -> Seq(Instruction)]
    <3>1. Tail(code[t]) \in Seq(Instruction) /\ <<Do("unlock", "node")>> \in Seq(Instruction)
      BY <2>0, CurrentInstruction, SuspendingPaths DEF Path
    <3>. QED
      BY <1>4, <3>1, CodeStep, ExceptType, Zenon DEF LocksTypeOK
  <2>2. CASE LockMutex(t)
    <3>1. m \in Mutex
      BY <2>0, <2>2, CurrentInstruction DEF LockMutex
    <3>2. /\ holder' = [holder EXCEPT ![m] = t] /\ depth' = [depth EXCEPT ![m] = @ + 1]
          /\ UNCHANGED <<started, alive, woken, suspended, destroyed>>
      BY <2>2 DEF LockMutex
    <3>. HIDE DEF m
    <3>. QED
      BY <2>0, <2>1, <3>1, <3>2 DEF LocksTypeOK
  <2>3. CASE UnlockMutex(t)
    <3>1. m \in Mutex
      BY <2>0, <2>3, CurrentInstruction DEF UnlockMutex
    <3>2. /\ holder' = [holder EXCEPT ![m] = IF @ = t /\ depth[m] = 1 THEN Free ELSE @]
          /\ depth' = [depth EXCEPT ![m] = IF holder[m] = t THEN @ - 1 ELSE @]
          /\ UNCHANGED <<started, alive, woken, suspended, destroyed>>
      BY <2>3 DEF UnlockMutex
    <3>. HIDE DEF m
    <3>. QED
      BY <2>0, <2>1, <3>1, <3>2 DEF LocksTypeOK
  <2>4. CASE StopThread(t) \/ WakeThread(t) \/ JoinThread(t) \/ StartThread(t)
    <3>1. m \in Reader
      BY <2>0, <2>4, CurrentInstruction DEF StopThread, WakeThread, JoinThread, StartThread
    <3>2. /\ started' \in {started, [started EXCEPT ![m] = FALSE], [started EXCEPT ![m] = TRUE]}
          /\ alive' \in {alive, [alive EXCEPT ![m] = TRUE]}
          /\ woken' \in {woken, [woken EXCEPT ![m] = TRUE]}
          /\ UNCHANGED <<holder, depth, suspended, destroyed>>
      BY <2>4, Zenon DEF StopThread, WakeThread, JoinThread, StartThread
    <3>. HIDE DEF m
    <3>3. /\ started' \in [Reader -> BOOLEAN] /\ alive' \in [Reader -> BOOLEAN]
          /\ woken' \in [Reader -> BOOLEAN]
      BY <3>1, <3>2, ExceptType, Zenon DEF LocksTypeOK
    <3>. QED
      BY <2>1, <3>2, <3>3 DEF LocksTypeOK
  <2>5. CASE TestSuspended(t)
    BY <2>1, <2>5 DEF LocksTypeOK, TestSuspended
  <2>. QED
    BY <1>4, <2>2, <2>3, <2>4, <2>5 DEF ThreadStep
<1>. QED
  BY <1>1, <1>2, <1>3, <1>4 DEF LockNext


LEMMA FollowsStep ==
    ASSUME LocksTypeOK, NEW k, NEW t \in Actor, ThreadStep(t), Follows(k, t)
    PROVE  /\ Allowed(k, Current(t), Held(t))
           /\ code' = [code EXCEPT ![t] = Tail(code[t])] => Follows(k, t)'
<1>1. code[t] # <<>> /\ Held(t) \in Depth
  BY HeldDepth DEF ThreadStep
<1>2. Allowed(k, Current(t), Held(t)) /\ Path(k, Tail(code[t]), After(Current(t), Held(t)), Nothing)
  BY <1>1, PathTail DEF Follows, Current
<1>3. Held(t)' = After(Current(t), Held(t))
  BY HeldStep
<1>4. code' = [code EXCEPT ![t] = Tail(code[t])] => code'[t] = Tail(code[t])
  BY DEF LocksTypeOK
<1>5. code' = [code EXCEPT ![t] = Tail(code[t])] => Path(k, code'[t], Held(t)', Nothing)
  BY <1>2, <1>3, <1>4, Zenon
<1>. QED
  BY <1>2, <1>5 DEF Follows

LEMMA FollowsOthers ==
    ASSUME LocksTypeOK, NEW t \in Actor, ThreadStep(t), NEW u \in Actor \ {t}
    PROVE  /\ code'[u] = code[u] /\ Held(u)' = Held(u)
           /\ \A k : Follows(k, u) => Follows(k, u)'
<1>1. code'[u] = code[u]
  BY CodeStep, Zenon DEF LocksTypeOK
<1>. QED
  BY <1>1, HeldStep, Zenon DEF Follows

LEMMA LockInvStep ==
    ASSUME LockInv, [LockNext]_lockVars
    PROVE  LockInv'
<1>. USE DEF LockInv
<1>0. CASE UNCHANGED lockVars
  BY <1>0 DEF lockVars, LocksTypeOK, Follows, CallOK, Held
<1>1. LockNext => LocksTypeOK'
  BY LocksTypeStep, Zenon
<1>2. ASSUME NEW a \in Application, NEW c \in Calls[a], Call(a, c)
      PROVE  LockInv'
  <2>1. /\ UNCHANGED <<holder, depth>> /\ code' = [code EXCEPT ![a] = Operation[c]]
        /\ code[a] = <<>> /\ ~destroyed /\ c \in DOMAIN Operation
    BY <1>2, ActorFacts DEF Call
  <2>2. /\ \A t \in Actor \ {a} : code'[t] = code[t]
        /\ code'[a] = Operation[c]
        /\ \A t : Held(t)' = Held(t)
    BY <2>1 DEF LocksTypeOK, Held, Actor
  <2>3. \A r \in Reader : Follows(r, r)'
    BY <2>2, ActorFacts, Zenon DEF Follows, Actor
  <2>4. \A b \in Application \ {a} : CallOK(b)'
    <3>. SUFFICES ASSUME NEW b \in Application \ {a}
                  PROVE  CallOK(b)'
      OBVIOUS
    <3>1. code'[b] = code[b] /\ Held(b)' = Held(b) /\ CallOK(b)
      BY <2>2 DEF Actor
    <3>. QED
      BY <2>1, <3>1, Zenon DEF CallOK, Follows
  <2>5. Held(a) = Nothing
    <3>1. CallOK(a) /\ Suspend # <<>> /\ Resume # <<>>
      BY SuspendingPaths
    <3>. QED
      BY <2>1, <3>1, PathDone DEF CallOK, Follows
  <2>6. CallOK(a)'
    <3>1. CASE c \in Destructors
      <4>1. Follows("deleting", a)'
        BY <2>2, <2>5, <3>1, DeletingPaths, Zenon DEF Follows
      <4>2. destroyed' /\ \A b \in Application \ {a} : code'[b] = <<>>
        <5>1. destroyed' /\ \A b \in Application : code[b] = <<>>
          BY <1>2, <3>1, Zenon DEF Call
        <5>. QED
          BY <2>2, <5>1 DEF Actor
      <4>. QED
        BY <4>1, <4>2 DEF CallOK
    <3>2. CASE c \in {"suspend", "resume"}
      <4>1. Operation[c] \in {Suspend, Resume}
        BY <3>2 DEF Operation
      <4>. QED
        BY <2>2, <2>5, <4>1, Zenon DEF CallOK
    <3>3. CASE c \notin Destructors \cup {"suspend", "resume"}
      <4>1. Follows("using", a)'
        BY <2>1, <2>2, <2>5, <3>3, UsingPaths, Zenon DEF Follows
      <4>. QED
        BY <4>1 DEF CallOK
    <3>. QED
      BY <3>1, <3>2, <3>3
  <2>7. LocksTypeOK'
    BY <1>1, <1>2 DEF LockNext
  <2>. QED
    BY <2>3, <2>4, <2>6, <2>7, Zenon
<1>3. ASSUME NEW r \in Reader, Receive(r)
      PROVE  LockInv'
  <2>1. /\ UNCHANGED <<holder, depth, destroyed>> /\ code[r] = <<>>
        /\ \E h \in Handlers[r] : code' = [code EXCEPT ![r] = h]
    BY <1>3, Zenon DEF Receive
  <2>2. PICK h \in Handlers[r] : code' = [code EXCEPT ![r] = h]
    BY <2>1, Zenon
  <2>3. /\ \A t \in Actor \ {r} : code'[t] = code[t]
        /\ code'[r] = h
        /\ \A t : Held(t)' = Held(t)
    BY <2>1, <2>2 DEF LocksTypeOK, Held, Actor
  <2>4. Held(r) = Nothing
    BY <2>1, PathDone DEF Follows
  <2>5. Follows(r, r)'
    BY <2>3, <2>4, HandlerPaths, Zenon DEF Follows
  <2>6. \A q \in Reader \ {r} : Follows(q, q)'
    BY <2>3, Zenon DEF Follows, Actor
  <2>7. \A a \in Application : CallOK(a)'
    <3>1. \A a \in Application : code'[a] = code[a] /\ Held(a)' = Held(a)
      BY <2>3, ActorFacts DEF Actor
    <3>. QED
      BY <2>1, <3>1, Zenon DEF CallOK, Follows
  <2>8. LocksTypeOK'
    BY <1>1, <1>3, Zenon DEF LockNext
  <2>. QED
    BY <2>5, <2>6, <2>7, <2>8
<1>4. ASSUME NEW r \in Reader, Exit(r)
      PROVE  LockInv'
  <2>1. UNCHANGED <<holder, depth, code, destroyed>>
    BY <1>4, Zenon DEF Exit
  <2>2. LocksTypeOK'
    BY <1>1, <1>4 DEF LockNext
  <2>. QED
    BY <2>1, <2>2 DEF Follows, CallOK, Held
<1>5. ASSUME NEW t \in Actor, ThreadStep(t)
      PROVE  LockInv'
  <2>0. UNCHANGED destroyed /\ code[t] # <<>>
    BY <1>5 DEF ThreadStep, LockMutex, UnlockMutex, StopThread, WakeThread, JoinThread,
                StartThread, TestSuspended
  <2>1. \A r \in Reader : Follows(r, r)'
    <3>1. ASSUME NEW r \in Reader, r # t
          PROVE  Follows(r, r)'
      BY <1>5, <3>1, FollowsOthers DEF Actor
    <3>2. CASE t \in Reader
      <4>1. Allowed(t, Current(t), Held(t))
        BY <1>5, <3>2, FollowsStep
      <4>2. code' = [code EXCEPT ![t] = Tail(code[t])]
        BY <1>5, <3>2, <4>1, CodeStep DEF Allowed
      <4>3. Follows(t, t)'
        BY <1>5, <3>2, <4>2, FollowsStep, Zenon
      <4>. QED
        BY <3>1, <4>3
    <3>. QED
      BY <3>1, <3>2
  <2>2. ASSUME NEW a \in Application, a # t
        PROVE  CallOK(a)'
    <3>1. code'[a] = code[a] /\ Held(a)' = Held(a) /\ CallOK(a)
      BY <1>5, <2>2, FollowsOthers DEF Actor
    <3>2. ASSUME \A b \in Application \ {a} : code[b] = <<>>
          PROVE  \A b \in Application \ {a} : code'[b] = <<>>
      BY <1>5, <2>0, <2>2, <3>2, FollowsOthers DEF Actor
    <3>. QED
      BY <2>0, <3>1, <3>2, Zenon DEF CallOK, Follows
  <2>3. ASSUME t \in Application
        PROVE  CallOK(t)'
    <3>0. CallOK(t)
      BY <2>3
    <3>1. CASE Follows("using", t)
      <4>1. code' = [code EXCEPT ![t] = Tail(code[t])]
        BY <1>5, <3>1, FollowsStep, CodeStep, Zenon DEF Allowed
      <4>. QED
        BY <1>5, <3>1, <4>1, FollowsStep, Zenon DEF CallOK
    <3>2. CASE code[t] \in {Suspend, Resume} /\ Held(t) = Nothing
      <4>1. Current(t) = Do("lock", "node") /\ Path("suspending", Tail(code[t]), Once(Nothing, "node"), Nothing)
        BY <3>2, SuspendingPaths DEF Current
      <4>2. code' = [code EXCEPT ![t] = Tail(code[t])]
        BY <1>5, <4>1, CodeStep, DoFields
      <4>3. code'[t] = Tail(code[t])
        BY <4>2 DEF LocksTypeOK
      <4>4. Held(t)' = Once(Nothing, "node")
        BY <1>5, <3>2, <4>1, HeldStep, AfterLock, NothingLocked DEF Mutex
      <4>5. Follows("suspending", t)'
        BY <4>1, <4>3, <4>4, Zenon DEF Follows
      <4>. QED
        BY <4>5 DEF CallOK
    <3>3. CASE Follows("suspending", t)
      <4>1. Allowed("suspending", Current(t), Held(t))
        BY <1>5, <3>3, FollowsStep
      <4>2. CASE code' = [code EXCEPT ![t] = Tail(code[t])]
        BY <1>5, <3>3, <4>2, FollowsStep, Zenon DEF CallOK
      <4>3. CASE /\ Current(t).do \in {"suspended", "resumed"}
                 /\ code' = [code EXCEPT ![t] = <<Do("unlock", "node")>>]
        <5>1. Held(t) = Once(Nothing, "node")
          BY <4>1, <4>3 DEF Allowed
        <5>2. Held(t)' = Once(Nothing, "node")
          BY <1>5, <4>3, <5>1, HeldStep DEF After
        <5>3. code'[t] = <<Do("unlock", "node")>>
          BY <4>3, Zenon DEF LocksTypeOK
        <5>4. Path("suspending", <<Do("unlock", "node")>>, Once(Nothing, "node"), Nothing)
          BY SuspendingPaths
        <5>5. Follows("suspending", t)'
          BY <5>2, <5>3, <5>4, Zenon DEF Follows
        <5>. QED
          BY <5>5 DEF CallOK
      <4>. QED
        BY <1>5, <4>2, <4>3, CodeStep
    <3>4. CASE Follows("deleting", t) /\ destroyed /\ \A b \in Application \ {t} : code[b] = <<>>
      <4>1. code' = [code EXCEPT ![t] = Tail(code[t])]
        BY <1>5, <3>4, FollowsStep, CodeStep DEF Allowed
      <4>2. Follows("deleting", t)'
        BY <1>5, <3>4, <4>1, FollowsStep, Zenon
      <4>3. \A b \in Application \ {t} : code'[b] = <<>>
        BY <1>5, <3>4, FollowsOthers DEF Actor
      <4>. QED
        BY <2>0, <3>4, <4>2, <4>3 DEF CallOK
    <3>. QED
      BY <3>0, <3>1, <3>2, <3>3, <3>4 DEF CallOK
  <2>4. LocksTypeOK'
    BY <1>1, <1>5 DEF LockNext
  <2>. QED
    BY <2>1, <2>2, <2>3, <2>4
<1>. QED
  BY <1>0, <1>2, <1>3, <1>4, <1>5 DEF LockNext


LEMMA LockInvInit ==
    ASSUME LockInit
    PROVE  LockInv
<1>1. LocksTypeOK
  <2>1. <<>> \in Seq(Instruction)
    OBVIOUS
  <2>2. code \in [Actor -> Seq(Instruction)]
    BY <2>1 DEF LockInit
  <2>3. /\ holder \in [Mutex -> Actor \cup {Free}] /\ depth \in [Mutex -> Nat]
        /\ \A m \in Mutex : holder[m] = Free <=> depth[m] = 0
    BY DEF LockInit
  <2>4. /\ started \in [Reader -> BOOLEAN] /\ alive \in [Reader -> BOOLEAN]
        /\ woken \in [Reader -> BOOLEAN] /\ suspended \in BOOLEAN /\ destroyed \in BOOLEAN
    BY Zenon DEF LockInit
  <2>. QED
    BY <2>2, <2>3, <2>4 DEF LocksTypeOK
<1>2. \A t \in Actor : code[t] = <<>> /\ Held(t) = Nothing
  BY ActorFacts DEF LockInit, Held, Nothing
<1>3. \A k, t : t \in Actor => Follows(k, t)
  BY <1>2, NothingLocked, PathEmpty, Zenon DEF Follows
<1>. QED
  BY <1>1, <1>3 DEF LockInv, CallOK, Actor

(* In every reachable state each thread is on a path of its handler that      *)
(* releases what it has locked, a mutex is held by the thread that locked it, *)
(* and a thread that is joined has been told to end (the lock and unlock      *)
(* calls of the handlers and Thread::join).                                   *)
THEOREM LockInvariant == LockSpec => []LockInv
BY LockInvInit, LockInvStep, PTL DEF LockSpec

(* A mutex is held by one thread, as often as it was locked and not unlocked: *)
(* also after NodeRun has unlocked a mutex that its thread does not hold.     *)
THEOREM LocksTypeCorrect == LockSpec => []LocksTypeOK
<1>1. LockInv => LocksTypeOK
  BY DEF LockInv
<1>. QED
  BY <1>1, LockInvariant, PTL

-----------------------------------------------------------------------------
(* Circles of threads.                                                        *)

\* The place in the order of what t waits for.
Awaits(t) == IF Current(t).do = "lock" THEN Rank(Current(t).on) ELSE JoinRank(Current(t).on)

LEMMA WaitsCase ==
    ASSUME LocksTypeOK, NEW t \in Actor, WaitsFor(t) # {}
    PROVE  /\ code[t] # <<>>
           /\ \/ /\ Current(t).do = "lock" /\ Current(t).on \in Mutex
                 /\ holder[Current(t).on] \notin {Free, t}
                 /\ WaitsFor(t) = {holder[Current(t).on]}
              \/ /\ Current(t).do = "join" /\ Current(t).on \in Reader
                 /\ WaitsFor(t) = {Current(t).on}
<1>1. code[t] # <<>>
  BY DEF WaitsFor
<1>2. CASE Current(t).do = "lock"
  BY <1>1, <1>2, CurrentInstruction DEF WaitsFor
<1>3. CASE Current(t).do = "join"
  BY <1>1, <1>3, CurrentInstruction DEF WaitsFor
<1>4. CASE Current(t).do \notin {"lock", "join"}
  BY <1>1, <1>4 DEF WaitsFor
<1>. QED
  BY <1>1, <1>2, <1>3, <1>4

(* A thread that does not go against the order waits in the order.            *)
LEMMA WaitsInOrder ==
    ASSUME LockInv, NEW t \in Actor, code[t] # <<>>, ~(t \in Application /\ AgainstOrder(t))
    PROVE  /\ InOrder(Current(t), Held(t))
           /\ t \in Reader => /\ Current(t).do \in {"lock", "unlock"}
                              /\ Current(t).do = "lock" => Rank(Current(t).on) > JoinRank(t)
<1>. USE DEF LockInv
<1>0. Held(t) \in Depth
  BY HeldDepth, Zenon
<1>1. \A k : Follows(k, t) => Allowed(k, Current(t), Held(t))
  BY <1>0, PathTail, Zenon DEF Follows, Current
<1>2. CASE t \in Reader
  BY <1>1, <1>2, ZenonT(30) DEF Allowed
<1>3. CASE t \in Application
  <2>1. \A m \in Mutex : Held(t)[m] > 0 => Holds(t, m)
    BY DEF Held, Holds
  <2>2. ~Excepted(Current(t), Held(t))
    BY <1>3, <2>1 DEF Excepted, AgainstOrder, Mutex
  <2>3. CallOK(t) /\ t \notin Reader
    BY <1>3, ActorFacts, Zenon
  <2>4. CASE code[t] \in {Suspend, Resume} /\ Held(t) = Nothing
    <3>1. Current(t) = Do("lock", "node")
      BY <2>4, SuspendingPaths, Zenon DEF Current
    <3>. QED
      BY <2>3, <2>4, <3>1, NothingLocked, DoFields DEF InOrder, Mutex
  <2>5. CASE ~(code[t] \in {Suspend, Resume} /\ Held(t) = Nothing)
    <3>1. \E k \in {"using", "suspending", "deleting"} : Allowed(k, Current(t), Held(t))
      BY <1>1, <2>3, <2>5 DEF CallOK
    <3>. QED
      BY <2>2, <2>3, <3>1 DEF Allowed
  <2>. QED
    BY <2>4, <2>5
<1>. QED
  BY <1>2, <1>3 DEF Actor

LEMMA RanksDiffer ==
    /\ \A m \in Mutex : Rank(m) \in 0 .. 8
    /\ \A r \in Reader : JoinRank(r) \in 0 .. 8
    /\ \A m, n \in Mutex : m # n => Rank(m) # Rank(n)
    /\ \A m \in Mutex, r \in Reader : Rank(m) # JoinRank(r)
BY DEF Rank, JoinRank, Mutex, Reader

(* In a circle whose threads wait in the order, the one that a thread waits   *)
(* for waits for something later in the order.                                *)
LEMMA WaitsLater ==
    ASSUME LockInv, NEW S \in SUBSET Actor, Circle(S), NEW t \in S,
           \A u \in S \cap Application : ~AgainstOrder(u)
    PROVE  Awaits(t) \in 0 .. 8 /\ \E u \in S : Awaits(u) > Awaits(t)
<1>0. LocksTypeOK
  BY DEF LockInv
<1>1. /\ \A u \in S : WaitsFor(u) # {} /\ WaitsFor(u) \subseteq S
      /\ \A u \in S : u \in Actor
  BY DEF Circle
<1>2. \A u \in S : Awaits(u) \in 0 .. 8
  <2>. TAKE u \in S
  <2>1. \/ Current(u).do = "lock" /\ Current(u).on \in Mutex
        \/ Current(u).do = "join" /\ Current(u).on \in Reader
    BY <1>0, <1>1, WaitsCase
  <2>. HIDE DEF Current
  <2>2. CASE Current(u).do = "lock"
    BY <2>1, <2>2, RanksDiffer DEF Awaits
  <2>3. CASE Current(u).do = "join"
    BY <2>1, <2>3, RanksDiffer DEF Awaits
  <2>. QED
    BY <2>1, <2>2, <2>3
<1>3. CASE Current(t).do = "lock"
  <2>. DEFINE m == Current(t).on
              u == holder[m]
  <2>1. m \in Mutex /\ u # Free /\ u \in S
    BY <1>0, <1>1, <1>3, WaitsCase
  <2>2. Held(u)[m] > 0
    BY <1>0, <2>1 DEF Held, LocksTypeOK
  <2>3. Awaits(t) = Rank(m)
    BY <1>3 DEF Awaits
  <2>4. u \in Actor /\ code[u] # <<>> /\ InOrder(Current(u), Held(u))
    BY <1>0, <1>1, <2>1, WaitsCase, WaitsInOrder, Zenon
  <2>. HIDE DEF m
  <2>5. CASE Current(u).do = "lock"
    <3>1. Current(u).on \in Mutex /\ Current(u).on # m
      BY <1>0, <1>1, <2>1, <2>5, WaitsCase
    <3>2. Rank(m) <= Rank(Current(u).on)
      BY <2>1, <2>2, <2>4, <2>5 DEF InOrder, UpTo
    <3>3. Awaits(u) = Rank(Current(u).on)
      BY <2>5 DEF Awaits
    <3>. QED
      BY <1>2, <2>1, <2>3, <3>1, <3>2, <3>3, RanksDiffer
  <2>6. CASE Current(u).do = "join"
    <3>1. Current(u).on \in Reader
      BY <1>0, <1>1, <2>1, <2>6, WaitsCase
    <3>2. Rank(m) <= JoinRank(Current(u).on)
      BY <2>1, <2>2, <2>4, <2>6 DEF InOrder, UpTo
    <3>3. Awaits(u) = JoinRank(Current(u).on)
      BY <2>6 DEF Awaits
    <3>. QED
      BY <1>2, <2>1, <2>3, <3>1, <3>2, <3>3, RanksDiffer
  <2>. QED
    BY <1>0, <1>1, <2>1, <2>5, <2>6, WaitsCase
<1>4. CASE Current(t).do = "join"
  <2>. DEFINE r == Current(t).on
  <2>1. r \in Reader /\ r \in S
    BY <1>0, <1>1, <1>4, WaitsCase
  <2>2. Awaits(t) = JoinRank(r)
    BY <1>4, Zenon DEF Awaits
  <2>. HIDE DEF r
  <2>3. code[r] # <<>> /\ r \in Actor
    BY <1>0, <1>1, <2>1, WaitsCase, Zenon
  <2>4. Current(r).do = "lock" /\ Rank(Current(r).on) > JoinRank(r)
    BY <1>0, <1>1, <2>1, <2>3, WaitsCase, WaitsInOrder
  <2>5. Awaits(r) > Awaits(t)
    BY <2>2, <2>4 DEF Awaits
  <2>. QED
    BY <1>2, <2>1, <2>5, Zenon
<1>. QED
  BY <1>0, <1>1, <1>3, <1>4, WaitsCase

LEMMA CirclesKnown ==
    ASSUME LockInv
    PROVE  OnlyKnownCircles
<1>. SUFFICES ASSUME NEW S \in SUBSET Actor, Circle(S),
                     \A u \in S \cap Application : ~AgainstOrder(u)
              PROVE  FALSE
  BY DEF OnlyKnownCircles
<1>1. \A t \in S : Awaits(t) \in 0 .. 8 /\ \E u \in S : Awaits(u) > Awaits(t)
  BY WaitsLater
<1>2. \A t \in S : Awaits(t) \in 0 .. 7
  BY <1>1
<1>3. \A t \in S : Awaits(t) \in 0 .. 6
  BY <1>1, <1>2
<1>4. \A t \in S : Awaits(t) \in 0 .. 5
  BY <1>1, <1>3
<1>5. \A t \in S : Awaits(t) \in 0 .. 4
  BY <1>1, <1>4
<1>6. \A t \in S : Awaits(t) \in 0 .. 3
  BY <1>1, <1>5
<1>7. \A t \in S : Awaits(t) \in 0 .. 2
  BY <1>1, <1>6
<1>8. \A t \in S : Awaits(t) \in 0 .. 1
  BY <1>1, <1>7
<1>9. \A t \in S : Awaits(t) = 0
  BY <1>1, <1>8
<1>. QED
  BY <1>1, <1>9 DEF Circle

(* Whatever the application calls from however many threads, threads wait for *)
(* each other in a circle only where one of the application goes against the  *)
(* order of the mutexes in suspend, resume, addService or ~ZeroMQPublisher.   *)
THEOREM NoOtherCircles == LockSpec => []OnlyKnownCircles
<1>1. LockInv => OnlyKnownCircles
  BY CirclesKnown
<1>. QED
  BY <1>1, LockInvariant, PTL


-----------------------------------------------------------------------------
(* Threads that are joined.                                                   *)

Earlier(s, i, x) == \E j \in 1 .. i - 1 : s[j] = x

\* Every thread that s joins is in S, or s stops it before, and is in W, or s
\* wakes it before.
Ready(s, S, W) ==
    \A i \in 1 .. Len(s), r \in Reader :
        s[i] = Do("join", r) =>
            /\ r \in S \/ Earlier(s, i, Do("stop", r))
            /\ r \in W \/ Earlier(s, i, Do("wake", r))

NoJoin(s) == \A i \in 1 .. Len(s) : s[i].do # "join"
NoStart(s) == \A i \in 1 .. Len(s) : s[i].do # "start"

Stopped == {r \in Reader : ~started[r]}
Ending == {r \in Reader : woken[r] \/ ~alive[r]}

JoinInv ==
    /\ LockInv
    /\ \A t \in Actor : Ready(code[t], Stopped, Ending) /\ (NoJoin(code[t]) \/ NoStart(code[t]))

LEMMA NoJoinReady ==
    ASSUME NEW s, NoJoin(s), NEW S, NEW W
    PROVE  Ready(s, S, W)
BY DoFields DEF NoJoin, Ready

LEMMA ReadyMore ==
    ASSUME NEW s, NEW S, NEW W, Ready(s, S, W), NEW T, NEW V, S \subseteq T, W \subseteq V
    PROVE  Ready(s, T, V)
BY DEF Ready

LEMMA ReadyTail ==
    ASSUME NEW s \in Seq(Instruction), s # <<>>, NEW S, NEW W, Ready(s, S, W), NEW T, NEW V,
           \A r \in Reader : r \in S \/ Head(s) = Do("stop", r) => r \in T,
           \A r \in Reader : r \in W \/ Head(s) = Do("wake", r) => r \in V
    PROVE  Ready(Tail(s), T, V)
<1>. DEFINE c == Tail(s)
<1>1. /\ c \in Seq(Instruction) /\ Len(c) = Len(s) - 1 /\ Len(s) \in Nat /\ Len(s) >= 1
      /\ \A j \in 1 .. Len(c) : c[j] = s[j + 1]
      /\ Head(s) = s[1]
  BY HeadTail
<1>. HIDE DEF c
<1>2. ASSUME NEW i \in 1 .. Len(c), NEW x, Earlier(s, i + 1, x)
      PROVE  Head(s) = x \/ Earlier(c, i, x)
  <2>1. PICK j \in 1 .. (i + 1) - 1 : s[j] = x
    BY <1>2 DEF Earlier
  <2>2. CASE j = 1
    BY <1>1, <2>1, <2>2
  <2>3. CASE j # 1
    <3>. DEFINE h == j - 1
    <3>1. h \in 1 .. i - 1 /\ h \in 1 .. Len(c) /\ h + 1 = j
      BY <1>1, <2>3
    <3>. HIDE DEF h
    <3>2. c[h] = x
      BY <1>1, <2>1, <3>1
    <3>. QED
      BY <3>1, <3>2 DEF Earlier
  <2>. QED
    BY <2>2, <2>3
<1>3. ASSUME NEW i \in 1 .. Len(c), NEW r \in Reader, c[i] = Do("join", r)
      PROVE  /\ r \in T \/ Earlier(c, i, Do("stop", r))
             /\ r \in V \/ Earlier(c, i, Do("wake", r))
  <2>1. i + 1 \in 1 .. Len(s) /\ s[i + 1] = Do("join", r)
    BY <1>1, <1>3
  <2>2. /\ r \in S \/ Earlier(s, i + 1, Do("stop", r))
        /\ r \in W \/ Earlier(s, i + 1, Do("wake", r))
    BY <2>1 DEF Ready
  <2>. QED
    BY <1>2, <2>2
<1>4. Ready(c, T, V)
  BY <1>3 DEF Ready
<1>. QED
  BY <1>4 DEF c

LEMMA TailKinds ==
    ASSUME NEW s \in Seq(Instruction), s # <<>>
    PROVE  /\ NoJoin(s) => NoJoin(Tail(s))
           /\ NoStart(s) => NoStart(Tail(s)) /\ Head(s).do # "start"
<1>. DEFINE c == Tail(s)
<1>1. /\ Len(c) = Len(s) - 1 /\ Len(s) \in Nat /\ Len(s) >= 1
      /\ \A j \in 1 .. Len(c) : c[j] = s[j + 1]
      /\ Head(s) = s[1]
  BY HeadTail
<1>. HIDE DEF c
<1>2. \A j \in 1 .. Len(c) : j + 1 \in 1 .. Len(s)
  BY <1>1
<1>3. (NoJoin(s) => NoJoin(c)) /\ (NoStart(s) => NoStart(c) /\ Head(s).do # "start")
  BY <1>1, <1>2 DEF NoJoin, NoStart
<1>. QED
  BY <1>3 DEF c

LEMMA PathKinds ==
    ASSUME NEW k, NEW s, NEW d, NEW e, Path(k, s, d, e)
    PROVE  /\ k \in Reader \cup {"using"} => NoJoin(s)
           /\ k = "deleting" => NoStart(s)
<1>1. PICK f : Leads(k, s, d, e, f)
  BY DEF Path
<1>2. \A i \in 1 .. Len(s) : Allowed(k, s[i], f[i - 1])
  BY <1>1 DEF Leads
<1>. QED
  BY <1>2 DEF Allowed, NoJoin, NoStart

(* Every operation stops and wakes a thread before it joins it, and none that *)
(* joins threads starts one.                                                  *)
LEMMA OperationReady ==
    ASSUME NEW c \in DOMAIN Operation
    PROVE  Ready(Operation[c], {}, {}) /\ (NoJoin(Operation[c]) \/ NoStart(Operation[c]))
<1>1. Ready(DestroyPublisher, {}, {}) /\ Ready(DestroySubscriber, {}, {})
  BY DEF Ready, Earlier, DestroyPublisher, DestroySubscriber, PublisherSuspend, PublisherJoin,
         SubscriberJoin, Locked, Do, Reader
<1>2. Ready(DestroyNode, {}, {})
  BY DEF Ready, Earlier, DestroyNode, Unbrowse, NodeJoin, Locked, Do, Reader
<1>3. Ready(Suspend, {}, {})
  BY DEF Ready, Earlier, Suspend, Unbrowse, PublisherSuspend, PublisherJoin, RemovePublisher,
         NodeRemoved, RemoveRemotePubFromLocalSubs, SubscriberRemoved, NodeJoin, Locked, Do, Reader
<1>4. NoStart(Suspend)
  BY DEF NoStart, Suspend, Unbrowse, PublisherSuspend, PublisherJoin, RemovePublisher,
         NodeRemoved, RemoveRemotePubFromLocalSubs, SubscriberRemoved, NodeJoin, Locked, Do
<1>5. NoJoin(Resume)
  BY DEF NoJoin, Resume, AddPublisher, Browse, Locked, Do
<1>6. CASE c \in Destructors
  <2>1. Operation[c] \in {DestroyNode, DestroySubscriber, DestroyPublisher}
    BY <1>6 DEF Destructors, Operation
  <2>2. Ready(Operation[c], {}, {})
    BY <1>1, <1>2, <2>1, Zenon
  <2>. QED
    BY <1>6, <2>2, DeletingPaths, PathKinds
<1>7. CASE c \in {"suspend", "resume"}
  <2>1. Operation[c] \in {Suspend, Resume}
    BY <1>7 DEF Operation
  <2>. QED
    BY <1>3, <1>4, <1>5, <2>1, NoJoinReady, Zenon
<1>8. CASE c \notin Destructors \cup {"suspend", "resume"}
  BY <1>8, UsingPaths, PathKinds, NoJoinReady
<1>. QED
  BY <1>6, <1>7, <1>8


LEMMA AllowedHolds ==
    ASSUME NEW i, NEW t, Allowed("suspending", i, Held(t))
    PROVE  holder["node"] = t
<1>1. Held(t)["node"] > 0
  BY DEF Allowed
<1>. QED
  BY <1>1 DEF Held, Mutex

(* A thread is started with the node locked, so that no other thread is about *)
(* to join one that it has stopped already.                                   *)
LEMMA StartedAlone ==
    ASSUME LockInv, NEW t \in Actor, code[t] # <<>>, Current(t).do = "start",
           NEW u \in Actor \ {t}
    PROVE  NoJoin(code[u]) \/ Ready(code[u], {}, {})
<1>. USE DEF LockInv
<1>0. Held(t) \in Depth /\ Held(u) \in Depth /\ code[u] \in Seq(Instruction)
  BY HeldDepth DEF LocksTypeOK
<1>1. \A k : Follows(k, t) => Allowed(k, Current(t), Held(t))
  BY <1>0, PathTail, Zenon DEF Follows, Current
<1>2. t \in Application
  <2>1. t \in Reader => Allowed(t, Current(t), Held(t))
    BY <1>1
  <2>. QED
    BY <2>1, Zenon DEF Allowed, Actor
<1>3. Allowed("suspending", Current(t), Held(t))
  <2>1. CallOK(t)
    BY <1>2, Zenon
  <2>2. ~Follows("using", t) /\ ~Follows("deleting", t)
    BY <1>1 DEF Allowed
  <2>3. code[t] \notin {Suspend, Resume}
    BY SuspendingPaths, DoFields DEF Current
  <2>. QED
    BY <1>1, <2>1, <2>2, <2>3 DEF CallOK
<1>4. holder["node"] = t
  BY <1>3, AllowedHolds
<1>5. CASE u \in Reader
  BY <1>5, PathKinds, Zenon DEF Follows
<1>6. CASE u \in Application
  <2>1. CASE Follows("using", u)
    BY <2>1, PathKinds, Zenon DEF Follows
  <2>2. CASE code[u] \in {Suspend, Resume}
    <3>1. \E c \in DOMAIN Operation : code[u] = Operation[c]
      BY <2>2 DEF Operation
    <3>. QED
      BY <3>1, OperationReady, Zenon
  <2>3. CASE Follows("suspending", u)
    <3>1. code[u] = <<>>
      <4>. SUFFICES ASSUME code[u] # <<>>
                    PROVE  FALSE
        BY Zenon
      <4>1. Allowed("suspending", Current(u), Held(u))
        BY <1>0, <2>3, PathTail DEF Follows, Current
      <4>2. holder["node"] = u
        BY <4>1, AllowedHolds
      <4>. QED
        BY <1>4, <4>2
    <3>. QED
      BY <3>1 DEF NoJoin
  <2>4. CASE \A b \in Application \ {u} : code[b] = <<>>
    BY <1>2, <2>4, Zenon
  <2>. QED
    BY <1>6, <2>1, <2>2, <2>3, <2>4 DEF CallOK
<1>. QED
  BY <1>5, <1>6 DEF Actor

LEMMA JoinInvStep ==
    ASSUME JoinInv, [LockNext]_lockVars
    PROVE  JoinInv'
<1>0. LockInv /\ LocksTypeOK /\ LockInv'
  BY LockInvStep DEF JoinInv, LockInv
<1>. DEFINE Fine(s, S, W) == Ready(s, S, W) /\ (NoJoin(s) \/ NoStart(s))
<1>1. \A t \in Actor : Fine(code[t], Stopped, Ending)
  BY DEF JoinInv
<1>. SUFFICES \A t \in Actor : Fine(code'[t], Stopped', Ending')
  BY <1>0 DEF JoinInv
<1>2. CASE UNCHANGED lockVars
  BY <1>1, <1>2 DEF lockVars, Stopped, Ending
<1>3. ASSUME NEW a \in Application, NEW c \in Calls[a], Call(a, c)
      PROVE  \A t \in Actor : Fine(code'[t], Stopped', Ending')
  <2>1. Stopped' = Stopped /\ Ending' = Ending /\ code' = [code EXCEPT ![a] = Operation[c]]
    BY <1>3 DEF Call, Stopped, Ending
  <2>2. Fine(Operation[c], Stopped, Ending)
    BY ActorFacts, OperationReady, ReadyMore
  <2>. QED
    BY <1>0, <1>1, <2>1, <2>2, Zenon DEF LocksTypeOK
<1>4. ASSUME NEW r \in Reader, Receive(r)
      PROVE  \A t \in Actor : Fine(code'[t], Stopped', Ending')
  <2>1. Stopped' = Stopped /\ Ending' = Ending
    BY <1>4 DEF Receive, Stopped, Ending
  <2>2. PICK h \in Handlers[r] : code' = [code EXCEPT ![r] = h]
    BY <1>4, Zenon DEF Receive
  <2>3. Fine(h, Stopped, Ending)
    BY HandlerPaths, PathKinds, NoJoinReady
  <2>. QED
    BY <1>0, <1>1, <2>1, <2>2, <2>3, Zenon DEF LocksTypeOK
<1>5. ASSUME NEW r \in Reader, Exit(r)
      PROVE  \A t \in Actor : Fine(code'[t], Stopped', Ending')
  <2>1. code' = code /\ Stopped' = Stopped
    BY <1>5 DEF Exit, Stopped
  <2>2. Ending \subseteq Ending'
    BY <1>0, <1>5 DEF Exit, Ending, LocksTypeOK
  <2>. QED
    BY <1>1, <2>1, <2>2, ReadyMore, Zenon
<1>6. ASSUME NEW t \in Actor, ThreadStep(t)
      PROVE  \A u \in Actor : Fine(code'[u], Stopped', Ending')
  <2>0. code[t] # <<>> /\ code[t] \in Seq(Instruction) /\ Head(code[t]) = Current(t)
    BY <1>0, <1>6 DEF ThreadStep, LocksTypeOK, Current
  <2>1. CASE Current(t).do = "start"
    <3>1. NoJoin(code[t]) /\ code' = [code EXCEPT ![t] = Tail(code[t])]
      BY <1>1, <1>6, <2>0, <2>1, TailKinds, CodeStep
    <3>2. Fine(code'[t], Stopped', Ending')
      <4>1. code'[t] = Tail(code[t]) /\ NoJoin(Tail(code[t]))
        BY <1>0, <2>0, <3>1, TailKinds DEF LocksTypeOK
      <4>. QED
        BY <4>1, NoJoinReady
    <3>3. ASSUME NEW u \in Actor \ {t}
          PROVE  Fine(code'[u], Stopped', Ending')
      <4>1. NoJoin(code[u]) \/ Ready(code[u], {}, {})
        BY <1>0, <2>0, <2>1, StartedAlone
      <4>2. code'[u] = code[u]
        BY <1>0, <1>6, FollowsOthers
      <4>. QED
        BY <1>1, <4>1, <4>2, NoJoinReady, ReadyMore
    <3>. QED
      BY <3>2, <3>3, Zenon
  <2>2. CASE Current(t).do # "start"
    <3>1. /\ Stopped \subseteq Stopped' /\ Ending \subseteq Ending'
          /\ \A r \in Reader : Current(t) = Do("stop", r) => r \in Stopped'
          /\ \A r \in Reader : Current(t) = Do("wake", r) => r \in Ending'
      <4>1. CASE StopThread(t) \/ WakeThread(t)
        <5>1. Current(t).on \in Reader
          BY <1>0, <2>0, <4>1, CurrentInstruction DEF StopThread, WakeThread
        <5>. DEFINE q == Current(t).on
        <5>2. \A r \in Reader : Current(t) = Do("stop", r) \/ Current(t) = Do("wake", r) => r = q
          BY DoFields
        <5>3. CASE StopThread(t)
          <6>1. /\ started' = [started EXCEPT ![q] = FALSE] /\ UNCHANGED <<alive, woken>>
                /\ \A r \in Reader : Current(t) # Do("wake", r)
            BY <5>3, DoFields DEF StopThread
          <6>. HIDE DEF q
          <6>. QED
            BY <1>0, <5>1, <5>2, <6>1 DEF q, Stopped, Ending, LocksTypeOK
        <5>4. CASE WakeThread(t)
          <6>1. /\ woken' = [woken EXCEPT ![q] = TRUE] /\ UNCHANGED <<alive, started>>
                /\ \A r \in Reader : Current(t) # Do("stop", r)
            BY <5>4, DoFields DEF WakeThread
          <6>. HIDE DEF q
          <6>. QED
            BY <1>0, <5>1, <5>2, <6>1 DEF q, Stopped, Ending, LocksTypeOK
        <5>. QED
          BY <4>1, <5>3, <5>4, Zenon
      <4>2. CASE ~(StopThread(t) \/ WakeThread(t))
        <5>1. /\ UNCHANGED <<started, alive, woken>>
              /\ Current(t).do \notin {"stop", "wake"}
          BY <1>6, <2>2, <4>2 DEF ThreadStep, LockMutex, UnlockMutex, JoinThread, StartThread,
                                  TestSuspended
        <5>. QED
          BY <5>1, DoFields DEF Stopped, Ending
      <4>. QED
        BY <4>1, <4>2
    <3>2. ASSUME NEW u \in Actor \ {t}
          PROVE  Fine(code'[u], Stopped', Ending')
      BY <1>0, <1>1, <1>6, <3>1, FollowsOthers, ReadyMore, Zenon
    <3>3. Fine(Tail(code[t]), Stopped', Ending')
      BY <1>1, <2>0, <3>1, ReadyTail, TailKinds
    <3>4. Fine(<<Do("unlock", "node")>>, Stopped', Ending')
      <4>1. NoJoin(<<Do("unlock", "node")>>)
        BY DEF NoJoin, Do
      <4>. QED
        BY <4>1, NoJoinReady
    <3>5. code'[t] = Tail(code[t]) \/ code'[t] = <<Do("unlock", "node")>>
      BY <1>0, <1>6, CodeStep, Zenon DEF LocksTypeOK
    <3>6. Fine(code'[t], Stopped', Ending')
      BY <3>3, <3>4, <3>5, Zenon
    <3>. QED
      BY <3>2, <3>6
  <2>. QED
    BY <2>1, <2>2
<1>. HIDE DEF Fine
<1>. QED
  BY <1>2, <1>3, <1>4, <1>5, <1>6, Zenon DEF LockNext

(* A thread that is being joined was stopped, and has ended or finds a        *)
(* message that ends its receive: a concurrent resume starts no thread that   *)
(* another one, in suspend or in a destructor, is waiting for.                *)
THEOREM JoinedThreadsWoken == LockSpec => []JoinedIsWoken
<1>1. LockInit => JoinInv
  <2>. SUFFICES ASSUME LockInit
                PROVE  JoinInv
    OBVIOUS
  <2>1. \A t \in Actor : code[t] = <<>>
    BY DEF LockInit
  <2>2. NoJoin(<<>>)
    BY DEF NoJoin
  <2>. QED
    BY <2>1, <2>2, NoJoinReady, LockInvInit DEF JoinInv
<1>2. JoinInv => JoinedIsWoken
  <2>. SUFFICES ASSUME JoinInv, NEW t \in Actor, NEW r \in Reader, code[t] # <<>>,
                       Current(t) = Do("join", r)
                PROVE  ~started[r] /\ (woken[r] \/ ~alive[r])
    BY DEF JoinedIsWoken
  <2>1. /\ code[t] \in Seq(Instruction) /\ Ready(code[t], Stopped, Ending)
        /\ Len(code[t]) \in Nat /\ Len(code[t]) >= 1 /\ code[t][1] = Do("join", r)
    BY HeadTail DEF JoinInv, LockInv, LocksTypeOK, Current
  <2>2. \A x : ~Earlier(code[t], 1, x)
    BY DEF Earlier
  <2>3. r \in Stopped /\ r \in Ending
    BY <2>1, <2>2 DEF Ready
  <2>. QED
    BY <2>3 DEF Stopped, Ending
<1>. QED
  BY <1>1, <1>2, JoinInvStep, PTL DEF LockSpec


=============================================================================
