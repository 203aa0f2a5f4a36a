--------------------------- MODULE Network_proofs ---------------------------
(***************************************************************************)
(* What is proved of the network.  Part 1 is about SlangDaemon: the locks  *)
(* of the peers.  Parts 2 to 5 are about AsnDer and SlangMessage: what the *)
(* octets of a message return, what its checksum notices, and what the     *)
(* peers are given of it.  Part 6 is about the watchdog of TCPWatchdog.    *)
(* OctetAssumption and the other assumptions on constants are those of the *)
(* modules.                                                                *)
(***************************************************************************)
EXTENDS SlangDaemon, SlangMessage, TCPWatchdog, SequenceTheorems, WellFoundedInduction, TLAPS

(***************************************************************************)
(* Part 1. Why the locks of the peers are released: as long as messages    *)
(* come one at a time, the current peer is the one whose lock the network  *)
(* thread has entered, from pre_read_message until post_read_message or    *)
(* clear_if_peer_broken, and it is in no other lock but those of the peers *)
(* that have thrown a task exception.                                      *)
(***************************************************************************)
\* The platform raises the event of one datagram at a time.
OneMessageAtATime == \A t, u \in Threads : t = u

Inside == {"apply", "post_read", "broken"}

\* The locks of a thread: that of the current peer while it is inside, and
\* those that nothing has cleared.
InOneLock ==
  \A t \in Threads :
    /\ pc[t] \in Inside \cup {"pre_read"} => current_peer # NoPeer
    /\ pc[t] \in Inside => current_peer \notin uncleared
    /\ \A p \in Peers : owner[p] = t <=> (pc[t] \in Inside /\ p = current_peer) \/ p \in uncleared

\* The peer a thread is at was pushed.
AtPushed == \A t \in Threads : pc[t] \notin {"idle", "next"} => at[t] <= local_peers

LockInv == TypeOK /\ ~crashed /\ InOneLock /\ AtPushed

LEMMA LockInit == Init => LockInv
<1> SUFFICES ASSUME Init PROVE LockInv  OBVIOUS
<1>1. Len(LocalPeers) \in Nat  BY OwnersAssumption
<1>2. TypeOK
  <2>1. pc \in [Threads -> {"idle", "next", "pre_read", "apply", "post_read", "broken"}]
    BY DEF Init
  <2>2. at \in [Threads -> 1 .. Len(LocalPeers) + 1]  BY <1>1 DEF Init
  <2>3. owner \in [Peers -> Threads \cup {UI, Nobody}]  BY DEF Init
  <2>4. crashed \in BOOLEAN /\ current_peer = NoPeer /\ waiting = NoPeer  BY DEF Init
  <2>5. local_peers \in 0 .. Len(LocalPeers) /\ uncleared \subseteq Peers  BY <1>1 DEF Init
  <2>6. QED  BY <2>1, <2>2, <2>3, <2>4, <2>5 DEF TypeOK
<1>3. InOneLock  BY OwnersAssumption DEF Init, InOneLock, Inside
<1>4. QED  BY <1>2, <1>3 DEF Init, LockInv, AtPushed

\* The peer a thread visits is one of those that were pushed.
LEMMA VisitedIsPeer ==
  ASSUME TypeOK, NEW t \in Threads, at[t] <= local_peers
  PROVE  LocalPeers[at[t]] \in Peers
  BY OwnersAssumption DEF TypeOK, Peers

LEMMA LeaveReleases ==
  ASSUME LockInv, NEW t \in Threads, pc[t] \in Inside, Leave(t)
  PROVE  /\ crashed' = crashed
         /\ owner' = [owner EXCEPT ![current_peer] = Nobody]
         /\ current_peer \in Peers
  BY DEF LockInv, InOneLock, TypeOK, Leave, Inside

LEMMA MessageKeepsLocks ==
  ASSUME OneMessageAtATime, LockInv, NEW t \in Threads, OnMessage(t)
  PROVE  LockInv'
<1> USE OwnersAssumption DEF LockInv
<1>0. \A u \in Threads : u = t  BY DEF OneMessageAtATime
<1>1. CASE Receive(t)
  BY <1>0, <1>1 DEF Receive, TypeOK, InOneLock, AtPushed, Inside
<1>2. CASE Visit(t)
  <2>1. LocalPeers[at[t]] \in Peers  BY <1>2, VisitedIsPeer DEF Visit
  <2>2. pc[t] = "next" /\ at[t] <= local_peers /\ current_peer' = LocalPeers[at[t]]
        /\ UNCHANGED <<local_peers, owner, waiting, crashed, uncleared>>
    BY <1>2 DEF Visit
  <2>3. PICK absent \in BOOLEAN :
          IF absent
          THEN at' = [at EXCEPT ![t] = @ + 1] /\ pc' = pc
          ELSE at' = at /\ pc' = [pc EXCEPT ![t] = "pre_read"]
    BY <1>2 DEF Visit
  <2>4. TypeOK'
    <3>1. Len(LocalPeers) \in Nat
      BY OwnersAssumption
    <3>2. at[t] + 1 \in 1 .. Len(LocalPeers) + 1  BY <2>2, <3>1 DEF TypeOK
    <3>3. pc' \in [Threads -> {"idle", "next", "pre_read", "apply", "post_read", "broken"}]
      BY <2>3 DEF TypeOK
    <3>4. at' \in [Threads -> 1 .. Len(LocalPeers) + 1]
      BY <2>3, <3>2 DEF TypeOK
    <3>5. QED  BY <2>1, <2>2, <3>3, <3>4 DEF TypeOK
  <2>5. pc'[t] \in {"next", "pre_read"} /\ current_peer' # NoPeer
    BY <2>1, <2>2, <2>3 DEF TypeOK
  <2>6. \A p \in Peers : owner'[p] = t <=> p \in uncleared'  BY <2>2 DEF InOneLock, AtPushed, Inside
  <2>7. InOneLock' /\ AtPushed'  BY <1>0, <2>2, <2>3, <2>5, <2>6 DEF InOneLock, AtPushed, Inside
  <2>8. QED  BY <2>2, <2>4, <2>7
<1>3. CASE Finish(t)
  BY <1>0, <1>3 DEF Finish, TypeOK, InOneLock, AtPushed, Inside
<1>4. CASE pre_read_message(t)
  <2>1. current_peer \in Peers  BY <1>4 DEF pre_read_message, TypeOK, InOneLock, AtPushed
  <2>2. /\ owner[current_peer] = Nobody /\ owner' = [owner EXCEPT ![current_peer] = t]
        /\ pc' = [pc EXCEPT ![t] = "apply"] /\ pc[t] = "pre_read"
        /\ UNCHANGED <<local_peers, at, current_peer, waiting, crashed, uncleared>>
    BY <1>4, <2>1 DEF pre_read_message
  <2>3. TypeOK'  BY <2>1, <2>2 DEF TypeOK
  <2>4. InOneLock' /\ AtPushed'  BY <1>0, <2>1, <2>2 DEF InOneLock, AtPushed, TypeOK, Inside
  <2>5. QED  BY <2>2, <2>3, <2>4
<1>5. CASE apply_message(t)
  BY <1>0, <1>5 DEF apply_message, TypeOK, InOneLock, AtPushed, Inside
<1>6. CASE post_read_message(t)
  <2>1. pc[t] = "post_read" /\ Leave(t) /\ pc' = [pc EXCEPT ![t] = "next"]
        /\ at' = [at EXCEPT ![t] = @ + 1] /\ UNCHANGED <<local_peers, current_peer, waiting, uncleared>>
    BY <1>6 DEF post_read_message
  <2>2. /\ crashed' = crashed /\ current_peer \in Peers
        /\ owner' = [owner EXCEPT ![current_peer] = Nobody]
    BY <2>1, LeaveReleases DEF Inside
  <2>3. at' \in [Threads -> 1 .. Len(LocalPeers) + 1]
    <3>1. at[t] <= local_peers /\ Len(LocalPeers) \in Nat  BY <2>1 DEF AtPushed
    <3>2. QED  BY <2>1, <3>1 DEF TypeOK
  <2>4. TypeOK'  BY <2>1, <2>2, <2>3 DEF TypeOK
  <2>5. InOneLock' /\ AtPushed'  BY <1>0, <2>1, <2>2 DEF InOneLock, AtPushed, TypeOK, Inside
  <2>6. QED  BY <2>2, <2>4, <2>5
<1>7. ASSUME NEW exception \in Exceptions, Throw(t, exception) PROVE LockInv'
  <2>1. pc[t] = "apply" /\ current_peer \in Peers /\ UNCHANGED <<local_peers, at, current_peer, owner, waiting, crashed>>
    BY <1>7 DEF Throw, TypeOK
  <2>2. CASE exception = "Platform::Exception"
    BY <1>0, <1>7, <2>1, <2>2 DEF Throw, TypeOK, InOneLock, AtPushed, Inside
  <2>3. CASE exception # "Platform::Exception"
    <3>1. pc' = [pc EXCEPT ![t] = "idle"] /\ uncleared' = uncleared \cup {current_peer}
      BY <1>7, <2>3 DEF Throw
    <3>2. TypeOK'  BY <2>1, <3>1 DEF TypeOK
    <3>3. InOneLock' /\ AtPushed'  BY <1>0, <2>1, <3>1 DEF TypeOK, InOneLock, AtPushed, Inside
    <3>4. QED  BY <2>1, <3>2, <3>3
  <2>4. QED  BY <2>2, <2>3
<1>8. CASE clear_if_peer_broken(t)
  <2>1. pc[t] = "broken" /\ current_peer # NoPeer  BY <1>8 DEF clear_if_peer_broken, InOneLock, AtPushed, Inside
  <2>2. /\ crashed' = crashed /\ current_peer \in Peers
        /\ owner' = [owner EXCEPT ![current_peer] = Nobody]
    BY <1>8, <2>1, LeaveReleases DEF clear_if_peer_broken, Inside
  <2>3. QED
    BY <1>0, <1>8, <2>1, <2>2 DEF clear_if_peer_broken, TypeOK, InOneLock, AtPushed, Inside
<1>9. QED  BY <1>1, <1>2, <1>3, <1>4, <1>5, <1>6, <1>7, <1>8 DEF OnMessage

LEMMA LockStep ==
  ASSUME OneMessageAtATime
  PROVE  LockInv /\ [Next]_vars => LockInv'
<1> SUFFICES ASSUME LockInv, [Next]_vars PROVE LockInv'  OBVIOUS
<1> USE OwnersAssumption DEF LockInv
<1>1. CASE push_slang_local_peer
  BY <1>1 DEF push_slang_local_peer, TypeOK, InOneLock, AtPushed
<1>2. ASSUME NEW t \in Threads, OnMessage(t) PROVE LockInv'
  BY <1>2, MessageKeepsLocks
<1>3. ASSUME NEW p \in Peers, UIWait(p) PROVE LockInv'
  BY <1>3 DEF UIWait, TypeOK, InOneLock, AtPushed
<1>4. CASE UIEnter
  BY <1>4 DEF UIEnter, TypeOK, InOneLock, AtPushed
<1>5. CASE UILeave
  BY <1>5 DEF UILeave, Owned, TypeOK, InOneLock, AtPushed
<1>6. CASE UNCHANGED vars
  BY <1>6 DEF vars, TypeOK, InOneLock, AtPushed
<1>7. QED  BY <1>1, <1>2, <1>3, <1>4, <1>5, <1>6 DEF Next

\* A thread that is done with a message has released every lock but those of
\* peers that have thrown a task exception, for any number of peers and whatever
\* they throw.
THEOREM LocksAreAlwaysReleased ==
  ASSUME OneMessageAtATime
  PROVE  Spec => []LocksAreReleased
<1>1. LockInv => LocksAreReleased  BY DEF LockInv, InOneLock, Inside, LocksAreReleased
<1>2. QED  BY <1>1, LockInit, LockStep, PTL DEF Spec

\* A peer is told inside its own lock, and no null pointer is followed.
THEOREM AlwaysToldInsideLock ==
  ASSUME OneMessageAtATime
  PROVE  Spec => []ToldInsideLock
<1>1. LockInv => ToldInsideLock
  BY DEF LockInv, TypeOK, InOneLock, Inside, ToldInsideLock
<1>2. QED  BY <1>1, LockInit, LockStep, PTL DEF Spec

-----------------------------------------------------------------------------
(***************************************************************************)
(* Part 2. Recursion. A recursive function of the model is what its        *)
(* definition describes because its argument becomes smaller; what it      *)
(* computes is shown with the least argument for which it would not.       *)
(***************************************************************************)

\* Every set of numbers that has any has a smallest one.
LEMMA NatHasMinimum ==
  ASSUME NEW T \in SUBSET Nat, T # {}
  PROVE  \E n \in T : \A m \in T : n <= m
<1> DEFINE R == {mn \in Nat \X Nat : mn[1] < mn[2]}
<1>1. IsWellFoundedOn(R, Nat)  BY NatLessThanWellFounded DEF OpToRel
<1>2. PICK n \in T : \A m \in T : <<m, n>> \notin R
  <2> HIDE DEF R
  <2>1. QED  BY <1>1, WFMin
<1>3. \A m \in T : ~(m < n)  BY <1>2
<1>4. QED  BY <1>3

\* Elements of D that are good when all smaller ones are, are good.
LEMMA Induction ==
  ASSUME NEW D, NEW size \in [D -> Nat], NEW Good,
         \A x \in D : (\A y \in D : size[y] < size[x] => y \in Good) => x \in Good
  PROVE  D \subseteq Good
<1> DEFINE T == {n \in Nat : \E x \in D : size[x] = n /\ x \notin Good}
<1> SUFFICES ASSUME T # {} PROVE FALSE  OBVIOUS
<1>1. PICK n \in T : \A m \in T : n <= m
  <2>1. T \in SUBSET Nat  OBVIOUS
  <2> HIDE DEF T
  <2>2. QED  BY <2>1, NatHasMinimum
<1>2. PICK x \in D : size[x] = n /\ x \notin Good  BY <1>1
<1>3. \A y \in D : size[y] < size[x] => y \in Good  BY <1>1, <1>2
<1>4. QED  BY <1>2, <1>3

\* Induction over the numbers.
LEMMA NatIsInductive ==
  ASSUME NEW Good, 0 \in Good, \A n \in Nat : n \in Good => n + 1 \in Good
  PROVE  Nat \subseteq Good
<1> DEFINE size == [n \in Nat |-> n]
<1>1. size \in [Nat -> Nat]  OBVIOUS
<1>2. ASSUME NEW n \in Nat, \A m \in Nat : size[m] < size[n] => m \in Good PROVE n \in Good
  <2>1. CASE n = 0  BY <2>1
  <2>2. CASE n # 0
    <3>1. n - 1 \in Nat /\ size[n - 1] < size[n] /\ (n - 1) + 1 = n  BY <2>2
    <3>2. QED  BY <1>2, <3>1
  <2>3. QED  BY <2>1, <2>2
<1>3. QED
  <2> HIDE DEF size
  <2>1. QED  BY <1>1, <1>2, Induction

(***************************************************************************)
(* A recursive function looks at one smaller argument, next[x], unless x   *)
(* is one of Stops.                                                        *)
(***************************************************************************)
Recursive(D, S, size, Stops, start, next, step) ==
  /\ size \in [D -> Nat] /\ Stops \in SUBSET D
  /\ start \in [Stops -> S] /\ next \in [D \ Stops -> D] /\ step \in [D \ Stops -> [S -> S]]
  /\ \A x \in D \ Stops : size[next[x]] < size[x]

Computes(f, D, Stops, start, next, step) ==
  \A x \in D : f[x] = IF x \in Stops THEN start[x] ELSE step[x][f[next[x]]]

\* There is a function that computes what the recursion says.
LEMMA Recursion ==
  ASSUME NEW D, NEW S, NEW size, NEW Stops, NEW start, NEW next, NEW step,
         Recursive(D, S, size, Stops, start, next, step)
  PROVE  \E f \in [D -> S] : Computes(f, D, Stops, start, next, step)
<1> USE DEF Recursive, Computes
<1> DEFINE Value(g, x) == IF x \in Stops THEN start[x] ELSE step[x][g[next[x]]]
           Below(g, n) == \A x \in D : size[x] < n => g[x] = Value(g, x)
           Good == {n \in Nat : \E g \in [D -> S] : Below(g, n)}
<1>1. \A g \in [D -> S], x \in D : Value(g, x) \in S  OBVIOUS
<1>2. CASE S = {}
  <2>1. D = {}
    <3> SUFFICES ASSUME D # {} PROVE FALSE  OBVIOUS
    <3>1. Stops = {}  BY <1>2
    <3>2. \A x \in D : \E y \in D : size[y] < size[x]  BY <3>1
    <3>3. DEFINE None == {x \in D : FALSE}
    <3>4. \A x \in D : (\A y \in D : size[y] < size[x] => y \in None) => x \in None  BY <3>2
    <3>5. D \subseteq None
      <4> HIDE DEF None
      <4>1. QED  BY <3>4, Induction
    <3>6. QED  BY <3>5
  <2>2. QED  BY <2>1
<1>3. CASE S # {}
  <2>1. \A n \in Nat : \E g \in [D -> S] : Below(g, n)
    <3>1. 0 \in Good
      <4>1. PICK v \in S : TRUE  BY <1>3
      <4>2. [x \in D |-> v] \in [D -> S] /\ Below([x \in D |-> v], 0)  OBVIOUS
      <4>3. QED  BY <4>2
    <3>2. ASSUME NEW n \in Nat, n \in Good PROVE n + 1 \in Good
      <4>1. PICK g \in [D -> S] : Below(g, n)  BY <3>2
      <4>2. DEFINE h == [x \in D |-> Value(g, x)]
      <4>3. h \in [D -> S]  BY <1>1
      <4>4. ASSUME NEW x \in D, size[x] < n + 1 PROVE h[x] = Value(h, x)
        <5>1. CASE x \in Stops  BY <5>1
        <5>2. CASE x \notin Stops
          <6>1. next[x] \in D /\ size[next[x]] < n  BY <4>4, <5>2
          <6>2. h[next[x]] = g[next[x]]  BY <4>1, <6>1
          <6>3. QED  BY <5>2, <6>2
        <5>3. QED  BY <5>1, <5>2
      <4>5. Below(h, n + 1)  BY <4>4
      <4> HIDE DEF h, Below
      <4>6. QED  BY <4>3, <4>5
    <3>3. Nat \subseteq Good
      <4> HIDE DEF Good
      <4>1. QED  BY <3>1, <3>2, NatIsInductive
    <3>4. QED  BY <3>3
  <2>2. ASSUME NEW g, NEW h, NEW n \in Nat, Below(g, n), Below(h, n)
        PROVE  \A x \in D : size[x] < n => g[x] = h[x]
    <3> DEFINE Same == {x \in D : size[x] < n => g[x] = h[x]}
    <3>1. ASSUME NEW x \in D, \A y \in D : size[y] < size[x] => y \in Same PROVE x \in Same
      <4>1. CASE x \in Stops  BY <2>2, <4>1
      <4>2. CASE x \notin Stops /\ size[x] < n
        <5>1. next[x] \in D /\ size[next[x]] < size[x] /\ size[next[x]] < n  BY <4>2
        <5>2. g[next[x]] = h[next[x]]  BY <3>1, <5>1
        <5>3. QED  BY <2>2, <4>2, <5>2
      <4>3. QED  BY <4>1, <4>2
    <3>2. D \subseteq Same
      <4> HIDE DEF Same
      <4>1. QED  BY <3>1, Induction
    <3>3. QED  BY <3>2
  <2>3. DEFINE try(n) == CHOOSE g \in [D -> S] : Below(g, n)
               f == [x \in D |-> try(size[x] + 1)[x]]
  <2>4. \A n \in Nat : try(n) \in [D -> S] /\ Below(try(n), n)
    <3> SUFFICES ASSUME NEW n \in Nat PROVE try(n) \in [D -> S] /\ Below(try(n), n)  OBVIOUS
    <3>1. \E g \in [D -> S] : Below(g, n)  BY <2>1
    <3> HIDE DEF Below
    <3>2. QED  BY <3>1
  <2>5. f \in [D -> S]
    <3>1. ASSUME NEW x \in D PROVE try(size[x] + 1)[x] \in S
      <4>1. size[x] + 1 \in Nat  OBVIOUS
      <4>2. try(size[x] + 1) \in [D -> S]  BY <2>4, <4>1
      <4> HIDE DEF try
      <4>3. QED  BY <4>2
    <3> HIDE DEF try
    <3>2. QED  BY <3>1
  <2>6. ASSUME NEW x \in D PROVE f[x] = Value(f, x)
    <3>1. size[x] + 1 \in Nat  OBVIOUS
    <3>2. Below(try(size[x] + 1), size[x] + 1)  BY <2>4, <3>1
    <3>3. f[x] = Value(try(size[x] + 1), x)
      <4> HIDE DEF try
      <4>1. QED  BY <3>2
    <3>4. CASE x \in Stops  BY <3>3, <3>4
    <3>5. CASE x \notin Stops
      <4>1. next[x] \in D /\ size[next[x]] + 1 \in Nat /\ size[next[x]] + 1 <= size[x]  BY <3>5
      <4>2. Below(try(size[next[x]] + 1), size[next[x]] + 1)  BY <2>4, <4>1
      <4>3. Below(try(size[x] + 1), size[next[x]] + 1)
        <5> HIDE DEF try
        <5>1. QED  BY <3>1, <3>2, <4>1
      <4>4. try(size[next[x]] + 1)[next[x]] = try(size[x] + 1)[next[x]]
        <5>1. size[next[x]] < size[next[x]] + 1  BY <4>1
        <5> HIDE DEF try, Below
        <5>2. QED  BY <2>2, <4>1, <4>2, <4>3, <5>1
      <4>5. f[next[x]] = try(size[x] + 1)[next[x]]
        <5> HIDE DEF try
        <5>1. QED  BY <4>1, <4>4
      <4> HIDE DEF try, f
      <4>6. QED  BY <3>3, <3>5, <4>5
    <3>6. QED  BY <3>4, <3>5
  <2>7. QED
    <3> HIDE DEF f
    <3>1. QED  BY <2>5, <2>6
<1>4. QED  BY <1>2, <1>3

\* What a value has from that for the next argument, all values have.
Inherits(f, D, T, Stops, next) ==
  /\ \A x \in Stops : f[x] \in T
  /\ \A x \in D \ Stops : f[next[x]] \in T => f[x] \in T

\* Values have what the value of the next argument hands on.
LEMMA Inherited ==
  ASSUME NEW D, NEW S, NEW size, NEW Stops, NEW start, NEW next, NEW step,
         Recursive(D, S, size, Stops, start, next, step),
         NEW T, NEW f, Inherits(f, D, T, Stops, next)
  PROVE  \A x \in D : f[x] \in T
<1> USE DEF Inherits
<1> DEFINE Good == {x \in D : f[x] \in T}
<1>1. size \in [D -> Nat] /\ Stops \in SUBSET D /\ next \in [D \ Stops -> D]
      /\ \A x \in D \ Stops : size[next[x]] < size[x]
  BY DEF Recursive
<1>2. \A x \in D : (\A y \in D : size[y] < size[x] => y \in Good) => x \in Good
  <2> SUFFICES ASSUME NEW x \in D, \A y \in D : size[y] < size[x] => y \in Good
               PROVE  f[x] \in T
    OBVIOUS
  <2>1. CASE x \in Stops  BY <2>1
  <2>2. CASE x \notin Stops
    <3>1. next[x] \in D /\ size[next[x]] < size[x]  BY <1>1, <2>2
    <3>2. f[next[x]] \in T  BY <3>1
    <3>3. QED  BY <2>2, <3>2
  <2>3. QED  BY <2>1, <2>2
<1>3. D \subseteq Good
  <2> HIDE DEF Good
  <2>1. QED  BY <1>1, <1>2, Induction
<1>4. QED  BY <1>3

(***************************************************************************)
(* A loop from 1 to n is the recursion on what it has done so far.         *)
(***************************************************************************)
Loops(f, n, start, step) == f[0] = start /\ \A i \in 1 .. n : f[i] = step[i][f[i - 1]]

\* What holds before a loop and is kept by every step holds all the time.
LEMMA LoopKeeps ==
  ASSUME NEW n \in Nat, NEW T, NEW f, f[0] \in T, \A i \in 1 .. n : f[i - 1] \in T => f[i] \in T
  PROVE  \A i \in 0 .. n : f[i] \in T
<1> DEFINE Good == {i \in Nat : i <= n => f[i] \in T}
<1>1. 0 \in Good  OBVIOUS
<1>2. ASSUME NEW i \in Nat, i \in Good PROVE i + 1 \in Good
  <2>1. i + 1 <= n => i + 1 \in 1 .. n /\ (i + 1) - 1 = i /\ i <= n  OBVIOUS
  <2>2. QED  BY <1>2, <2>1
<1>3. Nat \subseteq Good
  <2> HIDE DEF Good
  <2>1. QED  BY <1>1, <1>2, NatIsInductive
<1>4. QED  BY <1>3

\* There is a function that computes what a loop does.
LEMMA Loop ==
  ASSUME NEW n \in Nat, NEW S, NEW start \in S, NEW step \in [1 .. n -> [S -> S]]
  PROVE  \E f \in [0 .. n -> S] : Loops(f, n, start, step)
<1> DEFINE D == 0 .. n
           size == [i \in D |-> i]
           first == [i \in {0} |-> start]
           next == [i \in D \ {0} |-> i - 1]
           steps == [i \in D \ {0} |-> step[i]]
<1>1. D \ {0} = 1 .. n /\ {0} \in SUBSET D  OBVIOUS
<1>2. Recursive(D, S, size, {0}, first, next, steps)
  <2>1. next \in [D \ {0} -> D]  OBVIOUS
  <2>2. steps \in [D \ {0} -> [S -> S]]  BY <1>1
  <2>3. first \in [{0} -> S]  OBVIOUS
  <2>4. QED  BY <1>1, <2>1, <2>2, <2>3 DEF Recursive
<1>3. PICK f \in [D -> S] : Computes(f, D, {0}, first, next, steps)
  <2> HIDE DEF D, size, first, next, steps
  <2>1. QED  BY <1>2, Recursion
<1>4. f[0] = start  BY <1>1, <1>3 DEF Computes
<1>5. ASSUME NEW i \in 1 .. n PROVE f[i] = step[i][f[i - 1]]
  <2>1. i \in D \ {0} /\ i \in D /\ i \notin {0}  OBVIOUS
  <2>2. f[i] = steps[i][f[next[i]]]
    <3> HIDE DEF D, first, next, steps
    <3>1. QED  BY <1>3, <2>1 DEF Computes
  <2>3. QED  BY <2>1, <2>2
<1>6. QED  BY <1>4, <1>5 DEF Loops

\* Shifting an octet out: what is left, and that it is less.
LEMMA DivMod ==
  ASSUME NEW n \in Int
  PROVE  /\ n \div Base \in Int /\ n % Base \in Octet /\ n % Base \in Nat /\ n % Base < Base
         /\ n = ((n \div Base) * Base) + (n % Base)
         /\ n \in Nat => n \div Base \in Nat /\ (n >= Base => n \div Base < n)
         /\ n \in Negative => n \div Base \in Negative /\ (n < -Base => n \div Base > n)
         /\ n \div Base < -1 <=> n < -Base
  BY OctetAssumption DEF Octet, Negative

\* A number that is shifted is a number.
LEMMA NatDivMod == \A n \in Nat : n \div Base \in Nat /\ n % Base \in Octet
  BY DivMod

\* A negative number that is shifted is negative.
LEMMA NegativeDivMod == \A n \in Negative : n \div Base \in Negative /\ n % Base \in Octet
  BY DivMod DEF Negative

(***************************************************************************)
(* The recursive functions of AsnDer look at the number that is shifted    *)
(* right by an octet, until there is only one octet (or none but signs).   *)
(***************************************************************************)
Few(n) == -Base <= n /\ n < Base

Shifts(f, D, start, step) ==
  \A n \in D : f[n] = IF Few(n) THEN start[n] ELSE step[n][f[n \div Base]]

FewOf(D) == {n \in D : Few(n)}
ShiftSize(D) == [n \in D |-> IF n < 0 THEN -n ELSE n]
ShiftNext(D) == [n \in D \ FewOf(D) |-> n \div Base]

\* The sign bit is half of the values of an octet.
LEMMA Signs == Base \in Nat /\ Sign \in Nat /\ Base = 2 * Sign /\ Sign >= 2
  BY OctetAssumption DEF Sign

\* When the code stops shifting.
LEMMA FewIs ==
  /\ \A n \in Nat : Few(n) <=> n < Base
  /\ \A n \in Negative : Few(n) <=> n \div Base >= -1
  BY DivMod, OctetAssumption DEF Few, Negative

\* Shifting is a recursion: a shifted number is nearer to 0.
LEMMA ShiftIsRecursive ==
  ASSUME NEW D \in {Nat, Negative}, NEW S, NEW first \in [FewOf(D) -> S],
         NEW step \in [D \ FewOf(D) -> [S -> S]]
  PROVE  Recursive(D, S, ShiftSize(D), FewOf(D), first, ShiftNext(D), step)
<1>1. ShiftSize(D) \in [D -> Nat]  BY DEF Negative, ShiftSize
<1>2. ASSUME NEW n \in D \ FewOf(D)
      PROVE  n \div Base \in D /\ ShiftSize(D)[n \div Base] < ShiftSize(D)[n]
  <2>1. CASE D = Nat
    <3>1. n \in Nat /\ n >= Base  BY <2>1, OctetAssumption DEF Few, FewOf
    <3>2. n \div Base \in Nat /\ n \div Base < n  BY <3>1, DivMod
    <3>3. QED  BY <2>1, <3>1, <3>2 DEF ShiftSize
  <2>2. CASE D = Negative
    <3>1. n \in Int /\ n < -Base  BY <2>2, OctetAssumption DEF Few, FewOf, Negative
    <3>2. n \div Base \in Negative /\ n \div Base > n /\ n \in Negative  BY <2>2, <3>1, DivMod
    <3>3. n \div Base < 0 /\ n \div Base \in Int /\ n < 0  BY <3>2 DEF Negative
    <3>4. ShiftSize(D)[n] = -n /\ ShiftSize(D)[n \div Base] = -(n \div Base)
      BY <2>2, <3>2, <3>3 DEF ShiftSize
    <3>5. QED  BY <2>2, <3>1, <3>2, <3>3, <3>4
  <2>3. QED  BY <2>1, <2>2
<1>3. ShiftNext(D) \in [D \ FewOf(D) -> D]
      /\ \A n \in D \ FewOf(D) : ShiftSize(D)[ShiftNext(D)[n]] < ShiftSize(D)[n]
  BY <1>2 DEF ShiftNext
<1>4. FewOf(D) \in SUBSET D  BY DEF FewOf
<1>5. QED  BY <1>1, <1>3, <1>4 DEF Recursive

\* There is a function that computes what shifting does.
LEMMA Shifting ==
  ASSUME NEW D \in {Nat, Negative}, NEW S, NEW start \in [D -> S], NEW step \in [D -> [S -> S]]
  PROVE  \E f \in [D -> S] : Shifts(f, D, start, step)
<1> DEFINE first == [n \in FewOf(D) |-> start[n]]
           steps == [n \in D \ FewOf(D) |-> step[n]]
<1>1. Recursive(D, S, ShiftSize(D), FewOf(D), first, ShiftNext(D), steps)
  <2>1. first \in [FewOf(D) -> S]  BY DEF FewOf
  <2>2. steps \in [D \ FewOf(D) -> [S -> S]]  OBVIOUS
  <2> HIDE DEF first, steps
  <2>3. QED  BY <2>1, <2>2, ShiftIsRecursive
<1>2. PICK f \in [D -> S] : Computes(f, D, FewOf(D), first, ShiftNext(D), steps)
  <2> HIDE DEF first, steps
  <2>1. QED  BY <1>1, Recursion
<1>3. ASSUME NEW n \in D PROVE f[n] = IF Few(n) THEN start[n] ELSE step[n][f[n \div Base]]
  <2>1. CASE Few(n)
    <3>1. n \in FewOf(D)  BY <2>1 DEF FewOf
    <3>2. QED  BY <1>2, <2>1, <3>1 DEF Computes
  <2>2. CASE ~Few(n)
    <3>1. n \in D \ FewOf(D) /\ n \notin FewOf(D)  BY <2>2 DEF FewOf
    <3>2. f[n] = steps[n][f[ShiftNext(D)[n]]]
      <4> HIDE DEF first, steps
      <4>1. QED  BY <1>2, <3>1 DEF Computes
    <3>3. ShiftNext(D)[n] = n \div Base  BY <3>1 DEF ShiftNext
    <3>4. QED  BY <2>2, <3>1, <3>2, <3>3
  <2>3. QED  BY <2>1, <2>2
<1>4. QED  BY <1>3 DEF Shifts

\* Values that are handed on to the number before it was shifted are those of all numbers.
LEMMA ShiftKeeps ==
  ASSUME NEW D \in {Nat, Negative}, NEW T, NEW f,
         \A n \in D : Few(n) \/ f[n \div Base] \in T => f[n] \in T
  PROVE  \A n \in D : f[n] \in T
<1> DEFINE first == [n \in FewOf(D) |-> 0]
           step == [n \in D \ FewOf(D) |-> [s \in {0} |-> 0]]
<1>1. Recursive(D, {0}, ShiftSize(D), FewOf(D), first, ShiftNext(D), step)
  <2>1. first \in [FewOf(D) -> {0}] /\ step \in [D \ FewOf(D) -> [{0} -> {0}]]  OBVIOUS
  <2> HIDE DEF first, step
  <2>2. QED  BY <2>1, ShiftIsRecursive
<1>2. Inherits(f, D, T, FewOf(D), ShiftNext(D))  BY DEF Inherits, FewOf, ShiftNext
<1> HIDE DEF first, step
<1>3. QED  BY <1>1, <1>2, Inherited

\* The shifted numbers of a set tell of all.
LEMMA ShiftInduction ==
  ASSUME NEW D \in {Nat, Negative}, NEW Good,
         \A n \in D : Few(n) \/ n \div Base \in Good => n \in Good
  PROVE  D \subseteq Good
<1> DEFINE f == [n \in D |-> n]
<1>1. \A n \in D : Few(n) \/ f[n \div Base] \in Good => f[n] \in Good
  <2>1. \A n \in D : n \div Base \in D  BY DivMod DEF Negative
  <2>2. QED  BY <2>1
<1>2. \A n \in D : f[n] \in Good
  <2> HIDE DEF f
  <2>1. QED  BY <1>1, ShiftKeeps
<1>3. QED  BY <1>2

\* ufixnum_octets is the function that its definition describes.
LEMMA UfixnumOctets ==
  /\ ufixnum_octets \in [Nat -> Seq(Octet)]
  /\ \A n \in Nat :
       ufixnum_octets[n] = IF n < Base THEN <<n>> ELSE Append(ufixnum_octets[n \div Base], n % Base)
<1> DEFINE start == [n \in Nat |-> <<n % Base>>]
           step == [n \in Nat |-> [s \in Seq(Octet) |-> Append(s, n % Base)]]
           F(g, n) == IF n < Base THEN <<n>> ELSE Append(g[n \div Base], n % Base)
<1>1. \A n \in Nat : /\ n % Base \in Octet /\ n \div Base \in Nat /\ (Few(n) <=> n < Base)
                     /\ n < Base => n % Base = n
  BY DivMod, OctetAssumption DEF Few
<1>2. start \in [Nat -> Seq(Octet)] /\ step \in [Nat -> [Seq(Octet) -> Seq(Octet)]]  BY <1>1
<1>3. PICK f \in [Nat -> Seq(Octet)] : Shifts(f, Nat, start, step)
  <2> HIDE DEF start, step
  <2>1. QED  BY <1>2, Shifting
<1>4. ASSUME NEW n \in Nat PROVE f[n] = F(f, n)
  <2>1. f[n] = IF Few(n) THEN start[n] ELSE step[n][f[n \div Base]]  BY <1>3 DEF Shifts
  <2>2. f[n \div Base] \in Seq(Octet)  BY <1>1
  <2>3. QED  BY <1>1, <2>1, <2>2
<1>5. f = [n \in Nat |-> F(f, n)]  BY <1>4
<1>6. ufixnum_octets = [n \in Nat |-> F(ufixnum_octets, n)]  BY <1>5 DEF ufixnum_octets
<1>10. \A n \in Nat : ufixnum_octets[n] = F(ufixnum_octets, n)  BY <1>6
<1>7. ASSUME NEW n \in Nat, Few(n) \/ ufixnum_octets[n \div Base] \in Seq(Octet)
      PROVE  ufixnum_octets[n] \in Seq(Octet)
  <2>1. CASE n < Base
    <3>1. ufixnum_octets[n] = <<n>> /\ n \in Octet  BY <1>1, <1>10, <2>1
    <3>2. QED  BY <3>1
  <2>2. CASE n >= Base
    <3>0. ~(n < Base)  BY <2>2, OctetAssumption
    <3>1. ufixnum_octets[n] = Append(ufixnum_octets[n \div Base], n % Base)  BY <1>10, <3>0
    <3>2. QED  BY <1>1, <1>7, <2>2, <3>1, OctetAssumption
  <2>3. QED  BY <2>1, <2>2, OctetAssumption
<1>8. \A n \in Nat : ufixnum_octets[n] \in Seq(Octet)  BY <1>7, ShiftKeeps
<1>9. QED  BY <1>6, <1>8, <1>10

\* negative_octets is the function that its definition describes.
LEMMA NegativeOctets ==
  /\ negative_octets \in [Negative -> Seq(Octet)]
  /\ \A n \in Negative :
       negative_octets[n] = IF n \div Base >= -1 THEN <<n % Base>>
                            ELSE Append(negative_octets[n \div Base], n % Base)
<1> DEFINE start == [n \in Negative |-> <<n % Base>>]
           step == [n \in Negative |-> [s \in Seq(Octet) |-> Append(s, n % Base)]]
           F(g, n) == IF n \div Base >= -1 THEN <<n % Base>> ELSE Append(g[n \div Base], n % Base)
<1>1. \A n \in Negative : /\ n % Base \in Octet /\ n \div Base \in Negative
                          /\ Few(n) <=> n \div Base >= -1
  BY DivMod, OctetAssumption DEF Few, Negative
<1>2. start \in [Negative -> Seq(Octet)] /\ step \in [Negative -> [Seq(Octet) -> Seq(Octet)]]
  BY <1>1
<1>3. PICK f \in [Negative -> Seq(Octet)] : Shifts(f, Negative, start, step)
  <2> HIDE DEF start, step
  <2>1. QED  BY <1>2, Shifting
<1>4. ASSUME NEW n \in Negative PROVE f[n] = F(f, n)
  <2>1. f[n] = IF Few(n) THEN start[n] ELSE step[n][f[n \div Base]]  BY <1>3 DEF Shifts
  <2>2. f[n \div Base] \in Seq(Octet)  BY <1>1
  <2>3. QED  BY <1>1, <2>1, <2>2
<1>5. f = [n \in Negative |-> F(f, n)]  BY <1>4
<1>6. negative_octets = [n \in Negative |-> F(negative_octets, n)]  BY <1>5 DEF negative_octets
<1>7. \A n \in Negative : negative_octets[n] = F(negative_octets, n)  BY <1>6
<1>8. ASSUME NEW n \in Negative, Few(n) \/ negative_octets[n \div Base] \in Seq(Octet)
      PROVE  negative_octets[n] \in Seq(Octet)
  <2>1. CASE Few(n)
    <3>1. negative_octets[n] = <<n % Base>> /\ n % Base \in Octet  BY <1>1, <1>7, <2>1
    <3>2. QED  BY <3>1
  <2>2. CASE ~Few(n)
    <3>1. negative_octets[n] = Append(negative_octets[n \div Base], n % Base)  BY <1>1, <1>7, <2>2
    <3>2. QED  BY <1>1, <1>8, <2>2, <3>1
  <2>3. QED  BY <2>1, <2>2
<1>9. \A n \in Negative : negative_octets[n] \in Seq(Octet)  BY <1>8, ShiftKeeps
<1>10. QED  BY <1>6, <1>7, <1>9

\* natural_span is the function that its definition describes.
LEMMA NaturalSpan ==
  /\ natural_span \in [Nat -> Nat]
  /\ \A n \in Nat :
       natural_span[n] = IF n > Base - 1 THEN 1 + natural_span[n \div Base]
                         ELSE IF n >= Sign THEN 2 ELSE 1
<1> DEFINE start == [n \in Nat |-> IF n >= Sign THEN 2 ELSE 1]
           step == [n \in Nat |-> [s \in Nat |-> 1 + s]]
           F(g, n) == IF n > Base - 1 THEN 1 + g[n \div Base] ELSE IF n >= Sign THEN 2 ELSE 1
<1>1. \A n \in Nat : n \div Base \in Nat /\ (Few(n) <=> ~(n > Base - 1))
  BY DivMod, OctetAssumption DEF Few
<1>2. start \in [Nat -> Nat] /\ step \in [Nat -> [Nat -> Nat]]  OBVIOUS
<1>3. PICK f \in [Nat -> Nat] : Shifts(f, Nat, start, step)
  <2> HIDE DEF start, step
  <2>1. QED  BY <1>2, Shifting
<1>4. ASSUME NEW n \in Nat PROVE f[n] = F(f, n)
  <2>1. f[n] = IF Few(n) THEN start[n] ELSE step[n][f[n \div Base]]  BY <1>3 DEF Shifts
  <2>2. f[n \div Base] \in Nat  BY <1>1
  <2>3. QED  BY <1>1, <2>1, <2>2
<1>5. f = [n \in Nat |-> F(f, n)]  BY <1>4
<1>6. natural_span = [n \in Nat |-> F(natural_span, n)]  BY <1>5 DEF natural_span
<1>7. \A n \in Nat : natural_span[n] = F(natural_span, n)  BY <1>6
<1>8. ASSUME NEW n \in Nat, Few(n) \/ natural_span[n \div Base] \in Nat PROVE natural_span[n] \in Nat
  BY <1>1, <1>7, <1>8
<1>9. \A n \in Nat : natural_span[n] \in Nat  BY <1>8, ShiftKeeps
<1>10. QED  BY <1>6, <1>7, <1>9

\* negative_span is the function that its definition describes.
LEMMA NegativeSpan ==
  /\ negative_span \in [Negative -> Nat]
  /\ \A n \in Negative :
       negative_span[n] = 1 + IF n \div Base < -1 THEN negative_span[n \div Base] ELSE 0
<1> DEFINE start == [n \in Negative |-> 1]
           step == [n \in Negative |-> [s \in Nat |-> 1 + s]]
           F(g, n) == 1 + IF n \div Base < -1 THEN g[n \div Base] ELSE 0
<1>1. \A n \in Negative : n \div Base \in Negative /\ (Few(n) <=> ~(n \div Base < -1))
  BY DivMod, OctetAssumption DEF Few, Negative
<1>2. start \in [Negative -> Nat] /\ step \in [Negative -> [Nat -> Nat]]  OBVIOUS
<1>3. PICK f \in [Negative -> Nat] : Shifts(f, Negative, start, step)
  <2> HIDE DEF start, step
  <2>1. QED  BY <1>2, Shifting
<1>4. ASSUME NEW n \in Negative PROVE f[n] = F(f, n)
  <2>1. f[n] = IF Few(n) THEN start[n] ELSE step[n][f[n \div Base]]  BY <1>3 DEF Shifts
  <2>2. f[n \div Base] \in Nat  BY <1>1
  <2>3. QED  BY <1>1, <2>1, <2>2
<1>5. f = [n \in Negative |-> F(f, n)]  BY <1>4
<1>6. negative_span = [n \in Negative |-> F(negative_span, n)]  BY <1>5 DEF negative_span
<1>7. \A n \in Negative : negative_span[n] = F(negative_span, n)  BY <1>6
<1>8. ASSUME NEW n \in Negative, Few(n) \/ negative_span[n \div Base] \in Nat
      PROVE  negative_span[n] \in Nat
  BY <1>1, <1>7, <1>8
<1>9. \A n \in Negative : negative_span[n] \in Nat  BY <1>8, ShiftKeeps
<1>10. QED  BY <1>6, <1>7, <1>9

\* The two loops that shift the same number agree on how many octets there are.
LEMMA NaturalSpanIsLength ==
  ASSUME NEW n \in Nat
  PROVE  /\ Len(ufixnum_octets[n]) >= 1
         /\ natural_span[n] = Len(ufixnum_octets[n]) + (IF ufixnum_octets[n][1] >= Sign THEN 1 ELSE 0)
<1> DEFINE Same(m) == /\ Len(ufixnum_octets[m]) >= 1
                      /\ natural_span[m] = Len(ufixnum_octets[m])
                                           + (IF ufixnum_octets[m][1] >= Sign THEN 1 ELSE 0)
           Good == {m \in Nat : Same(m)}
<1>1. ASSUME NEW m \in Nat, Few(m) \/ m \div Base \in Good PROVE m \in Good
  <2>1. m \div Base \in Nat /\ m % Base \in Octet /\ (Few(m) <=> m < Base)
        /\ Base \in Nat /\ Sign \in Nat
    BY NatDivMod, FewIs, Signs
  <2>2. CASE m < Base
    <3>1. ufixnum_octets[m] = <<m>>  BY <2>2, UfixnumOctets
    <3>2. natural_span[m] = IF m >= Sign THEN 2 ELSE 1  BY <2>1, <2>2, NaturalSpan
    <3>3. Len(ufixnum_octets[m]) = 1 /\ ufixnum_octets[m][1] = m  BY <3>1
    <3>4. Same(m)  BY <2>1, <3>2, <3>3
    <3>5. QED  BY <3>4
  <2>3. CASE ~(m < Base)
    <3>1. ufixnum_octets[m] = Append(ufixnum_octets[m \div Base], m % Base)  BY <2>3, UfixnumOctets
    <3>2. natural_span[m] = 1 + natural_span[m \div Base]  BY <2>1, <2>3, NaturalSpan
    <3>3. ufixnum_octets[m \div Base] \in Seq(Octet)  BY <2>1, UfixnumOctets
    <3>4. Same(m \div Base)  BY <1>1, <2>1, <2>3
    <3>5. Len(ufixnum_octets[m]) = Len(ufixnum_octets[m \div Base]) + 1
          /\ ufixnum_octets[m][1] = ufixnum_octets[m \div Base][1]
      BY <2>1, <3>1, <3>3, <3>4
    <3>6. Len(ufixnum_octets[m \div Base]) \in Nat  BY <3>3
    <3>7. Same(m)
      <4> DEFINE k == Len(ufixnum_octets[m \div Base])
                 e == IF ufixnum_octets[m \div Base][1] >= Sign THEN 1 ELSE 0
      <4>1. natural_span[m \div Base] = k + e /\ k \in Nat /\ e \in Nat /\ k >= 1  BY <3>4, <3>6
      <4>2. natural_span[m] = (k + 1) + e
        <5> HIDE DEF k, e
        <5>1. QED  BY <3>2, <4>1
      <4>3. QED  BY <3>5, <4>1, <4>2
    <3>8. QED  BY <3>7
  <2>4. QED  BY <2>2, <2>3
<1>2. Nat \subseteq Good
  <2> HIDE DEF Good
  <2>1. QED  BY <1>1, ShiftInduction
<1>3. QED  BY <1>2

\* The span of a negative number is the number of its octets.
LEMMA NegativeSpanIsLength ==
  ASSUME NEW n \in Negative
  PROVE  negative_span[n] = Len(negative_octets[n]) /\ Len(negative_octets[n]) >= 1
<1> DEFINE Good == {m \in Negative : /\ negative_span[m] = Len(negative_octets[m])
                                     /\ Len(negative_octets[m]) >= 1}
<1>1. ASSUME NEW m \in Negative, Few(m) \/ m \div Base \in Good PROVE m \in Good
  <2>1. /\ m \div Base \in Negative /\ m \div Base \in Int /\ m % Base \in Octet
        /\ Few(m) <=> m \div Base >= -1
    BY DivMod, OctetAssumption DEF Few, Negative
  <2>2. CASE m \div Base >= -1
    <3>1. negative_octets[m] = <<m % Base>>  BY <2>2, NegativeOctets
    <3>2. negative_span[m] = 1  BY <2>1, <2>2, NegativeSpan
    <3>3. Len(negative_octets[m]) = 1  BY <3>1
    <3>4. negative_span[m] = Len(negative_octets[m]) /\ Len(negative_octets[m]) >= 1
      BY <3>2, <3>3
    <3>5. QED  BY <3>4
  <2>3. CASE ~(m \div Base >= -1)
    <3>1. negative_octets[m] = Append(negative_octets[m \div Base], m % Base)
      BY <2>3, NegativeOctets
    <3>2. negative_span[m] = 1 + negative_span[m \div Base]  BY <2>1, <2>3, NegativeSpan
    <3>3. negative_octets[m \div Base] \in Seq(Octet)  BY <2>1, NegativeOctets
    <3>4. Len(negative_octets[m]) = Len(negative_octets[m \div Base]) + 1  BY <2>1, <3>1, <3>3
    <3>5. Len(negative_octets[m \div Base]) \in Nat  BY <3>3
    <3>6. negative_span[m \div Base] = Len(negative_octets[m \div Base])  BY <1>1, <2>1, <2>3
    <3>7. QED  BY <3>2, <3>4, <3>5, <3>6
  <2>4. QED  BY <2>2, <2>3
<1>2. Negative \subseteq Good
  <2> HIDE DEF Good
  <2>1. QED  BY <1>1, ShiftInduction
<1>3. QED  BY <1>2

-----------------------------------------------------------------------------
(***************************************************************************)
(* Part 3. Fixnums, lengths and sequences return from their octets.        *)
(***************************************************************************)

\* integer_after is the function that its definition describes.
LEMMA IntegerAfter ==
  ASSUME NEW start \in Int, NEW octets \in Seq(Octet)
  PROVE  /\ Len(octets) \in Nat
         /\ integer_after(start, octets) \in [0 .. Len(octets) -> Int]
         /\ integer_after(start, octets)[0] = start
         /\ \A i \in 1 .. Len(octets) :
              integer_after(start, octets)[i] = integer_after(start, octets)[i - 1] * Base + octets[i]
<1> DEFINE n == Len(octets)
           g == integer_after(start, octets)
           step == [i \in 1 .. n |-> [v \in Int |-> v * Base + octets[i]]]
           F(h, i) == IF i = 0 THEN start ELSE h[i - 1] * Base + octets[i]
<1>1. n \in Nat /\ Base \in Int /\ \A i \in 1 .. n : octets[i] \in Int  BY Signs DEF Octet
<1>2. step \in [1 .. n -> [Int -> Int]]  BY <1>1
<1>3. PICK f \in [0 .. n -> Int] : Loops(f, n, start, step)
  <2> HIDE DEF n, step
  <2>1. QED  BY <1>1, <1>2, Loop
<1>4. ASSUME NEW i \in 0 .. n PROVE f[i] = F(f, i)
  <2>1. CASE i = 0  BY <1>3, <2>1 DEF Loops
  <2>2. CASE i # 0
    <3>1. i \in 1 .. n /\ i - 1 \in 0 .. n  BY <1>1, <2>2
    <3>2. f[i] = step[i][f[i - 1]] /\ f[i - 1] \in Int
      <4> HIDE DEF n, step
      <4>1. QED  BY <1>3, <3>1 DEF Loops
    <3>3. QED  BY <2>2, <3>1, <3>2
  <2>3. QED  BY <2>1, <2>2
<1>5. f = [i \in 0 .. n |-> F(f, i)]  BY <1>4
<1>6. g = [i \in 0 .. n |-> F(g, i)]  BY <1>5 DEF integer_after
<1> HIDE DEF g, n
<1>7. g[0] = start /\ \A i \in 1 .. n : g[i] = g[i - 1] * Base + octets[i]
  <2>1. \A i \in 0 .. n : g[i] = F(g, i)  BY <1>6
  <2>2. 0 \in 0 .. n /\ \A i \in 1 .. n : i \in 0 .. n /\ i # 0  BY <1>1
  <2>3. QED  BY <2>1, <2>2
<1>8. \A i \in 0 .. n : g[i] \in Int
  <2>1. ASSUME NEW i \in 1 .. n, g[i - 1] \in Int PROVE g[i] \in Int
    <3>1. octets[i] \in Int /\ Base \in Int /\ g[i] = g[i - 1] * Base + octets[i]  BY <1>1, <1>7
    <3>2. QED  BY <2>1, <3>1
  <2>2. QED  BY <1>1, <1>7, <2>1, LoopKeeps
<1>9. g \in [0 .. n -> Int]  BY <1>6, <1>8
<1>10. QED  BY <1>1, <1>7, <1>9 DEF g, n

\* What is after i octets does not depend on those that follow.
LEMMA SamePrefix ==
  ASSUME NEW start \in Int, NEW s \in Seq(Octet), NEW t \in Seq(Octet), NEW n \in Nat,
         n <= Len(s), n <= Len(t), \A i \in 1 .. n : s[i] = t[i]
  PROVE  integer_after(start, s)[n] = integer_after(start, t)[n]
<1> DEFINE f == [i \in 0 .. n |-> <<integer_after(start, s)[i], integer_after(start, t)[i]>>]
           Same == {vw \in Int \X Int : vw[1] = vw[2]}
<1>0. Base \in Int /\ Len(s) \in Nat /\ Len(t) \in Nat  BY Signs
<1>1. f[0] \in Same  BY <1>0, IntegerAfter
<1>2. ASSUME NEW i \in 1 .. n, f[i - 1] \in Same PROVE f[i] \in Same
  <2>1. i \in 1 .. Len(s) /\ i \in 1 .. Len(t) /\ i \in 0 .. n /\ i - 1 \in 0 .. n  BY <1>0
  <2>2. integer_after(start, s)[i] = integer_after(start, s)[i - 1] * Base + s[i]
    BY <2>1, IntegerAfter
  <2>3. integer_after(start, t)[i] = integer_after(start, t)[i - 1] * Base + t[i]
    BY <2>1, IntegerAfter
  <2>4. integer_after(start, s)[i - 1] = integer_after(start, t)[i - 1]  BY <1>2, <2>1
  <2>5. integer_after(start, s)[i] \in Int
    <3>1. i \in 0 .. Len(s)  BY <1>0, <2>1
    <3>2. integer_after(start, s) \in [0 .. Len(s) -> Int]  BY IntegerAfter
    <3>3. QED  BY <3>1, <3>2
  <2>6. integer_after(start, s)[i] = integer_after(start, t)[i]  BY <1>2, <2>2, <2>3, <2>4
  <2>7. QED  BY <2>1, <2>5, <2>6
<1>3. \A i \in 0 .. n : f[i] \in Same
  <2> HIDE DEF f, Same
  <2>1. QED  BY <1>1, <1>2, LoopKeeps
<1>4. n \in 0 .. n  OBVIOUS
<1>5. QED  BY <1>3, <1>4

\* One more octet.
LEMMA AfterAppend ==
  ASSUME NEW start \in Int, NEW s \in Seq(Octet), NEW octet \in Octet
  PROVE  integer_after(start, Append(s, octet))[Len(s) + 1]
           = integer_after(start, s)[Len(s)] * Base + octet
<1> DEFINE t == Append(s, octet)
<1>1. t \in Seq(Octet) /\ Len(t) = Len(s) + 1 /\ Len(s) \in Nat /\ t[Len(s) + 1] = octet
      /\ \A i \in 1 .. Len(s) : s[i] = t[i]
  BY AppendProperties
<1>2. integer_after(start, t)[Len(s)] = integer_after(start, s)[Len(s)]
  <2> HIDE DEF t
  <2>1. Len(s) <= Len(s) /\ Len(s) <= Len(t)  BY <1>1
  <2>2. QED  BY <1>1, <2>1, SamePrefix
<1>3. integer_after(start, t)[Len(s) + 1] = integer_after(start, t)[Len(s)] * Base + octet
  <2> HIDE DEF t
  <2>1. Len(s) + 1 \in 1 .. Len(t) /\ (Len(s) + 1) - 1 = Len(s)  BY <1>1
  <2>2. integer_after(start, t)[Len(s) + 1]
          = integer_after(start, t)[(Len(s) + 1) - 1] * Base + t[Len(s) + 1]
    BY <1>1, <2>1, IntegerAfter
  <2>3. QED  BY <1>1, <2>1, <2>2
<1>4. QED  BY <1>2, <1>3

\* The first octet.
LEMMA AfterOne ==
  ASSUME NEW start \in Int, NEW octet \in Octet
  PROVE  integer_after(start, <<octet>>)[1] = start * Base + octet
<1>1. <<octet>> \in Seq(Octet) /\ Len(<<octet>>) = 1 /\ <<octet>>[1] = octet  OBVIOUS
<1>2. integer_after(start, <<octet>>)[0] = start  BY <1>1, IntegerAfter
<1>3. integer_after(start, <<octet>>)[1] = integer_after(start, <<octet>>)[1 - 1] * Base + <<octet>>[1]
  <2>1. 1 \in 1 .. Len(<<octet>>)  BY <1>1
  <2>2. QED  BY <1>1, <2>1, IntegerAfter
<1>4. QED  BY <1>1, <1>2, <1>3

\* The octets of a number give it back.
LEMMA UfixnumReturns ==
  ASSUME NEW n \in Nat
  PROVE  natural_of(ufixnum_octets[n]) = n
<1> DEFINE value(m) == integer_after(0, ufixnum_octets[m])[Len(ufixnum_octets[m])]
           Good == {m \in Nat : value(m) = m}
<1>1. ASSUME NEW m \in Nat, Few(m) \/ m \div Base \in Good PROVE m \in Good
  <2>1. m \div Base \in Nat /\ m % Base \in Octet /\ (Few(m) <=> m < Base)  BY NatDivMod, FewIs
  <2>2. CASE m < Base
    <3>0. m \in Octet  BY <2>2, Signs DEF Octet
    <3>1. ufixnum_octets[m] = <<m>>  BY <2>2, UfixnumOctets
    <3>2. Len(ufixnum_octets[m]) = 1  BY <3>1
    <3>3. integer_after(0, <<m>>)[1] = 0 * Base + m  BY <3>0, AfterOne
    <3>4. value(m) = m  BY <3>1, <3>2, <3>3, Signs
    <3>5. QED  BY <3>4
  <2>3. CASE ~(m < Base)
    <3> DEFINE s == ufixnum_octets[m \div Base]
    <3>1. ufixnum_octets[m] = Append(s, m % Base)  BY <2>3, UfixnumOctets
    <3>2. s \in Seq(Octet)  BY <2>1, UfixnumOctets
    <3>3. Len(Append(s, m % Base)) = Len(s) + 1  BY <2>1, <3>2
    <3>4. value(m) = value(m \div Base) * Base + (m % Base)
      <4> HIDE DEF s
      <4>1. integer_after(0, Append(s, m % Base))[Len(s) + 1]
              = integer_after(0, s)[Len(s)] * Base + (m % Base)
        BY <2>1, <3>2, AfterAppend
      <4>2. QED  BY <3>1, <3>3, <4>1 DEF s
    <3>5. value(m \div Base) = m \div Base  BY <1>1, <2>1, <2>3
    <3>6. m = ((m \div Base) * Base) + (m % Base)  BY DivMod
    <3>7. value(m) = m  BY <3>4, <3>5, <3>6
    <3>8. QED  BY <3>7
  <2>4. QED  BY <2>2, <2>3
<1>2. Nat \subseteq Good
  <2> HIDE DEF Good
  <2>1. QED  BY <1>1, ShiftInduction
<1>3. QED  BY <1>2 DEF natural_of

\* The octets of a negative number return it, when all bits before them are 1.
LEMMA NegativeReturns ==
  ASSUME NEW n \in Negative
  PROVE  integer_after(-1, negative_octets[n])[Len(negative_octets[n])] = n
<1> DEFINE value(m) == integer_after(-1, negative_octets[m])[Len(negative_octets[m])]
           Good == {m \in Negative : value(m) = m}
<1>1. ASSUME NEW m \in Negative, Few(m) \/ m \div Base \in Good PROVE m \in Good
  <2>1. m \div Base \in Negative /\ m % Base \in Octet /\ (Few(m) <=> m \div Base >= -1)
    BY NegativeDivMod, FewIs
  <2>2. m \in Int /\ m = ((m \div Base) * Base) + (m % Base)  BY DivMod DEF Negative
  <2>3. CASE m \div Base >= -1
    <3>1. negative_octets[m] = <<m % Base>>  BY <2>3, NegativeOctets
    <3>2. Len(negative_octets[m]) = 1  BY <3>1
    <3>3. integer_after(-1, <<m % Base>>)[1] = (-1) * Base + (m % Base)  BY <2>1, AfterOne
    <3>4. m \div Base = -1  BY <2>1, <2>3 DEF Negative
    <3>5. value(m) = m  BY <2>2, <3>1, <3>2, <3>3, <3>4
    <3>6. QED  BY <3>5
  <2>4. CASE ~(m \div Base >= -1)
    <3> DEFINE s == negative_octets[m \div Base]
    <3>1. negative_octets[m] = Append(s, m % Base)  BY <2>4, NegativeOctets
    <3>2. s \in Seq(Octet)  BY <2>1, NegativeOctets
    <3>3. Len(Append(s, m % Base)) = Len(s) + 1  BY <2>1, <3>2
    <3>4. value(m) = value(m \div Base) * Base + (m % Base)
      <4> HIDE DEF s
      <4>1. integer_after(-1, Append(s, m % Base))[Len(s) + 1]
              = integer_after(-1, s)[Len(s)] * Base + (m % Base)
        BY <2>1, <3>2, AfterAppend
      <4>2. QED  BY <3>1, <3>3, <4>1 DEF s
    <3>5. value(m \div Base) = m \div Base  BY <1>1, <2>1, <2>4
    <3>6. value(m) = m  BY <2>2, <3>4, <3>5
    <3>7. QED  BY <3>6
  <2>5. QED  BY <2>3, <2>4
<1>2. Negative \subseteq Good
  <2> HIDE DEF Good
  <2>1. QED  BY <1>1, ShiftInduction
<1>3. QED  BY <1>2

\* An octet 0 before the others changes nothing.
LEMMA ZeroFirst ==
  ASSUME NEW s \in Seq(Octet)
  PROVE  integer_after(0, <<0>> \o s)[Len(s) + 1] = natural_of(s)
<1> DEFINE t == <<0>> \o s
           f == [i \in 0 .. Len(s) |-> integer_after(0, t)[i + 1] - integer_after(0, s)[i]]
           Zero == {0}
<1>1. t \in Seq(Octet) /\ Len(t) = Len(s) + 1 /\ Len(s) \in Nat /\ t[1] = 0
      /\ \A i \in 1 .. Len(s) : t[i + 1] = s[i]
  BY Signs DEF Octet
<1>2. Base \in Int /\ (\A i \in 1 .. Len(s) : s[i] \in Int)  BY Signs DEF Octet
<1>3. /\ integer_after(0, t) \in [0 .. Len(s) + 1 -> Int] /\ integer_after(0, t)[0] = 0
      /\ \A i \in 1 .. Len(s) + 1 :
           integer_after(0, t)[i] = integer_after(0, t)[i - 1] * Base + t[i]
  <2> HIDE DEF t
  <2>1. QED  BY <1>1, IntegerAfter
<1>4. /\ integer_after(0, s) \in [0 .. Len(s) -> Int] /\ integer_after(0, s)[0] = 0
      /\ \A i \in 1 .. Len(s) :
           integer_after(0, s)[i] = integer_after(0, s)[i - 1] * Base + s[i]
  BY IntegerAfter
<1> HIDE DEF t
<1>5. f[0] \in Zero
  <2>0. 1 \in 1 .. Len(s) + 1 /\ 1 - 1 = 0 /\ 0 + 1 = 1  BY <1>1
  <2>1. integer_after(0, t)[1] = integer_after(0, t)[1 - 1] * Base + t[1]  BY <1>3, <2>0
  <2>2. integer_after(0, t)[0 + 1] = 0 * Base + 0  BY <1>1, <1>3, <2>0, <2>1
  <2>4. integer_after(0, t)[0 + 1] = 0  BY <1>2, <2>2
  <2>3. QED  BY <1>1, <1>4, <2>4
<1>6. ASSUME NEW i \in 1 .. Len(s), f[i - 1] \in Zero PROVE f[i] \in Zero
  <2>1. i \in 0 .. Len(s) /\ i - 1 \in 0 .. Len(s) /\ i + 1 \in 1 .. Len(s) + 1
        /\ (i + 1) - 1 = i /\ (i - 1) + 1 = i /\ i \in 0 .. Len(s) + 1
    BY <1>1
  <2>2. integer_after(0, t)[i + 1] = integer_after(0, t)[i] * Base + s[i]
    <3>1. integer_after(0, t)[i + 1] = integer_after(0, t)[(i + 1) - 1] * Base + t[i + 1]
      BY <1>3, <2>1
    <3>2. QED  BY <1>1, <2>1, <3>1
  <2>3. integer_after(0, t)[i] = integer_after(0, s)[i - 1]
    <3>1. integer_after(0, t)[(i - 1) + 1] - integer_after(0, s)[i - 1] = 0  BY <1>6, <2>1
    <3>2. integer_after(0, t)[i] \in Int /\ integer_after(0, s)[i - 1] \in Int
      BY <1>3, <1>4, <2>1
    <3>3. QED  BY <2>1, <3>1, <3>2
  <2>4. integer_after(0, t)[i + 1] = integer_after(0, s)[i]  BY <1>4, <2>2, <2>3
  <2>5. integer_after(0, s)[i] \in Int  BY <1>4, <2>1
  <2>6. QED  BY <2>1, <2>4, <2>5
<1>7. \A i \in 0 .. Len(s) : f[i] \in Zero
  <2> HIDE DEF f, Zero
  <2>1. QED  BY <1>1, <1>5, <1>6, LoopKeeps
<1>8. integer_after(0, t)[Len(s) + 1] - integer_after(0, s)[Len(s)] = 0  BY <1>1, <1>7
<1>9. integer_after(0, t)[Len(s) + 1] \in Int /\ integer_after(0, s)[Len(s)] \in Int
  <2>1. Len(s) + 1 \in 0 .. Len(s) + 1 /\ Len(s) \in 0 .. Len(s)  BY <1>1
  <2>2. QED  BY <1>3, <1>4, <2>1
<1>10. QED  BY <1>8, <1>9 DEF natural_of, t

\* The span of a fixnum is the number of its octets.
LEMMA FixnumSpan ==
  ASSUME NEW n \in Int
  PROVE  /\ fill_fixnum_octets(n) \in Seq(Octet)
         /\ Len(fill_fixnum_octets(n)) = asn_fixnum_span(n)
         /\ asn_fixnum_span(n) \in Nat /\ asn_fixnum_span(n) >= 1
<1>1. CASE n < 0
  <2>1. n \in Negative  BY <1>1 DEF Negative
  <2>2. fill_fixnum_octets(n) = negative_octets[n] /\ asn_fixnum_span(n) = negative_span[n]
    BY <1>1 DEF fill_fixnum_octets, asn_fixnum_span
  <2>3. negative_octets[n] \in Seq(Octet) /\ negative_span[n] \in Nat
    BY <2>1, NegativeOctets, NegativeSpan
  <2>4. QED  BY <2>1, <2>2, <2>3, NegativeSpanIsLength
<1>2. CASE n >= 0
  <2> DEFINE s == ufixnum_octets[n]
  <2>1. n \in Nat  BY <1>2
  <2>2. s \in Seq(Octet) /\ natural_span[n] \in Nat  BY <2>1, UfixnumOctets, NaturalSpan
  <2>3. Len(s) >= 1 /\ natural_span[n] = Len(s) + (IF s[1] >= Sign THEN 1 ELSE 0)
    BY <2>1, NaturalSpanIsLength
  <2>4. fill_fixnum_octets(n) = (IF s[1] >= Sign THEN <<0>> \o s ELSE s)
        /\ asn_fixnum_span(n) = natural_span[n]
    BY <1>2 DEF fill_fixnum_octets, asn_fixnum_span
  <2> HIDE DEF s
  <2>5. <<0>> \o s \in Seq(Octet) /\ Len(<<0>> \o s) = Len(s) + 1  BY <2>2, Signs DEF Octet
  <2>6. Len(s) \in Nat  BY <2>2
  <2>7. QED  BY <2>2, <2>3, <2>4, <2>5, <2>6
<1>3. QED  BY <1>1, <1>2

\* Each octet gives room for Base times as many numbers.
LEMMA Room ==
  /\ room \in [Nat -> Nat] /\ room[0] = 1
  /\ \A k \in Nat : room[k + 1] = Base * room[k]
<1> DEFINE size == [k \in Nat |-> k]
           first == [k \in {0} |-> 1]
           next == [k \in Nat \ {0} |-> k - 1]
           times == [k \in Nat \ {0} |-> [v \in Nat |-> Base * v]]
           F(h, k) == IF k = 0 THEN 1 ELSE Base * h[k - 1]
<1>1. Recursive(Nat, Nat, size, {0}, first, next, times)
  <2>1. times \in [Nat \ {0} -> [Nat -> Nat]]  BY Signs
  <2>2. QED  BY <2>1 DEF Recursive
<1>2. PICK f \in [Nat -> Nat] : Computes(f, Nat, {0}, first, next, times)
  <2> HIDE DEF size, first, next, times
  <2>1. QED  BY <1>1, Recursion
<1>3. ASSUME NEW k \in Nat PROVE f[k] = F(f, k)
  <2>1. CASE k = 0  BY <1>2, <2>1 DEF Computes
  <2>2. CASE k # 0
    <3>1. k \in Nat \ {0} /\ k \notin {0} /\ k - 1 \in Nat  BY <2>2
    <3>2. f[k] = times[k][f[next[k]]]
      <4> HIDE DEF first, next, times
      <4>1. QED  BY <1>2, <3>1 DEF Computes
    <3>3. f[k - 1] \in Nat  BY <3>1
    <3>4. QED  BY <2>2, <3>1, <3>2, <3>3
  <2>3. QED  BY <2>1, <2>2
<1>4. f = [k \in Nat |-> F(f, k)]  BY <1>3
<1>5. room = [k \in Nat |-> F(room, k)]  BY <1>4 DEF room
<1>6. \A k \in Nat : room[k] = F(room, k)  BY <1>5
<1>7. room[0] = 1  BY <1>6
<1>8. ASSUME NEW k \in Nat PROVE room[k + 1] = Base * room[k]
  <2>1. k + 1 \in Nat /\ k + 1 # 0 /\ (k + 1) - 1 = k  OBVIOUS
  <2>2. QED  BY <1>6, <2>1
<1>9. Nat \subseteq {k \in Nat : room[k] \in Nat}
  <2> DEFINE Good == {k \in Nat : room[k] \in Nat}
  <2>1. 0 \in Good  BY <1>7
  <2>2. ASSUME NEW k \in Nat, k \in Good PROVE k + 1 \in Good
    <3>1. room[k + 1] = Base * room[k] /\ room[k] \in Nat /\ Base \in Nat  BY <1>8, <2>2, Signs
    <3>2. room[k + 1] \in Nat  BY <3>1
    <3>3. QED  BY <3>2
  <2> HIDE DEF Good
  <2>3. Nat \subseteq Good  BY <2>1, <2>2, NatIsInductive
  <2>4. QED  BY <2>3 DEF Good
<1>10. QED  BY <1>5, <1>7, <1>8, <1>9

\* Octets read with no sign are those read with one and as much as they have room for.
LEMMA WithoutSign ==
  ASSUME NEW s \in Seq(Octet)
  PROVE  natural_of(s) = integer_after(-1, s)[Len(s)] + room[Len(s)]
<1> DEFINE n == Len(s)
           a == integer_after(0, s)
           b == integer_after(-1, s)
           f == [i \in 0 .. n |-> a[i] - b[i] - room[i]]
           Zero == {0}
<1>1. n \in Nat /\ Base \in Int /\ room[0] = 1 /\ \A i \in 1 .. n : s[i] \in Int
  <2>1. Base \in Int /\ (\A i \in 1 .. Len(s) : s[i] \in Int)  BY Signs DEF Octet
  <2>2. QED  BY <2>1, Room
<1>2. /\ a \in [0 .. n -> Int] /\ a[0] = 0 /\ b \in [0 .. n -> Int] /\ b[0] = -1
      /\ \A i \in 1 .. n : a[i] = a[i - 1] * Base + s[i]
      /\ \A i \in 1 .. n : b[i] = b[i - 1] * Base + s[i]
  BY IntegerAfter
<1> HIDE DEF n, a, b
<1>3. f[0] \in Zero  BY <1>1, <1>2
<1>4. ASSUME NEW i \in 1 .. n, f[i - 1] \in Zero PROVE f[i] \in Zero
  <2>1. i \in 0 .. n /\ i - 1 \in 0 .. n /\ i - 1 \in Nat /\ (i - 1) + 1 = i  BY <1>1
  <2>2. room[i] = Base * room[i - 1] /\ room[i - 1] \in Int /\ a[i - 1] \in Int /\ b[i - 1] \in Int
    <3>1. room[(i - 1) + 1] = Base * room[i - 1] /\ room[i - 1] \in Nat  BY <2>1, Room
    <3>2. QED  BY <1>2, <2>1, <3>1
  <2>3. a[i - 1] = b[i - 1] + room[i - 1]
    <3>1. a[i - 1] - b[i - 1] - room[i - 1] = 0  BY <1>4, <2>1
    <3>2. QED  BY <2>2, <3>1
  <2>4. a[i] = (b[i - 1] + room[i - 1]) * Base + s[i] /\ b[i] = b[i - 1] * Base + s[i]  BY <1>2, <2>3
  <2>5. a[i] - b[i] - room[i] = 0
    <3>1. (b[i - 1] + room[i - 1]) * Base = b[i - 1] * Base + Base * room[i - 1]  BY <1>1, <2>2
    <3>2. b[i - 1] * Base \in Int /\ Base * room[i - 1] \in Int /\ s[i] \in Int  BY <1>1, <2>2
    <3>3. QED  BY <2>2, <2>4, <3>1, <3>2
  <2>6. QED  BY <2>1, <2>5
<1>5. \A i \in 0 .. n : f[i] \in Zero
  <2> HIDE DEF f, Zero
  <2>1. QED  BY <1>1, <1>3, <1>4, LoopKeeps
<1>6. n \in 0 .. n /\ room[n] \in Int  BY <1>1, Room
<1>7. a[n] - b[n] - room[n] = 0  BY <1>5, <1>6
<1>8. a[n] \in Int /\ b[n] \in Int  BY <1>2, <1>6
<1>9. QED  BY <1>6, <1>7, <1>8 DEF n, a, b, natural_of

\* The sign bit of the first octet tells the two halves of the numbers there is
\* room for.
LEMMA SignIsHalf ==
  ASSUME NEW s \in Seq(Octet), Len(s) >= 1
  PROVE  s[1] < Sign <=> 2 * natural_of(s) < room[Len(s)]
<1> DEFINE n == Len(s)
           a == integer_after(0, s)
           Lower == {p \in Int \X Nat : 2 * p[1] + 2 <= p[2]}
           Upper == {p \in Int \X Nat : 2 * p[1] >= p[2]}
           f == [i \in 0 .. n - 1 |-> <<a[i + 1], room[i + 1]>>]
<1>1. /\ n \in Nat /\ n - 1 \in Nat /\ Base \in Nat /\ Sign \in Nat /\ Base = 2 * Sign
      /\ \A i \in 1 .. n : s[i] \in Nat /\ s[i] < Base
  BY Signs DEF Octet
<1>2. /\ a \in [0 .. n -> Int] /\ a[0] = 0
      /\ \A i \in 1 .. n : a[i] = a[i - 1] * Base + s[i]
  BY IntegerAfter
<1>3. a[n] = natural_of(s)  BY DEF natural_of
<1> HIDE DEF n, a
<1>4. f[0] = <<s[1], Base>>
  <2>1. 1 \in 1 .. n /\ 0 \in 0 .. n - 1 /\ 0 + 1 = 1 /\ 1 - 1 = 0  BY <1>1
  <2>2. a[1] = a[1 - 1] * Base + s[1]  BY <1>2, <2>1
  <2>3. a[1] = 0 * Base + s[1] /\ s[1] \in Nat  BY <1>1, <1>2, <2>1, <2>2
  <2>4. a[1] = s[1]  BY <1>1, <2>3
  <2>5. room[1] = Base
    <3>1. 0 \in Nat /\ room[0 + 1] = Base * room[0] /\ room[0] = 1  BY Room
    <3>2. QED  BY <1>1, <2>1, <3>1
  <2>6. QED  BY <2>1, <2>4, <2>5
<1>5. ASSUME NEW i \in 1 .. n - 1
      PROVE  /\ a[i] \in Int /\ room[i] \in Nat /\ a[i + 1] \in Int /\ room[i + 1] \in Nat
             /\ a[i + 1] = a[i] * Base + s[i + 1] /\ room[i + 1] = room[i] * Base
             /\ s[i + 1] \in Nat /\ s[i + 1] <= Base - 1
  <2>1. i \in 0 .. n /\ i + 1 \in 0 .. n /\ i + 1 \in 1 .. n /\ (i + 1) - 1 = i /\ i \in Nat /\ i + 1 \in Nat
    BY <1>1
  <2>2. a[i + 1] = a[(i + 1) - 1] * Base + s[i + 1]  BY <1>2, <2>1
  <2>3. room[i + 1] = Base * room[i] /\ room[i] \in Nat /\ room[i + 1] \in Nat  BY <2>1, Room
  <2>4. Base * room[i] = room[i] * Base  BY <1>1, <2>3
  <2>5. s[i + 1] \in Nat /\ s[i + 1] < Base  BY <1>1, <2>1
  <2>6. s[i + 1] <= Base - 1  BY <1>1, <2>5
  <2>7. a[i] \in Int /\ a[i + 1] \in Int  BY <1>2, <2>1
  <2>8. QED  BY <2>1, <2>2, <2>3, <2>4, <2>5, <2>6, <2>7
<1>12. ASSUME NEW i \in 1 .. n - 1
       PROVE  f[i - 1] = <<a[i], room[i]>> /\ f[i] = <<a[i + 1], room[i + 1]>>
  <2>1. i \in 0 .. n - 1 /\ i - 1 \in 0 .. n - 1 /\ (i - 1) + 1 = i  BY <1>1
  <2>2. QED  BY <2>1
<1>6. ASSUME NEW v \in Int, NEW w \in Int, v <= w PROVE v * Base <= w * Base
  <2>1. (w - v) * Base >= 0  BY <1>1, <1>6
  <2>2. (w - v) * Base = w * Base - v * Base  BY <1>1
  <2>3. v * Base \in Int /\ w * Base \in Int  BY <1>1
  <2>4. QED  BY <2>1, <2>2, <2>3
<1>7. 0 \in Nat /\ n - 1 \in 0 .. n - 1 /\ (n - 1) + 1 = n /\ 1 \in 1 .. n  BY <1>1
<1>8. f[n - 1] = <<natural_of(s), room[n]>> /\ natural_of(s) \in Int /\ room[n] \in Nat
  <2>1. n \in 0 .. n  BY <1>1
  <2>2. QED  BY <1>1, <1>2, <1>3, <1>7, <2>1, Room
<1> HIDE DEF f
<1>9. CASE s[1] < Sign
  <2>1. f[0] \in Lower  BY <1>1, <1>4, <1>7, <1>9
  <2>2. ASSUME NEW i \in 1 .. n - 1, f[i - 1] \in Lower PROVE f[i] \in Lower
    <3>1. 2 * a[i] + 2 <= room[i]  BY <1>12, <2>2
    <3>2. (2 * a[i] + 2) * Base <= room[i] * Base
      <4>1. 2 * a[i] + 2 \in Int /\ room[i] \in Int  BY <1>5
      <4>2. \A v, w \in Int : v <= w => v * Base <= w * Base  BY <1>6
      <4> DEFINE A == 2 * a[i] + 2
                 R == room[i]
      <4>3. A \in Int /\ R \in Int /\ A <= R  BY <3>1, <4>1
      <4> HIDE DEF A, R
      <4>4. A * Base <= R * Base  BY <4>2, <4>3
      <4>5. QED  BY <4>4 DEF A, R
    <3>3. (2 * a[i] + 2) * Base = 2 * (a[i] * Base) + 2 * Base
      <4>1. a[i] \in Int /\ Base \in Int  BY <1>1, <1>5
      <4>2. QED  BY <4>1
    <3>4. a[i] * Base \in Int /\ room[i] * Base \in Int  BY <1>1, <1>5
    <3>5. 2 * a[i + 1] + 2 <= room[i + 1]
      <4> DEFINE A == a[i] * Base
                 R == room[i] * Base
      <4>1. A \in Int /\ R \in Int /\ 2 * A + 2 * Base <= R  BY <3>2, <3>3, <3>4
      <4>2. a[i + 1] = A + s[i + 1] /\ room[i + 1] = R  BY <1>5
      <4>3. s[i + 1] \in Nat /\ s[i + 1] <= Base - 1  BY <1>5
      <4> HIDE DEF A, R
      <4>4. QED  BY <1>1, <4>1, <4>2, <4>3
    <3>6. f[i] = <<a[i + 1], room[i + 1]>> /\ a[i + 1] \in Int /\ room[i + 1] \in Nat  BY <1>5, <1>12
    <3>7. QED  BY <3>5, <3>6
  <2>3. \A i \in 0 .. n - 1 : f[i] \in Lower
    <3> HIDE DEF f, Lower
    <3>1. QED  BY <1>1, <2>1, <2>2, LoopKeeps
  <2>4. 2 * natural_of(s) + 2 <= room[n]  BY <1>7, <1>8, <2>3
  <2>5. QED  BY <1>8, <1>9, <2>4 DEF n
<1>10. CASE ~(s[1] < Sign)
  <2>1. f[0] \in Upper  BY <1>1, <1>4, <1>7, <1>10
  <2>2. ASSUME NEW i \in 1 .. n - 1, f[i - 1] \in Upper PROVE f[i] \in Upper
    <3>1. room[i] <= 2 * a[i]  BY <1>12, <2>2
    <3>2. room[i] * Base <= (2 * a[i]) * Base  BY <1>5, <1>6, <3>1
    <3>3. (2 * a[i]) * Base = 2 * (a[i] * Base)  BY <1>1, <1>5
    <3>4. a[i] * Base \in Int /\ room[i] * Base \in Int  BY <1>1, <1>5
    <3>5. 2 * a[i + 1] >= room[i + 1]
      <4> DEFINE A == a[i] * Base
                 R == room[i] * Base
      <4>1. A \in Int /\ R \in Int /\ R <= 2 * A  BY <3>2, <3>3, <3>4
      <4>2. a[i + 1] = A + s[i + 1] /\ room[i + 1] = R  BY <1>5
      <4>3. s[i + 1] \in Nat  BY <1>5
      <4> HIDE DEF A, R
      <4>4. QED  BY <4>1, <4>2, <4>3
    <3>6. f[i] = <<a[i + 1], room[i + 1]>> /\ a[i + 1] \in Int /\ room[i + 1] \in Nat  BY <1>5, <1>12
    <3>7. QED  BY <3>5, <3>6
  <2>3. \A i \in 0 .. n - 1 : f[i] \in Upper
    <3> HIDE DEF f, Upper
    <3>1. QED  BY <1>1, <2>1, <2>2, LoopKeeps
  <2>4. 2 * natural_of(s) >= room[n]  BY <1>7, <1>8, <2>3
  <2>5. QED  BY <1>8, <1>10, <2>4 DEF n
<1>11. QED  BY <1>9, <1>10

\* What a number returns as is a number.
LEMMA ReturnedIsInt == \A n \in Int : Returned(n) \in Int
<1>1. ASSUME NEW n \in Int PROVE Returned(n) \in Int
  <2>1. asn_fixnum_span(n) \in Nat  BY FixnumSpan
  <2>2. room[asn_fixnum_span(n)] \in Nat  BY <2>1, Room
  <2>3. QED  BY <2>2 DEF Returned
<1>2. QED  BY <1>1

\* The octets of a fixnum return it, but for the negative ones that lose their sign.
LEMMA FixnumReturns ==
  ASSUME NEW n \in Int
  PROVE  fixnum_of(fill_fixnum_octets(n)) = Returned(n)
<1>1. CASE n < 0
  <2> DEFINE s == fill_fixnum_octets(n)
             k == asn_fixnum_span(n)
  <2>1. n \in Negative /\ s = negative_octets[n]  BY <1>1 DEF Negative, fill_fixnum_octets
  <2>2. s \in Seq(Octet) /\ Len(s) = k /\ k \in Nat /\ k >= 1 /\ room[k] \in Nat  BY FixnumSpan, Room
  <2>3. integer_after(-1, s)[Len(s)] = n  BY <2>1, NegativeReturns
  <2> HIDE DEF s, k
  <2>4. natural_of(s) = n + room[k]  BY <2>2, <2>3, WithoutSign
  <2>5. s[1] < Sign <=> 2 * (n + room[k]) < room[k]  BY <2>2, <2>4, SignIsHalf
  <2>6. s[1] \in Int /\ Sign \in Int  BY <2>2, Signs DEF Octet
  <2>7. Returned(n) = IF 2 * (n + room[k]) < room[k] THEN n + room[k] ELSE n  BY <1>1 DEF Returned, k
  <2>8. fixnum_of(s) = IF s[1] >= Sign THEN integer_after(-1, s)[Len(s)] ELSE natural_of(s)
    BY DEF fixnum_of, natural_of
  <2>9. s[1] >= Sign <=> ~(s[1] < Sign)  BY <2>6
  <2>10. QED  BY <2>3, <2>4, <2>5, <2>7, <2>8, <2>9 DEF s
<1>2. ASSUME n >= 0 PROVE fixnum_of(fill_fixnum_octets(n)) = n
  <2> DEFINE s == ufixnum_octets[n]
  <2>1. n \in Nat /\ s \in Seq(Octet) /\ natural_of(s) = n  BY <1>2, UfixnumOctets, UfixnumReturns
  <2>2. fill_fixnum_octets(n) = IF s[1] >= Sign THEN <<0>> \o s ELSE s
    BY <1>2 DEF fill_fixnum_octets
  <2>3. Len(s) >= 1  BY <2>1, NaturalSpanIsLength
  <2> HIDE DEF s
  <2>4. CASE s[1] >= Sign
    <3>1. Len(<<0>> \o s) = Len(s) + 1 /\ (<<0>> \o s)[1] = 0  BY <2>1
    <3>2. fixnum_of(<<0>> \o s) = integer_after(0, <<0>> \o s)[Len(s) + 1]
      BY <3>1, Signs DEF fixnum_of
    <3>3. QED  BY <2>1, <2>2, <2>4, <3>2, ZeroFirst
  <2>5. CASE ~(s[1] >= Sign)
    <3>1. fixnum_of(s) = natural_of(s)  BY <2>5 DEF fixnum_of, natural_of
    <3>2. QED  BY <2>1, <2>2, <2>5, <3>1
  <2>6. QED  BY <2>4, <2>5
<1>3. n >= 0 => Returned(n) = n  BY DEF Returned
<1>4. QED  BY <1>1, <1>2, <1>3

(***************************************************************************)
(* Octets in a datagram.                                                   *)
(***************************************************************************)
Occurs(octets, offset, s) == \A i \in 1 .. Len(s) : octets[offset + i] = s[i]

\* Two sequences occur where their concatenation does.
LEMMA OccursConcat ==
  ASSUME NEW octets, NEW offset \in Nat, NEW S, NEW s \in Seq(S), NEW t \in Seq(S)
  PROVE  Occurs(octets, offset, s \o t)
           <=> Occurs(octets, offset, s) /\ Occurs(octets, offset + Len(s), t)
<1>1. Len(s) \in Nat /\ Len(t) \in Nat /\ Len(s \o t) = Len(s) + Len(t)  OBVIOUS
<1>2. \A i \in 1 .. Len(s) + Len(t) : (s \o t)[i] = IF i <= Len(s) THEN s[i] ELSE t[i - Len(s)]
  BY ConcatProperties
<1>3. ASSUME Occurs(octets, offset, s \o t) PROVE Occurs(octets, offset, s)
  <2>1. \A i \in 1 .. Len(s) : i \in 1 .. Len(s) + Len(t) /\ i <= Len(s)  BY <1>1
  <2>2. QED  BY <1>1, <1>2, <1>3, <2>1 DEF Occurs
<1>4. ASSUME Occurs(octets, offset, s \o t) PROVE Occurs(octets, offset + Len(s), t)
  <2> SUFFICES ASSUME NEW i \in 1 .. Len(t) PROVE octets[(offset + Len(s)) + i] = t[i]
    BY DEF Occurs
  <2>1. Len(s) + i \in 1 .. Len(s) + Len(t) /\ ~(Len(s) + i <= Len(s)) /\ (Len(s) + i) - Len(s) = i
        /\ offset + (Len(s) + i) = (offset + Len(s)) + i
    BY <1>1
  <2>2. (s \o t)[Len(s) + i] = t[i]  BY <1>2, <2>1
  <2>3. QED  BY <1>1, <1>4, <2>1, <2>2 DEF Occurs
<1>5. ASSUME Occurs(octets, offset, s), Occurs(octets, offset + Len(s), t)
      PROVE  Occurs(octets, offset, s \o t)
  <2> SUFFICES ASSUME NEW i \in 1 .. Len(s) + Len(t) PROVE octets[offset + i] = (s \o t)[i]
    BY <1>1 DEF Occurs
  <2>1. CASE i <= Len(s)  BY <1>1, <1>2, <1>5, <2>1 DEF Occurs
  <2>2. CASE ~(i <= Len(s))
    <3>1. i - Len(s) \in 1 .. Len(t) /\ (offset + Len(s)) + (i - Len(s)) = offset + i
      BY <1>1, <2>2
    <3>2. QED  BY <1>2, <1>5, <2>2, <3>1 DEF Occurs
  <2>3. QED  BY <2>1, <2>2
<1>6. QED  BY <1>3, <1>4, <1>5

\* What occurs is what is cut out there.
LEMMA OccursSubSeq ==
  ASSUME NEW octets, NEW offset \in Nat, NEW S, NEW s \in Seq(S), Occurs(octets, offset, s)
  PROVE  SubSeq(octets, offset + 1, offset + Len(s)) = s
<1> DEFINE m == offset + 1
           n == offset + Len(s)
           t == SubSeq(octets, m, n)
<1>1. Len(s) \in Nat /\ m \in Int /\ n \in Int /\ \A i \in 1 .. Len(s) : s[i] \in S  OBVIOUS
<1>2. \A i \in m .. n : octets[i] \in S
  <2> SUFFICES ASSUME NEW i \in m .. n PROVE octets[i] \in S  OBVIOUS
  <2>1. i - offset \in 1 .. Len(s) /\ offset + (i - offset) = i  BY <1>1
  <2>2. octets[offset + (i - offset)] = s[i - offset]  BY <2>1 DEF Occurs
  <2>3. QED  BY <1>1, <2>1, <2>2
<1>3. /\ t \in Seq(S) /\ Len(t) = IF m <= n THEN n - m + 1 ELSE 0
      /\ \A i \in 1 .. n - m + 1 : t[i] = octets[m + i - 1]
  <2> HIDE DEF m, n
  <2>1. QED  BY <1>1, <1>2, SubSeqProperties
<1> HIDE DEF t
<1>4. Len(t) = Len(s)  BY <1>1, <1>3
<1>5. \A i \in 1 .. Len(t) : t[i] = s[i]
  <2> SUFFICES ASSUME NEW i \in 1 .. Len(s) PROVE t[i] = s[i]  BY <1>4
  <2>1. i \in 1 .. n - m + 1 /\ m + i - 1 = offset + i  BY <1>1
  <2>2. t[i] = octets[offset + i]  BY <1>3, <2>1
  <2>3. QED  BY <2>2 DEF Occurs
<1>6. t = s  BY <1>3, <1>4, <1>5, SeqEqual
<1>7. QED  BY <1>6 DEF t

\* A length fills its span; its octets are octets if their number is one.
LEMMA LengthOctets ==
  ASSUME NEW length \in Nat
  PROVE  /\ fill_length_octets(length) \in Seq(Nat)
         /\ Len(fill_length_octets(length)) = asn_length_span(length)
         /\ asn_length_span(length) \in Nat /\ asn_length_span(length) >= 1
         /\ Len(ufixnum_octets[length]) < Sign => fill_length_octets(length) \in Seq(Octet)
<1>1. CASE length <= Sign - 1
  <2>1. fill_length_octets(length) = <<length>> /\ asn_length_span(length) = 1
    BY <1>1 DEF fill_length_octets, asn_length_span
  <2>2. length \in Octet  BY <1>1, Signs DEF Octet
  <2>3. <<length>> \in Seq(Octet) /\ <<length>> \in Seq(Nat) /\ Len(<<length>>) = 1  BY <2>2
  <2>4. QED  BY <2>1, <2>3
<1>2. CASE ~(length <= Sign - 1)
  <2> DEFINE s == ufixnum_octets[length]
             k == Len(s)
  <2>1. s \in Seq(Octet) /\ k \in Nat /\ k >= 1  BY UfixnumOctets, NaturalSpanIsLength
  <2>2. fill_length_octets(length) = <<Sign + k>> \o s /\ asn_length_span(length) = 1 + k
    BY <1>2 DEF fill_length_octets, asn_length_span
  <2> HIDE DEF s
  <2>3. s \in Seq(Nat) /\ Sign + k \in Nat  BY <2>1, Signs, SeqMonotonic DEF Octet
  <2>4. <<Sign + k>> \in Seq(Nat) /\ Len(<<Sign + k>>) = 1  BY <2>3
  <2>5. <<Sign + k>> \o s \in Seq(Nat) /\ Len(<<Sign + k>> \o s) = 1 + k  BY <2>3, <2>4
  <2>6. ASSUME k < Sign PROVE <<Sign + k>> \o s \in Seq(Octet)
    <3>1. Sign + k \in Octet  BY <2>1, <2>6, Signs DEF Octet
    <3>2. QED  BY <2>1, <3>1
  <2>7. QED  BY <2>1, <2>2, <2>5, <2>6 DEF s
<1>3. QED  BY <1>1, <1>2

\* The octets of a length return it, and where it ends.
LEMMA LengthReturns ==
  ASSUME NEW octets, NEW offset \in Nat, NEW length \in Nat,
         Occurs(octets, offset, fill_length_octets(length))
  PROVE  asn_octets_to_length(octets, offset) = <<length, offset + asn_length_span(length)>>
<1>1. CASE length <= Sign - 1
  <2>1. fill_length_octets(length) = <<length>> /\ asn_length_span(length) = 1
    BY <1>1 DEF fill_length_octets, asn_length_span
  <2>2. octets[offset + 1] = length
    <3>1. 1 \in 1 .. Len(<<length>>) /\ <<length>>[1] = length  OBVIOUS
    <3>2. octets[offset + 1] = <<length>>[1]  BY <2>1, <3>1 DEF Occurs
    <3>3. QED  BY <3>1, <3>2
  <2>3. ~(length > Sign)  BY <1>1, Signs
  <2>4. QED  BY <2>1, <2>2, <2>3 DEF asn_octets_to_length
<1>2. CASE ~(length <= Sign - 1)
  <2> DEFINE s == ufixnum_octets[length]
             k == Len(s)
  <2>1. s \in Seq(Octet) /\ k \in Nat /\ k >= 1 /\ natural_of(s) = length
    BY UfixnumOctets, NaturalSpanIsLength, UfixnumReturns
  <2>2. fill_length_octets(length) = <<Sign + k>> \o s /\ asn_length_span(length) = 1 + k
    BY <1>2 DEF fill_length_octets, asn_length_span
  <2> HIDE DEF s
  <2>3. <<Sign + k>> \in Seq(Nat) /\ s \in Seq(Nat) /\ Len(<<Sign + k>>) = 1 /\ <<Sign + k>>[1] = Sign + k
    <3>1. s \in Seq(Nat) /\ Sign + k \in Nat  BY <2>1, Signs, SeqMonotonic DEF Octet
    <3>2. QED  BY <3>1
  <2>4. Occurs(octets, offset, <<Sign + k>>) /\ Occurs(octets, offset + 1, s)
    <3>1. Occurs(octets, offset, <<Sign + k>> \o s)  BY <2>2
    <3>2. Occurs(octets, offset + Len(<<Sign + k>>), s)  BY <2>3, <3>1, OccursConcat
    <3>3. QED  BY <2>3, <3>1, <3>2, OccursConcat
  <2>5. octets[offset + 1] = Sign + k
    <3>1. 1 \in 1 .. Len(<<Sign + k>>)  BY <2>3
    <3>2. octets[offset + 1] = <<Sign + k>>[1]  BY <2>4, <3>1 DEF Occurs
    <3>3. QED  BY <2>3, <3>2
  <2>6. SubSeq(octets, (offset + 1) + 1, (offset + 1) + k) = s  BY <2>1, <2>4, OccursSubSeq
  <2>7. (Sign + k) - Sign = k /\ Sign + k > Sign /\ (offset + 1) + 1 = offset + 2
        /\ (offset + 1) + k = offset + 1 + k /\ offset + k + 1 = offset + (1 + k)
    BY <2>1, Signs
  <2>8. SubSeq(octets, offset + 2, offset + 1 + k) = s  BY <2>6, <2>7
  <2>9. asn_octets_to_length(octets, offset) = <<natural_of(s), offset + k + 1>>
    BY <2>5, <2>7, <2>8 DEF asn_octets_to_length
  <2>10. QED  BY <2>1, <2>2, <2>7, <2>9
<1>3. QED  BY <1>1, <1>2

\* Of a value, whatever its identifier is, only the length matters.
LEMMA UnboxReturns ==
  ASSUME NEW octets, NEW offset \in Nat, NEW length \in Nat,
         Occurs(octets, offset + 1, fill_length_octets(length))
  PROVE  asn_octets_unbox(octets, offset) = <<length, offset + asn_span(length)>>
<1>1. asn_octets_to_length(octets, offset + 1) = <<length, offset + 1 + asn_length_span(length)>>
  BY LengthReturns
<1>2. asn_length_span(length) \in Nat  BY LengthOctets
<1>3. asn_octets_unbox(octets, offset) = <<length, (offset + 1 + asn_length_span(length)) + length>>
  BY <1>1 DEF asn_octets_unbox
<1>4. QED  BY <1>2, <1>3 DEF asn_span

(***************************************************************************)
(* Fixnums whose length is one octet, as that of every long long is.       *)
(***************************************************************************)
LEMMA FixnumBox ==
  ASSUME NEW n \in Fixnum
  PROVE  /\ n \in Int /\ asn_fixnum_span(n) \in Nat
         /\ asn_fixnum_to_octets(n) \in Seq(Octet)
         /\ Len(asn_fixnum_to_octets(n)) = asn_span(asn_fixnum_span(n))
         /\ asn_span(asn_fixnum_span(n)) = 2 + asn_fixnum_span(n)
<1> DEFINE s == fill_fixnum_octets(n)
<1>1. n \in Int /\ s \in Seq(Octet) /\ Len(s) = asn_fixnum_span(n) /\ Len(s) \in Nat /\ Len(s) < Sign
  BY FixnumSpan DEF Fixnum
<1>2. asn_fixnum_to_octets(n) = <<Integer, Len(s)>> \o s  BY DEF asn_fixnum_to_octets
<1> HIDE DEF s
<1>3. <<Integer, Len(s)>> \in Seq(Octet) /\ Len(<<Integer, Len(s)>>) = 2
  <2>1. Integer \in Octet /\ Len(s) \in Octet  BY <1>1, Signs DEF Octet, Integer
  <2>2. QED  BY <2>1
<1>4. asn_span(Len(s)) = 2 + Len(s)
  <2>1. asn_length_span(Len(s)) = 1  BY <1>1, Signs DEF asn_length_span
  <2>2. QED  BY <1>1, <2>1 DEF asn_span
<1>5. QED  BY <1>1, <1>2, <1>3, <1>4

\* A fixnum comes back from wherever its octets are, and its end is known.
LEMMA FixnumUnbox ==
  ASSUME NEW octets, NEW offset \in Nat, NEW n \in Fixnum,
         Occurs(octets, offset, asn_fixnum_to_octets(n))
  PROVE  asn_octets_to_fixnum(octets, offset) = <<Returned(n), offset + asn_span(asn_fixnum_span(n))>>
<1> DEFINE s == fill_fixnum_octets(n)
           k == asn_fixnum_span(n)
<1>1. n \in Int /\ s \in Seq(Octet) /\ Len(s) = k /\ k \in Nat /\ k < Sign
  BY FixnumSpan DEF Fixnum
<1>2. asn_fixnum_to_octets(n) = <<Integer, k>> \o s  BY <1>1 DEF asn_fixnum_to_octets
<1>3. fixnum_of(s) = Returned(n)  BY <1>1, FixnumReturns
<1>4. asn_span(k) = 2 + k  BY FixnumBox
<1> HIDE DEF s, k
<1>5. <<Integer, k>> \in Seq(Nat) /\ s \in Seq(Nat) /\ Len(<<Integer, k>>) = 2 /\ <<Integer, k>>[2] = k
  <2>1. s \in Seq(Nat)  BY <1>1, Signs, SeqMonotonic DEF Octet
  <2>2. Integer \in Nat  BY DEF Integer
  <2>3. QED  BY <1>1, <2>1, <2>2
<1>6. Occurs(octets, offset, <<Integer, k>>) /\ Occurs(octets, offset + 2, s)
  <2>1. Occurs(octets, offset, <<Integer, k>> \o s)  BY <1>2
  <2>2. Occurs(octets, offset + Len(<<Integer, k>>), s)  BY <1>5, <2>1, OccursConcat
  <2>3. QED  BY <1>5, <2>1, <2>2, OccursConcat
<1>7. octets[offset + 2] = k
  <2>1. 2 \in 1 .. Len(<<Integer, k>>)  BY <1>5
  <2>2. octets[offset + 2] = <<Integer, k>>[2]  BY <1>6, <2>1 DEF Occurs
  <2>3. QED  BY <1>5, <2>2
<1>8. asn_octets_unbox(octets, offset) = <<k, offset + (2 + k)>>
  <2>1. fill_length_octets(k) = <<k>>  BY <1>1, Signs DEF fill_length_octets
  <2>2. Occurs(octets, offset + 1, <<k>>)
    <3>1. Len(<<k>>) = 1 /\ <<k>>[1] = k /\ (offset + 1) + 1 = offset + 2  OBVIOUS
    <3>2. \A i \in 1 .. Len(<<k>>) : i = 1  BY <3>1
    <3>3. QED  BY <1>7, <3>1, <3>2 DEF Occurs
  <2>3. asn_octets_unbox(octets, offset) = <<k, offset + asn_span(k)>>
    BY <1>1, <2>1, <2>2, UnboxReturns
  <2>4. QED  BY <1>4, <2>3
<1>9. SubSeq(octets, (offset + 2) + 1, (offset + 2) + Len(s)) = s  BY <1>1, <1>6, OccursSubSeq
<1>10. (offset + (2 + k)) - k + 1 = (offset + 2) + 1 /\ (offset + 2) + Len(s) = offset + (2 + k)
  BY <1>1
<1>11. asn_octets_to_fixnum(octets, offset)
         = <<fixnum_of(SubSeq(octets, (offset + (2 + k)) - k + 1, offset + (2 + k))), offset + (2 + k)>>
  BY <1>8 DEF asn_octets_to_fixnum
<1>12. QED  BY <1>3, <1>4, <1>9, <1>10, <1>11 DEF k

\* fields_span is the function that its definition describes.
LEMMA FieldsSpan ==
  ASSUME NEW fields \in Seq(Fixnum)
  PROVE  /\ Len(fields) \in Nat
         /\ fields_span(fields) \in [0 .. Len(fields) -> Nat]
         /\ fields_span(fields)[0] = 0
         /\ \A i \in 1 .. Len(fields) :
              fields_span(fields)[i] = fields_span(fields)[i - 1] + asn_span(asn_fixnum_span(fields[i]))
<1> DEFINE n == Len(fields)
           span(i) == asn_span(asn_fixnum_span(fields[i]))
           g == fields_span(fields)
           step == [i \in 1 .. n |-> [v \in Nat |-> v + span(i)]]
           F(h, i) == IF i = 0 THEN 0 ELSE h[i - 1] + span(i)
<1>1. n \in Nat  OBVIOUS
<1>2. ASSUME NEW i \in 1 .. n PROVE span(i) \in Nat
  <2>1. fields[i] \in Fixnum  OBVIOUS
  <2>2. span(i) = 2 + asn_fixnum_span(fields[i]) /\ asn_fixnum_span(fields[i]) \in Nat
    BY <2>1, FixnumBox
  <2>3. QED  BY <2>2
<1> HIDE DEF n, span
<1>3. step \in [1 .. n -> [Nat -> Nat]]  BY <1>2
<1>4. PICK f \in [0 .. n -> Nat] : Loops(f, n, 0, step)
  <2> HIDE DEF step
  <2>1. QED  BY <1>1, <1>3, Loop
<1>5. ASSUME NEW i \in 0 .. n PROVE f[i] = F(f, i)
  <2>1. CASE i = 0  BY <1>4, <2>1 DEF Loops
  <2>2. CASE i # 0
    <3>1. i \in 1 .. n /\ i - 1 \in 0 .. n  BY <1>1, <2>2
    <3>2. f[i] = step[i][f[i - 1]] /\ f[i - 1] \in Nat
      <4> HIDE DEF step
      <4>1. QED  BY <1>4, <3>1 DEF Loops
    <3>3. QED  BY <2>2, <3>1, <3>2
  <2>3. QED  BY <2>1, <2>2
<1>6. f = [i \in 0 .. n |-> F(f, i)]  BY <1>5
<1>7. g = [i \in 0 .. n |-> F(g, i)]  BY <1>6 DEF fields_span, n, span
<1> HIDE DEF g
<1>8. g[0] = 0 /\ \A i \in 1 .. n : g[i] = g[i - 1] + span(i)
  <2>1. \A i \in 0 .. n : g[i] = F(g, i)  BY <1>7
  <2>2. 0 \in 0 .. n /\ \A i \in 1 .. n : i \in 0 .. n /\ i # 0  BY <1>1
  <2>3. QED  BY <2>1, <2>2
<1>9. \A i \in 0 .. n : g[i] \in Nat
  <2>1. ASSUME NEW i \in 1 .. n, g[i - 1] \in Nat PROVE g[i] \in Nat
    <3>1. span(i) \in Nat  BY <1>2
    <3>2. g[i] = g[i - 1] + span(i)  BY <1>8
    <3>3. QED  BY <2>1, <3>1, <3>2
  <2>2. g[0] \in Nat  BY <1>8
  <2>3. QED  BY <1>1, <2>1, <2>2, LoopKeeps
<1>10. g \in [0 .. n -> Nat]  BY <1>7, <1>9
<1>11. QED  BY <1>1, <1>8, <1>10 DEF g, n, span

\* fields_octets is the function that its definition describes.
LEMMA FieldsOctets ==
  ASSUME NEW fields \in Seq(Fixnum)
  PROVE  /\ fields_octets(fields) \in [0 .. Len(fields) -> Seq(Octet)]
         /\ fields_octets(fields)[0] = <<>>
         /\ \A i \in 1 .. Len(fields) :
              fields_octets(fields)[i] = fields_octets(fields)[i - 1] \o asn_fixnum_to_octets(fields[i])
<1> DEFINE n == Len(fields)
           box(i) == asn_fixnum_to_octets(fields[i])
           g == fields_octets(fields)
           step == [i \in 1 .. n |-> [s \in Seq(Octet) |-> s \o box(i)]]
           F(h, i) == IF i = 0 THEN <<>> ELSE h[i - 1] \o box(i)
<1>1. n \in Nat /\ <<>> \in Seq(Octet)  OBVIOUS
<1>2. ASSUME NEW i \in 1 .. n PROVE box(i) \in Seq(Octet)
  <2>1. fields[i] \in Fixnum  OBVIOUS
  <2>2. QED  BY <2>1, FixnumBox
<1> HIDE DEF n, box
<1>3. step \in [1 .. n -> [Seq(Octet) -> Seq(Octet)]]  BY <1>2
<1>4. PICK f \in [0 .. n -> Seq(Octet)] : Loops(f, n, <<>>, step)
  <2> HIDE DEF step
  <2>1. QED  BY <1>1, <1>3, Loop
<1>5. ASSUME NEW i \in 0 .. n PROVE f[i] = F(f, i)
  <2>1. CASE i = 0  BY <1>4, <2>1 DEF Loops
  <2>2. CASE i # 0
    <3>1. i \in 1 .. n /\ i - 1 \in 0 .. n  BY <1>1, <2>2
    <3>2. f[i] = step[i][f[i - 1]] /\ f[i - 1] \in Seq(Octet)
      <4> HIDE DEF step
      <4>1. QED  BY <1>4, <3>1 DEF Loops
    <3>3. QED  BY <2>2, <3>1, <3>2
  <2>3. QED  BY <2>1, <2>2
<1>6. f = [i \in 0 .. n |-> F(f, i)]  BY <1>5
<1>7. g = [i \in 0 .. n |-> F(g, i)]  BY <1>6 DEF fields_octets, n, box
<1> HIDE DEF g
<1>8. g[0] = <<>> /\ \A i \in 1 .. n : g[i] = g[i - 1] \o box(i)
  <2>1. \A i \in 0 .. n : g[i] = F(g, i)  BY <1>7
  <2>2. 0 \in 0 .. n /\ \A i \in 1 .. n : i \in 0 .. n /\ i # 0  BY <1>1
  <2>3. QED  BY <2>1, <2>2
<1>9. \A i \in 0 .. n : g[i] \in Seq(Octet)
  <2>1. ASSUME NEW i \in 1 .. n, g[i - 1] \in Seq(Octet) PROVE g[i] \in Seq(Octet)
    <3>1. box(i) \in Seq(Octet)  BY <1>2
    <3>2. g[i] = g[i - 1] \o box(i)  BY <1>8
    <3>3. QED  BY <2>1, <3>1, <3>2
  <2>2. g[0] \in Seq(Octet)  BY <1>1, <1>8
  <2>3. QED  BY <1>1, <2>1, <2>2, LoopKeeps
<1>10. g \in [0 .. n -> Seq(Octet)]  BY <1>7, <1>9
<1>11. QED  BY <1>8, <1>10 DEF g, n, box

\* The span of the first fields is the number of their octets.
LEMMA FieldsSpanIsLength ==
  ASSUME NEW fields \in Seq(Fixnum)
  PROVE  \A i \in 0 .. Len(fields) : Len(fields_octets(fields)[i]) = fields_span(fields)[i]
<1> DEFINE n == Len(fields)
           o == fields_octets(fields)
           s == fields_span(fields)
           Same == {i \in 0 .. n : Len(o[i]) = s[i]}
           f == [i \in 0 .. n |-> i]
<1>1. /\ n \in Nat /\ o \in [0 .. n -> Seq(Octet)] /\ o[0] = <<>> /\ s \in [0 .. n -> Nat] /\ s[0] = 0
      /\ \A i \in 1 .. n : /\ o[i] = o[i - 1] \o asn_fixnum_to_octets(fields[i])
                           /\ s[i] = s[i - 1] + asn_span(asn_fixnum_span(fields[i]))
  BY FieldsSpan, FieldsOctets
<1>2. \A i \in 1 .. n : /\ asn_fixnum_to_octets(fields[i]) \in Seq(Octet)
                        /\ Len(asn_fixnum_to_octets(fields[i])) = asn_span(asn_fixnum_span(fields[i]))
  <2>1. \A i \in 1 .. n : fields[i] \in Fixnum  OBVIOUS
  <2>2. QED  BY <2>1, FixnumBox
<1> HIDE DEF n, o, s
<1>3. f[0] \in Same  BY <1>1
<1>4. ASSUME NEW i \in 1 .. n, f[i - 1] \in Same PROVE f[i] \in Same
  <2>1. i \in 0 .. n /\ i - 1 \in 0 .. n  BY <1>1
  <2>2. o[i - 1] \in Seq(Octet) /\ Len(o[i - 1]) = s[i - 1]  BY <1>1, <1>4, <2>1
  <2>3. Len(o[i - 1] \o asn_fixnum_to_octets(fields[i]))
          = Len(o[i - 1]) + Len(asn_fixnum_to_octets(fields[i]))
    <3>1. asn_fixnum_to_octets(fields[i]) \in Seq(Octet)  BY <1>2
    <3>2. o[i - 1] \in Seq(Octet)  BY <2>2
    <3>3. QED  BY <3>1, <3>2, ConcatProperties
  <2>4. Len(o[i]) = s[i]  BY <1>1, <1>2, <2>2, <2>3
  <2>5. QED  BY <2>1, <2>4
<1>5. \A i \in 0 .. n : f[i] \in Same
  <2> HIDE DEF f, Same
  <2>1. QED  BY <1>1, <1>3, <1>4, LoopKeeps
<1>6. QED  BY <1>5 DEF n, o, s

\* Three sequences of numbers, one after the other.
LEMMA ThreeParts == \A a, b, c \in Seq(Nat) : (a \o b) \o c = a \o (b \o c)
  BY ConcatAssociative

\* The parts of a payload.
LEMMA PayloadIs ==
  ASSUME NEW fields \in Seq(Fixnum)
  PROVE  LET span == sequence_span(fields)
             content == fields_octets(fields)[Len(fields)]
         IN  /\ span \in Nat /\ content \in Seq(Octet) /\ Len(content) = span
             /\ <<Sequence>> \in Seq(Nat) /\ fill_length_octets(span) \in Seq(Nat) /\ content \in Seq(Nat)
             /\ sequence_into_octets(fields) = <<Sequence>> \o (fill_length_octets(span) \o content)
             /\ sequence_into_octets(fields) \in Seq(Nat)
             /\ Len(sequence_into_octets(fields)) = asn_span(span)
             /\ asn_span(span) = 1 + asn_length_span(span) + span
             /\ Len(ufixnum_octets[span]) < Sign => sequence_into_octets(fields) \in Seq(Octet)
<1> DEFINE span == sequence_span(fields)
           content == fields_octets(fields)[Len(fields)]
           length == fill_length_octets(span)
<1>1. Len(fields) \in 0 .. Len(fields)  BY FieldsSpan
<1>2. span \in Nat /\ content \in Seq(Octet) /\ Len(content) = span
  BY <1>1, FieldsSpan, FieldsOctets, FieldsSpanIsLength DEF sequence_span
<1>3. /\ length \in Seq(Nat) /\ Len(length) = asn_length_span(span) /\ asn_length_span(span) \in Nat
      /\ Len(ufixnum_octets[span]) < Sign => length \in Seq(Octet)
  BY <1>2, LengthOctets
<1>4. content \in Seq(Nat)
  <2>1. \A b \in Octet : b \in Nat  BY OctetAssumption DEF Octet
  <2> HIDE DEF content
  <2>2. QED  BY <1>2, <2>1
<1>5. Sequence \in Octet /\ Sequence \in Nat  BY Signs DEF Sequence, Octet
<1>6. sequence_into_octets(fields) = <<Sequence>> \o length \o content  BY DEF sequence_into_octets
<1> HIDE DEF span, content, length
<1>7. <<Sequence>> \in Seq(Nat) /\ Len(<<Sequence>>) = 1 /\ <<Sequence>> \in Seq(Octet)  BY <1>5
<1>8. sequence_into_octets(fields) = <<Sequence>> \o (length \o content)
  <2>1. <<Sequence>> \in Seq(Nat) /\ length \in Seq(Nat) /\ content \in Seq(Nat)
    BY <1>3, <1>4, <1>7
  <2>2. <<Sequence>> \o length \o content = <<Sequence>> \o (length \o content)
    BY <2>1, ThreeParts
  <2>3. QED  BY <1>6, <2>2
<1>9. sequence_into_octets(fields) \in Seq(Nat)
      /\ Len(sequence_into_octets(fields)) = 1 + asn_length_span(span) + span
  <2>1. <<Sequence>> \o length \in Seq(Nat) /\ Len(<<Sequence>> \o length) = 1 + asn_length_span(span)
    BY <1>3, <1>7
  <2>2. QED  BY <1>2, <1>3, <1>4, <1>6, <2>1
<1>10. asn_span(span) = 1 + asn_length_span(span) + span  BY DEF asn_span
<1>11. ASSUME Len(ufixnum_octets[span]) < Sign PROVE sequence_into_octets(fields) \in Seq(Octet)
  <2>1. <<Sequence>> \o length \in Seq(Octet)  BY <1>3, <1>7, <1>11
  <2>2. QED  BY <1>2, <1>6, <2>1
<1>12. QED
  BY <1>2, <1>3, <1>4, <1>7, <1>8, <1>9, <1>10, <1>11 DEF span, content, length

\* The payload is found again where it is, and its end.
LEMMA PayloadUnbox ==
  ASSUME NEW octets, NEW offset \in Nat, NEW fields \in Seq(Fixnum),
         Occurs(octets, offset, sequence_into_octets(fields))
  PROVE  LET span == sequence_span(fields)
         IN  /\ asn_octets_unbox(octets, offset) = <<span, offset + asn_span(span)>>
             /\ asn_span(span) - span \in Nat
             /\ Occurs(octets, offset + (asn_span(span) - span), fields_octets(fields)[Len(fields)])
<1> DEFINE span == sequence_span(fields)
           content == fields_octets(fields)[Len(fields)]
           length == fill_length_octets(span)
<1>1. /\ span \in Nat /\ <<Sequence>> \in Seq(Nat) /\ length \in Seq(Nat) /\ content \in Seq(Nat)
      /\ sequence_into_octets(fields) = <<Sequence>> \o (length \o content)
      /\ asn_span(span) = 1 + asn_length_span(span) + span
  BY PayloadIs
<1>2. Len(length) = asn_length_span(span) /\ asn_length_span(span) \in Nat  BY <1>1, LengthOctets
<1> HIDE DEF span, content, length
<1>3. Len(<<Sequence>>) = 1 /\ length \o content \in Seq(Nat)  BY <1>1
<1>4. Occurs(octets, offset + 1, length \o content)
  <2>1. Occurs(octets, offset, <<Sequence>> \o (length \o content))  BY <1>1
  <2>2. Occurs(octets, offset + Len(<<Sequence>>), length \o content)
    BY <1>1, <1>3, <2>1, OccursConcat
  <2>3. QED  BY <1>3, <2>2
<1>5. Occurs(octets, offset + 1, length) /\ Occurs(octets, (offset + 1) + Len(length), content)
  <2>1. offset + 1 \in Nat  OBVIOUS
  <2>2. QED  BY <1>1, <1>4, <2>1, OccursConcat
<1>6. asn_octets_unbox(octets, offset) = <<span, offset + asn_span(span)>>
  BY <1>1, <1>5, UnboxReturns DEF length
<1>7. asn_span(span) - span = 1 + asn_length_span(span)  BY <1>1, <1>2
<1>8. offset + (asn_span(span) - span) = (offset + 1) + Len(length)  BY <1>2, <1>7
<1>9. QED  BY <1>2, <1>5, <1>6, <1>7, <1>8 DEF span, content

\* The octets of the first fields are found where those of all of them are.
LEMMA FieldsOccur ==
  ASSUME NEW fields \in Seq(Fixnum), NEW octets, NEW start \in Nat,
         Occurs(octets, start, fields_octets(fields)[Len(fields)])
  PROVE  \A i \in 0 .. Len(fields) : Occurs(octets, start, fields_octets(fields)[i])
<1> DEFINE n == Len(fields)
           o == fields_octets(fields)
           Found == {i \in 0 .. n : Occurs(octets, start, o[i])}
           f == [i \in 0 .. n |-> n - i]
<1>1. /\ n \in Nat /\ o \in [0 .. n -> Seq(Octet)]
      /\ \A i \in 1 .. n : /\ o[i] = o[i - 1] \o asn_fixnum_to_octets(fields[i])
  BY FieldsSpan, FieldsOctets
<1>2. ASSUME NEW i \in 1 .. n PROVE asn_fixnum_to_octets(fields[i]) \in Seq(Octet)
  <2>1. fields[i] \in Fixnum  OBVIOUS
  <2>2. QED  BY <2>1, FixnumBox
<1> HIDE DEF n, o
<1>3. f[0] \in Found
  <2>1. Occurs(octets, start, o[n])  BY DEF n, o
  <2>2. QED  BY <1>1, <2>1
<1>4. ASSUME NEW i \in 1 .. n, f[i - 1] \in Found PROVE f[i] \in Found
  <2> DEFINE j == n - (i - 1)
             box == asn_fixnum_to_octets(fields[j])
  <2>1. j \in 1 .. n /\ j \in 0 .. n /\ j - 1 \in 0 .. n /\ f[i] = j - 1 /\ f[i - 1] = j
    BY <1>1
  <2>2. Occurs(octets, start, o[j])  BY <1>4, <2>1
  <2>3. o[j] = o[j - 1] \o box /\ o[j - 1] \in Seq(Octet) /\ box \in Seq(Octet)
    BY <1>1, <1>2, <2>1
  <2> HIDE DEF j, box
  <2>4. Occurs(octets, start, o[j - 1] \o box)  BY <2>2, <2>3
  <2>5. Occurs(octets, start, o[j - 1])  BY <2>3, <2>4, OccursConcat
  <2>6. QED  BY <2>1, <2>5
<1>5. \A i \in 0 .. n : f[i] \in Found
  <2> HIDE DEF f, Found
  <2>1. QED  BY <1>1, <1>3, <1>4, LoopKeeps
<1>6. ASSUME NEW i \in 0 .. n PROVE Occurs(octets, start, o[i])
  <2>1. n - i \in 0 .. n /\ f[n - i] = i  BY <1>1
  <2>2. QED  BY <1>5, <2>1
<1>7. QED  BY <1>6 DEF n, o

\* Each field is found behind those before it.
LEMMA FieldReturns ==
  ASSUME NEW fields \in Seq(Fixnum), NEW octets, NEW start \in Nat,
         Occurs(octets, start, fields_octets(fields)[Len(fields)]),
         NEW i \in 1 .. Len(fields)
  PROVE  asn_octets_to_fixnum(octets, start + fields_span(fields)[i - 1])
           = <<Returned(fields[i]), start + fields_span(fields)[i]>>
<1> DEFINE n == Len(fields)
           o == fields_octets(fields)
           s == fields_span(fields)
           box == asn_fixnum_to_octets(fields[i])
           size == asn_span(asn_fixnum_span(fields[i]))
           offset == start + s[i - 1]
<1>1. i \in 0 .. n /\ i - 1 \in 0 .. n  BY FieldsSpan
<1>2. fields[i] \in Fixnum  OBVIOUS
<1>3. o[i] = o[i - 1] \o box /\ o[i - 1] \in Seq(Octet)  BY <1>1, FieldsOctets
<1>4. s[i] = s[i - 1] + size /\ s[i - 1] \in Nat  BY <1>1, FieldsSpan
<1>5. Len(o[i - 1]) = s[i - 1]  BY <1>1, FieldsSpanIsLength
<1>6. Occurs(octets, start, o[i])  BY <1>1, FieldsOccur
<1>7. box \in Seq(Octet) /\ size \in Nat  BY <1>2, FixnumBox
<1> HIDE DEF n, o, s, box, size
<1>8. Occurs(octets, start, o[i - 1] \o box)  BY <1>3, <1>6
<1>9. Occurs(octets, start + Len(o[i - 1]), box)  BY <1>3, <1>7, <1>8, OccursConcat
<1>10. offset \in Nat /\ Occurs(octets, offset, box)  BY <1>4, <1>5, <1>9
<1>11. asn_octets_to_fixnum(octets, offset) = <<Returned(fields[i]), offset + size>>
  <2> HIDE DEF offset
  <2>1. QED  BY <1>2, <1>10, FixnumUnbox DEF box, size
<1>12. offset + size = start + s[i]  BY <1>4, <1>7
<1>13. QED  BY <1>11, <1>12 DEF s

\* One more element of a sequence.
LEMMA SubSeqAppend ==
  ASSUME NEW S, NEW s \in Seq(S), NEW i \in 1 .. Len(s)
  PROVE  SubSeq(s, 1, i) = Append(SubSeq(s, 1, i - 1), s[i])
<1>1. Len(s) \in Nat /\ i - 1 \in Nat  OBVIOUS
<1>2. \A j \in 1 .. Len(s) : s[j] \in S  OBVIOUS
<1>3. SubSeq(s, 1, i - 1) \in Seq(S) /\ Len(SubSeq(s, 1, i - 1)) = i - 1
      /\ \A j \in 1 .. i - 1 : SubSeq(s, 1, i - 1)[j] = s[j]
  OBVIOUS
<1>4. SubSeq(s, 1, i) \in Seq(S) /\ Len(SubSeq(s, 1, i)) = i
      /\ \A j \in 1 .. i : SubSeq(s, 1, i)[j] = s[j]
  OBVIOUS
<1> DEFINE t == Append(SubSeq(s, 1, i - 1), s[i])
<1>5. t \in Seq(S) /\ Len(t) = i /\ \A j \in 1 .. i : t[j] = s[j]
  BY <1>1, <1>2, <1>3
<1> HIDE DEF t
<1>6. SubSeq(s, 1, i) = t
  <2>1. \A j \in 1 .. Len(t) : SubSeq(s, 1, i)[j] = t[j]  BY <1>4, <1>5
  <2>2. QED  BY <1>4, <1>5, <2>1, SeqEqual
<1>7. QED  BY <1>6 DEF t

\* What the fields of a sequence return as.
AllReturned(fields) == [i \in 1 .. Len(fields) |-> Returned(fields[i])]

\* The fields of a sequence return from wherever its octets are found, and its end.
LEMMA FieldsReturnFrom ==
  ASSUME NEW fields \in Seq(Fixnum),
         NEW octets, NEW offset \in Nat, Occurs(octets, offset, sequence_into_octets(fields))
  PROVE  sequence_from_octets(octets, offset, Len(fields))
           = <<AllReturned(fields), offset + asn_span(sequence_span(fields))>>
<1> DEFINE n == Len(fields)
           r == AllReturned(fields)
           s == fields_span(fields)
           start == offset + (asn_span(s[n]) - s[n])
           unboxed == asn_octets_unbox(octets, offset)
           next(p) == LET field == asn_octets_to_fixnum(octets, p[2])
                      IN  <<Append(p[1], field[1]), field[2]>>
           F(h, i) == IF i = 0 THEN <<<<>>, unboxed[2] - unboxed[1]>> ELSE next(h[i - 1])
           g == [i \in 0 .. n |-> <<SubSeq(r, 1, i), start + s[i]>>]
           h == fields_from(octets, offset, n)
<1>1. /\ n \in Nat /\ s \in [0 .. n -> Nat] /\ s[0] = 0 /\ sequence_span(fields) = s[n]
  BY FieldsSpan DEF sequence_span
<1>2. /\ unboxed = <<s[n], offset + asn_span(s[n])>>
      /\ asn_span(s[n]) - s[n] \in Nat
      /\ Occurs(octets, start, fields_octets(fields)[n])
  BY <1>1, PayloadUnbox
<1>3. asn_span(s[n]) \in Nat
  <2>1. s[n] \in Nat  BY <1>1
  <2>2. asn_length_span(s[n]) \in Nat  BY <2>1, LengthOctets
  <2>3. QED  BY <2>1, <2>2 DEF asn_span
<1>4. start \in Nat /\ unboxed[2] - unboxed[1] = start /\ start + s[n] = offset + asn_span(s[n])
  <2> DEFINE total == s[n]
             span == asn_span(total)
  <2>1. total \in Nat /\ span \in Nat /\ span - total \in Nat  BY <1>1, <1>2, <1>3
  <2>2. unboxed[1] = total /\ unboxed[2] = offset + span  BY <1>2
  <2> HIDE DEF total, span, unboxed, s
  <2>3. offset + (span - total) \in Nat /\ unboxed[2] - unboxed[1] = offset + (span - total)
        /\ (offset + (span - total)) + total = offset + span
    BY <2>1, <2>2
  <2>4. QED  BY <2>3 DEF total, span
<1>5. ASSUME NEW i \in 1 .. n
      PROVE  asn_octets_to_fixnum(octets, start + s[i - 1]) = <<r[i], start + s[i]>>
  <2>1. r[i] = Returned(fields[i])  BY DEF AllReturned
  <2> HIDE DEF start
  <2>2. QED  BY <1>2, <1>4, <2>1, FieldReturns
<1>0. r \in Seq(Int) /\ Len(r) = n
  <2>1. \A i \in 1 .. n : fields[i] \in Int  BY DEF Fixnum
  <2>2. \A i \in 1 .. n : Returned(fields[i]) \in Int  BY <2>1, ReturnedIsInt
  <2>3. QED  BY <1>1, <2>2 DEF AllReturned
<1> HIDE DEF s, start, unboxed, r
<1>6. g[0] = <<<<>>, unboxed[2] - unboxed[1]>>
  <2>1. SubSeq(r, 1, 0) = <<>>  BY <1>0
  <2>2. start + s[0] = start /\ 0 \in 0 .. n  BY <1>1, <1>4
  <2>3. QED  BY <1>4, <2>1, <2>2
<1>7. ASSUME NEW i \in 1 .. n PROVE g[i] = next(g[i - 1])
  <2>1. i \in 0 .. n /\ i - 1 \in 0 .. n  BY <1>1
  <2>2. g[i - 1] = <<SubSeq(r, 1, i - 1), start + s[i - 1]>>
        /\ g[i] = <<SubSeq(r, 1, i), start + s[i]>>
    BY <2>1
  <2>3. next(g[i - 1]) = <<Append(SubSeq(r, 1, i - 1), r[i]), start + s[i]>>
    BY <1>5, <2>2
  <2>4. SubSeq(r, 1, i) = Append(SubSeq(r, 1, i - 1), r[i])  BY <1>0, SubSeqAppend
  <2>5. QED  BY <2>2, <2>3, <2>4
<1> HIDE DEF next
<1>8. g = [i \in 0 .. n |-> F(g, i)]
  <2>1. ASSUME NEW i \in 0 .. n PROVE g[i] = F(g, i)
    <3>1. CASE i = 0  BY <1>6, <3>1
    <3>2. CASE i # 0
      <4>1. i \in 1 .. n  BY <1>1, <3>2
      <4> HIDE DEF g
      <4>2. QED  BY <1>7, <3>2, <4>1
    <3>3. QED  BY <3>1, <3>2
  <2> DEFINE Fg == [i \in 0 .. n |-> F(g, i)]
  <2>2. \A i \in 0 .. n : Fg[i] = g[i]  BY <2>1
  <2> HIDE DEF F
  <2>3. QED  BY <2>1
<1>9. h = [i \in 0 .. n |-> F(h, i)]
  <2> HIDE DEF g
  <2>1. QED  BY <1>8 DEF fields_from, unboxed, next
<1>10. \A i \in 0 .. n : h[i] = g[i]
  <2> DEFINE Same == {i \in 0 .. n : h[i] = g[i]}
             f == [i \in 0 .. n |-> i]
  <2> HIDE DEF g, h
  <2>1. f[0] \in Same
    <3>1. 0 \in 0 .. n  BY <1>1
    <3>2. h[0] = F(h, 0)  BY <1>9, <3>1
    <3>3. QED  BY <1>6, <3>1, <3>2
  <2>2. ASSUME NEW i \in 1 .. n, f[i - 1] \in Same PROVE f[i] \in Same
    <3>1. i \in 0 .. n /\ i - 1 \in 0 .. n /\ i # 0  BY <1>1
    <3>2. h[i] = F(h, i)  BY <1>9, <3>1
    <3>3. h[i - 1] = g[i - 1]  BY <2>2, <3>1
    <3>4. h[i] = g[i]  BY <1>7, <3>1, <3>2, <3>3
    <3>5. QED  BY <3>1, <3>4
  <2>3. \A i \in 0 .. n : f[i] \in Same
    <3> HIDE DEF f, Same
    <3>1. QED  BY <1>1, <2>1, <2>2, LoopKeeps
  <2>4. QED  BY <2>3
<1>11. n \in 0 .. n /\ SubSeq(r, 1, n) = r
  <2>1. r = SubSeq(r, 1, Len(r))  BY <1>0
  <2>2. QED  BY <1>0, <1>1, <2>1
<1>12. h[n] = <<r, start + s[n]>>  BY <1>10, <1>11
<1>13. QED  BY <1>1, <1>4, <1>12 DEF sequence_from_octets, r

(***************************************************************************)
(* Part 4.  The checksum is arithmetic modulo Whole.                       *)
(***************************************************************************)
Whole == Base * Base - 1

Shorts == Short \X Short
Small == {HL \in Shorts : HL[1] < Base /\ HL[2] < Base}
Carried(HL) == <<(HL[1] % Base) + (HL[2] \div Base), (HL[2] % Base) + (HL[1] \div Base)>>
Value(HL) == HL[1] * Base + HL[2]

\* An unsigned short is two octets.
LEMMA ShortDivMod ==
  ASSUME NEW n \in Short
  PROVE  /\ n \in Nat /\ n \div Base \in Octet /\ n % Base \in Octet
         /\ n = ((n \div Base) * Base) + (n % Base)
<1>1. n \in Nat /\ n < Base * Base  BY OctetAssumption DEF Short
<1>2. n \div Base \in Nat /\ n % Base \in Octet /\ n % Base \in Nat
      /\ n = ((n \div Base) * Base) + (n % Base)
  BY <1>1, DivMod
<1>3. n \div Base < Base
  <2> DEFINE q == n \div Base
             r == n % Base
  <2>1. q \in Nat /\ r \in Nat /\ q * Base + r < Base * Base  BY <1>1, <1>2
  <2> HIDE DEF q, r
  <2>2. SUFFICES ASSUME q >= Base PROVE FALSE  BY <2>1, OctetAssumption DEF q
  <2>3. PICK k \in Nat : q = Base + k  BY <2>1, <2>2, OctetAssumption
  <2>4. q * Base = Base * Base + k * Base  BY <2>3, OctetAssumption
  <2>5. k * Base \in Nat /\ Base * Base \in Nat  BY <2>3, OctetAssumption
  <2>6. QED  BY <2>1, <2>4, <2>5
<1>4. QED  BY <1>1, <1>2, <1>3, OctetAssumption DEF Octet

\* A word is a short.
LEMMA WordIsShort ==
  ASSUME NEW h \in Octet, NEW l \in Octet
  PROVE  /\ h * Base + l \in Short
         /\ (h * Base + l) \div Base = h /\ (h * Base + l) % Base = l
         /\ h * Base + l <= Whole
<1>1. h \in Nat /\ l \in Nat /\ l < Base /\ h <= Base - 1 /\ Base \in Nat /\ Base > 0
  BY OctetAssumption DEF Octet
<1>2. PICK k \in Nat : h + k = Base - 1  BY <1>1
<1>3. h * Base + k * Base = Base * Base - Base /\ k * Base \in Nat /\ h * Base \in Nat
  BY <1>1, <1>2
<1>4. h * Base + l \in Short /\ h * Base + l <= Whole
  BY <1>1, <1>3 DEF Short, Whole
<1>5. (h * Base + l) \div Base = h /\ (h * Base + l) % Base = l  BY <1>1
<1>6. QED  BY <1>4, <1>5

\* Adding the carries once makes the sum smaller, and keeps its value but for multiples of
\* Whole.
LEMMA CarriedOnce ==
  ASSUME NEW HL \in Shorts \ Small
  PROVE  /\ Carried(HL) \in Shorts
         /\ Carried(HL)[1] + Carried(HL)[2] < HL[1] + HL[2]
         /\ \E k \in Nat : Value(Carried(HL)) = Value(HL) - k * Whole
         /\ Value(HL) > 0 => Value(Carried(HL)) > 0
<1>1. PICK H \in Short, L \in Short : HL = <<H, L>>  BY DEF Shorts
<1> DEFINE h1 == H \div Base
           h0 == H % Base
           l1 == L \div Base
           l0 == L % Base
<1>2. /\ h1 \in Octet /\ h0 \in Octet /\ H = h1 * Base + h0 /\ H \in Nat
      /\ l1 \in Octet /\ l0 \in Octet /\ L = l1 * Base + l0 /\ L \in Nat
  BY ShortDivMod
<1>3. HL[1] = H /\ HL[2] = L /\ Carried(HL) = <<h0 + l1, l0 + h1>>  BY <1>1 DEF Carried
<1>4. H >= Base \/ L >= Base  BY <1>1, <1>2, OctetAssumption DEF Small, Shorts
<1> HIDE DEF h1, h0, l1, l0
<1>5. \A o \in Octet : o \in Nat /\ o < Base  BY OctetAssumption DEF Octet
<1>6. h1 >= 1 \/ l1 >= 1
  <2>1. h1 = 0 => H < Base  BY <1>2, <1>5, OctetAssumption
  <2>2. l1 = 0 => L < Base  BY <1>2, <1>5, OctetAssumption
  <2>3. h1 \in Nat /\ l1 \in Nat /\ H \in Nat /\ L \in Nat  BY <1>2, <1>5
  <2>4. QED  BY <1>4, <2>1, <2>2, <2>3, OctetAssumption
<1>7. Carried(HL) \in Shorts
  <2>1. \A a, b \in Octet : a + b \in Short
    <3> SUFFICES ASSUME NEW a \in Octet, NEW b \in Octet PROVE a + b \in Short  OBVIOUS
    <3>1. a + b \in Nat /\ a + b <= 2 * Base - 2  BY <1>5, OctetAssumption
    <3>2. 2 * Base - 2 <= Base * Base - 1
      <4>1. PICK k \in Nat : Base = k + 2  BY OctetAssumption
      <4>2. Base * Base = 2 * Base + k * Base /\ k * Base \in Nat  BY <4>1
      <4>3. QED  BY <4>2, OctetAssumption
    <3>3. Base * Base \in Nat  BY OctetAssumption
    <3>4. QED  BY <3>1, <3>2, <3>3, OctetAssumption DEF Short
  <2>2. h0 + l1 \in Short /\ l0 + h1 \in Short  BY <1>2, <2>1
  <2>3. QED  BY <1>3, <2>2 DEF Shorts
<1>8. Carried(HL)[1] + Carried(HL)[2] < HL[1] + HL[2]
  <2>1. h1 * Base >= h1 /\ l1 * Base >= l1 /\ (h1 >= 1 => h1 * Base > h1) /\ (l1 >= 1 => l1 * Base > l1)
    <3>1. PICK k \in Nat : Base = k + 2  BY OctetAssumption
    <3>2. \A a \in Nat : a * Base = a + a + a * k /\ a * k \in Nat  BY <3>1
    <3>3. h1 \in Nat /\ l1 \in Nat  BY <1>2, <1>5
    <3>4. h1 * Base = h1 + h1 + h1 * k /\ h1 * k \in Nat /\ l1 * Base = l1 + l1 + l1 * k /\ l1 * k \in Nat
      BY <3>2, <3>3
    <3>5. QED  BY <3>3, <3>4
  <2>2. /\ h1 \in Nat /\ l1 \in Nat /\ h0 \in Nat /\ l0 \in Nat
        /\ h1 * Base \in Nat /\ l1 * Base \in Nat
    BY <1>2, <1>5, OctetAssumption
  <2>3. Carried(HL)[1] + Carried(HL)[2] = (h0 + l1) + (l0 + h1)  BY <1>3
  <2>4. HL[1] + HL[2] = (h1 * Base + h0) + (l1 * Base + l0)  BY <1>2, <1>3
  <2>5. QED  BY <1>6, <2>1, <2>2, <2>3, <2>4
<1>9. Value(Carried(HL)) = Value(HL) - h1 * Whole
  <2>1. /\ h1 \in Nat /\ l1 \in Nat /\ h0 \in Nat /\ l0 \in Nat /\ Base \in Nat
    BY <1>2, <1>5, OctetAssumption
  <2>2. Value(Carried(HL)) = (h0 + l1) * Base + (l0 + h1)  BY <1>3 DEF Value
  <2>3. Value(HL) = (h1 * Base + h0) * Base + (l1 * Base + l0)  BY <1>2, <1>3 DEF Value
  <2>4. h1 * Whole = h1 * (Base * Base) - h1  BY <2>1 DEF Whole
  <2>5. (h1 * Base + h0) * Base = h1 * (Base * Base) + h0 * Base  BY <2>1
  <2>6. (h0 + l1) * Base = h0 * Base + l1 * Base  BY <2>1
  <2>7. QED  BY <2>1, <2>2, <2>3, <2>4, <2>5, <2>6
<1>10. Value(Carried(HL)) > 0
  <2>1. /\ h1 \in Nat /\ l1 \in Nat /\ h0 \in Nat /\ l0 \in Nat /\ Base \in Nat /\ Base >= 4
    BY <1>2, <1>5, OctetAssumption
  <2>2. Value(Carried(HL)) = h0 * Base + l1 * Base + (l0 + h1)  BY <1>3, <2>1 DEF Value
  <2>3. h0 * Base \in Nat /\ l1 * Base \in Nat  BY <2>1
  <2>4. l1 >= 1 => l1 * Base >= Base
    <3> SUFFICES ASSUME l1 >= 1 PROVE l1 * Base >= Base  OBVIOUS
    <3>1. PICK k \in Nat : l1 = k + 1  BY <2>1
    <3>2. l1 * Base = k * Base + Base /\ k * Base \in Nat  BY <2>1, <3>1
    <3>3. QED  BY <2>1, <3>2
  <2>5. QED  BY <1>6, <2>1, <2>2, <2>3, <2>4
<1>11. h1 \in Nat  BY <1>2, <1>5
<1>12. QED  BY <1>7, <1>8, <1>9, <1>10, <1>11

\* The carries are a recursion on the sum of the two.
LEMMA CarryIsRecursive ==
  Recursive(Shorts, Shorts, [HL \in Shorts |-> HL[1] + HL[2]], Small, [HL \in Small |-> HL],
            [HL \in Shorts \ Small |-> Carried(HL)], [HL \in Shorts \ Small |-> [r \in Shorts |-> r]])
<1>1. [HL \in Shorts |-> HL[1] + HL[2]] \in [Shorts -> Nat]
  <2>1. \A HL \in Shorts : HL[1] \in Nat /\ HL[2] \in Nat  BY ShortDivMod DEF Shorts
  <2>2. QED  BY <2>1
<1>2. Small \in SUBSET Shorts /\ [HL \in Small |-> HL] \in [Small -> Shorts]  BY DEF Small
<1>3. [HL \in Shorts \ Small |-> Carried(HL)] \in [Shorts \ Small -> Shorts]  BY CarriedOnce
<1>4. [HL \in Shorts \ Small |-> [r \in Shorts |-> r]] \in [Shorts \ Small -> [Shorts -> Shorts]]
  OBVIOUS
<1>5. ASSUME NEW HL \in Shorts \ Small
      PROVE  [x \in Shorts |-> x[1] + x[2]][[x \in Shorts \ Small |-> Carried(x)][HL]]
               < [x \in Shorts |-> x[1] + x[2]][HL]
  <2>1. Carried(HL) \in Shorts /\ Carried(HL)[1] + Carried(HL)[2] < HL[1] + HL[2]  BY CarriedOnce
  <2> HIDE DEF Carried
  <2>2. QED  BY <2>1
<1>6. QED  BY <1>1, <1>2, <1>3, <1>4, <1>5 DEF Recursive

\* carry is the function that its definition describes.
LEMMA CarryComputes ==
  \A x \in Shorts : carry[x] = IF x \in Small THEN x ELSE carry[Carried(x)]
<1> DEFINE size == [x \in Shorts |-> x[1] + x[2]]
           start == [x \in Small |-> x]
           next == [x \in Shorts \ Small |-> Carried(x)]
           step == [x \in Shorts \ Small |-> [r \in Shorts |-> r]]
           F(g, x) == IF x[1] < Base /\ x[2] < Base THEN x ELSE g[Carried(x)]
<1>1. Recursive(Shorts, Shorts, size, Small, start, next, step)  BY CarryIsRecursive
<1>2. PICK f \in [Shorts -> Shorts] : Computes(f, Shorts, Small, start, next, step)
  <2> HIDE DEF size, start, next, step
  <2>1. QED  BY <1>1, Recursion
<1>3. ASSUME NEW x \in Shorts PROVE f[x] = F(f, x)
  <2>1. CASE x \in Small
    <3>1. f[x] = start[x]
      <4> HIDE DEF start, next, step
      <4>1. QED  BY <1>2, <2>1 DEF Computes
    <3>2. QED  BY <2>1, <3>1 DEF Small
  <2>2. CASE x \notin Small
    <3>1. f[x] = step[x][f[next[x]]]
      <4> HIDE DEF start, next, step
      <4>1. QED  BY <1>2, <2>2 DEF Computes
    <3>2. Carried(x) \in Shorts  BY <2>2, CarriedOnce
    <3> HIDE DEF Carried
    <3>3. next[x] = Carried(x)  BY <2>2
    <3>4. f[next[x]] \in Shorts  BY <3>2, <3>3
    <3>5. step[x][f[next[x]]] = f[next[x]]
      <4> HIDE DEF next
      <4>1. QED  BY <2>2, <3>4
    <3>6. QED  BY <2>2, <3>1, <3>3, <3>5 DEF Small
  <2>3. QED  BY <2>1, <2>2
<1>4. f = [x \in Shorts |-> F(f, x)]
  <2> HIDE DEF F
  <2>1. QED  BY <1>3
<1>5. carry = [x \in Shorts |-> F(carry, x)]
  BY <1>4 DEF carry, Shorts, Carried
<1>6. QED
  <2> HIDE DEF Carried
  <2>1. \A x \in Shorts : carry[x] = F(carry, x)  BY <1>5
  <2>2. QED  BY <2>1 DEF Small

\* Without carries there is nothing to add.
LEMMA CarryOfSmall == \A x \in Small : carry[x] = x
  BY CarryComputes DEF Small

\* When all carries have been added there are two octets, of a value that is equal to that of
\* the accumulators as a checksum.
LEMMA Carry ==
  ASSUME NEW HL \in Shorts, Value(HL) > 0
  PROVE  /\ carry[HL] \in Small /\ Value(carry[HL]) > 0
         /\ \E k \in Nat : Value(carry[HL]) = Value(HL) - k * Whole
<1> DEFINE size == [x \in Shorts |-> x[1] + x[2]]
           Good(x) == Value(x) > 0 =>
                        /\ carry[x] \in Small /\ Value(carry[x]) > 0
                        /\ \E k \in Nat : Value(carry[x]) = Value(x) - k * Whole
           Goods == {x \in Shorts : Good(x)}
<1>1. ASSUME NEW x \in Shorts, \A y \in Shorts : size[y] < size[x] => y \in Goods PROVE x \in Goods
  <2>0. \A y \in Shorts : y[1] \in Nat /\ y[2] \in Nat /\ Value(y) \in Nat
    <3>1. \A y \in Shorts : y[1] \in Nat /\ y[2] \in Nat  BY ShortDivMod DEF Shorts
    <3>2. \A a, b \in Nat : a * Base + b \in Nat  BY OctetAssumption
    <3>3. QED  BY <3>1, <3>2 DEF Value
  <2>0a. Whole \in Int  BY OctetAssumption DEF Whole
  <2>1. CASE x \in Small
    <3>1. carry[x] = x  BY CarryComputes, <2>1
    <3>2. Value(x) = Value(x) - 0 * Whole  BY <2>0, <2>0a
    <3>3. QED  BY <2>1, <3>1, <3>2
  <2>2. CASE x \notin Small
    <3>1. carry[x] = carry[Carried(x)]  BY CarryComputes, <2>2
    <3>2. /\ Carried(x) \in Shorts /\ size[Carried(x)] < size[x]
          /\ \E k \in Nat : Value(Carried(x)) = Value(x) - k * Whole
          /\ Value(x) > 0 => Value(Carried(x)) > 0
      <4>1. x \in Shorts \ Small  BY <2>2
      <4>2. QED  BY <4>1, CarriedOnce
    <3> DEFINE y == Carried(x)
    <3>3. Good(y)
      <4> HIDE DEF size, Good, y
      <4>1. QED  BY <1>1, <3>2 DEF y
    <3> HIDE DEF y
    <3>4. SUFFICES ASSUME Value(x) > 0 PROVE Good(x)  OBVIOUS
    <3>5. PICK i \in Nat : Value(y) = Value(x) - i * Whole  BY <3>2 DEF y
    <3>6. PICK j \in Nat : Value(carry[y]) = Value(y) - j * Whole  BY <3>2, <3>3, <3>4 DEF y
    <3>7. carry[x] = carry[y] /\ carry[y] \in Small /\ Value(carry[y]) > 0
      BY <3>1, <3>2, <3>3, <3>4 DEF y
    <3>8. Value(carry[x]) = Value(x) - (i + j) * Whole
      <4>1. (i + j) * Whole = i * Whole + j * Whole /\ i * Whole \in Int /\ j * Whole \in Int
        BY <2>0a
      <4>2. Value(x) \in Int  BY <2>0
      <4>3. QED  BY <3>5, <3>6, <3>7, <4>1, <4>2
    <3>9. i + j \in Nat  OBVIOUS
    <3>10. QED  BY <3>7, <3>8, <3>9
  <2>3. QED  BY <2>1, <2>2
<1>2. Shorts \subseteq Goods
  <2>1. size \in [Shorts -> Nat]  BY CarryIsRecursive DEF Recursive
  <2> HIDE DEF size, Goods
  <2>2. QED  BY <1>1, <2>1, Induction
<1>3. QED  BY <1>2

Parity == {0, 1}

\* What the byte at an index adds.
Addend(message, parity, i) == IF i % 2 = parity THEN message[i] ELSE 0

\* What is added is an octet at most.
LEMMA AddendIsNat ==
  ASSUME NEW message \in Seq(Octet), NEW parity, NEW i \in 1 .. Len(message)
  PROVE  /\ Addend(message, parity, i) \in Nat /\ Addend(message, parity, i) <= Base - 1
         /\ message[i] \in Octet
<1>1. message[i] \in Octet  OBVIOUS
<1>2. QED  BY <1>1, OctetAssumption DEF Addend, Octet

\* every_second is the function that its definition describes.
LEMMA EverySecond ==
  ASSUME NEW message \in Seq(Octet), NEW parity, NEW n \in Nat
  PROVE  /\ Len(message) \in Nat
         /\ every_second(message, parity, n) \in [0 .. Len(message) -> Nat]
         /\ every_second(message, parity, n)[0] = n
         /\ \A i \in 1 .. Len(message) :
              every_second(message, parity, n)[i]
                = every_second(message, parity, n)[i - 1] + Addend(message, parity, i)
<1> DEFINE k == Len(message)
           a(i) == Addend(message, parity, i)
           g == every_second(message, parity, n)
           step == [i \in 1 .. k |-> [v \in Nat |-> v + a(i)]]
           F(h, i) == IF i = 0 THEN n ELSE h[i - 1] + a(i)
<1>1. k \in Nat  OBVIOUS
<1>2. ASSUME NEW i \in 1 .. k PROVE a(i) \in Nat  BY AddendIsNat
<1> HIDE DEF k, a
<1>3. step \in [1 .. k -> [Nat -> Nat]]  BY <1>2
<1>4. PICK f \in [0 .. k -> Nat] : Loops(f, k, n, step)
  <2> HIDE DEF step
  <2>1. QED  BY <1>1, <1>3, Loop
<1>5. ASSUME NEW i \in 0 .. k PROVE f[i] = F(f, i)
  <2>1. CASE i = 0  BY <1>4, <2>1 DEF Loops
  <2>2. CASE i # 0
    <3>1. i \in 1 .. k /\ i - 1 \in 0 .. k  BY <1>1, <2>2
    <3>2. f[i] = step[i][f[i - 1]] /\ f[i - 1] \in Nat
      <4> HIDE DEF step
      <4>1. QED  BY <1>4, <3>1 DEF Loops
    <3>3. QED  BY <2>2, <3>1, <3>2
  <2>3. QED  BY <2>1, <2>2
<1>6. f = [i \in 0 .. k |-> F(f, i)]  BY <1>5
<1>7. g = [i \in 0 .. k |-> F(g, i)]  BY <1>6 DEF every_second, k, a, Addend
<1> HIDE DEF g
<1>8. g[0] = n /\ \A i \in 1 .. k : g[i] = g[i - 1] + a(i)
  <2>1. \A i \in 0 .. k : g[i] = F(g, i)  BY <1>7
  <2>2. 0 \in 0 .. k /\ \A i \in 1 .. k : i \in 0 .. k /\ i # 0  BY <1>1
  <2>3. QED  BY <2>1, <2>2
<1>9. \A i \in 0 .. k : g[i] \in Nat
  <2>1. ASSUME NEW i \in 1 .. k, g[i - 1] \in Nat PROVE g[i] \in Nat
    <3>1. a(i) \in Nat  BY <1>2
    <3>2. g[i] = g[i - 1] + a(i)  BY <1>8
    <3>3. QED  BY <2>1, <3>1, <3>2
  <2>2. g[0] \in Nat  BY <1>8
  <2>3. QED  BY <1>1, <2>1, <2>2, LoopKeeps
<1>10. g \in [0 .. k -> Nat]  BY <1>7, <1>9
<1>11. QED  BY <1>1, <1>8, <1>10 DEF g, k, a

\* Two sums that differ by the same before each byte.
Follows(f, g, n) == f[0] = g[0] /\ \A i \in 1 .. n : f[i - 1] = g[i - 1] => f[i] = g[i]

\* Sums that take the same steps are the same.
LEMMA SameSums ==
  ASSUME NEW n \in Nat, NEW f, NEW g, Follows(f, g, n)
  PROVE  \A i \in 0 .. n : f[i] = g[i]
<1> USE DEF Follows
<1> DEFINE Same == {i \in 0 .. n : f[i] = g[i]}
           h == [i \in 0 .. n |-> i]
<1>1. h[0] \in Same  OBVIOUS
<1>2. ASSUME NEW i \in 1 .. n, h[i - 1] \in Same PROVE h[i] \in Same
  <2>1. i \in 0 .. n /\ i - 1 \in 0 .. n /\ h[i - 1] = i - 1 /\ h[i] = i  OBVIOUS
  <2>2. f[i - 1] = g[i - 1]  BY <1>2, <2>1
  <2>3. QED  BY <2>1, <2>2
<1>3. \A i \in 0 .. n : h[i] \in Same
  <2> HIDE DEF h, Same
  <2>1. QED  BY <1>1, <1>2, LoopKeeps
<1>4. QED  BY <1>3

\* The bytes of a message whose index is odd, or even, in all.
Part(message, parity) == every_second(message, parity, 0)[Len(message)]

\* What is in the accumulator before is added to the sum of the bytes.
LEMMA PartOffset ==
  ASSUME NEW message \in Seq(Octet), NEW parity, NEW n \in Nat
  PROVE  /\ Part(message, parity) \in Nat
         /\ every_second(message, parity, n)[Len(message)] = n + Part(message, parity)
<1> DEFINE k == Len(message)
           f == every_second(message, parity, n)
           z == every_second(message, parity, 0)
           g == [i \in 0 .. k |-> n + z[i]]
           a(i) == Addend(message, parity, i)
<1>1. k \in Nat /\ f \in [0 .. k -> Nat] /\ f[0] = n /\ \A i \in 1 .. k : f[i] = f[i - 1] + a(i)
  BY EverySecond
<1>2. z \in [0 .. k -> Nat] /\ z[0] = 0 /\ \A i \in 1 .. k : z[i] = z[i - 1] + a(i)
  BY EverySecond
<1>3. \A i \in 1 .. k : a(i) \in Nat  BY AddendIsNat
<1> HIDE DEF k, f, z, a
<1>4. f[0] = g[0]  BY <1>1, <1>2
<1>5. ASSUME NEW i \in 1 .. k, f[i - 1] = g[i - 1] PROVE f[i] = g[i]
  <2>1. i \in 0 .. k /\ i - 1 \in 0 .. k  BY <1>1
  <2>2. z[i - 1] \in Nat /\ a(i) \in Nat /\ z[i] = z[i - 1] + a(i) /\ f[i] = f[i - 1] + a(i)
    BY <1>1, <1>2, <1>3, <2>1
  <2>3. QED  BY <1>5, <2>1, <2>2
<1>6. \A i \in 0 .. k : f[i] = g[i]
  <2> HIDE DEF g
  <2>1. Follows(f, g, k)  BY <1>4, <1>5 DEF Follows
  <2>2. QED  BY <1>1, <2>1, SameSums
<1>7. k \in 0 .. k  BY <1>1
<1>8. f[k] = n + z[k] /\ z[k] \in Nat  BY <1>2, <1>6, <1>7
<1>9. QED  BY <1>8 DEF k, f, z, Part

\* Base words at most fit the accumulators.
LEMMA PartBound ==
  ASSUME NEW message \in Seq(Octet), NEW parity \in Parity, Len(message) <= 2 * Base
  PROVE  Part(message, parity) <= Base * (Base - 1)
<1> DEFINE k == Len(message)
           z == every_second(message, parity, 0)
           a(i) == Addend(message, parity, i)
           w(i) == (i + parity) \div 2
           Bound == {i \in 0 .. k : z[i] <= w(i) * (Base - 1)}
           f == [i \in 0 .. k |-> i]
<1>1. k \in Nat /\ z \in [0 .. k -> Nat] /\ z[0] = 0 /\ \A i \in 1 .. k : z[i] = z[i - 1] + a(i)
  BY EverySecond
<1>2. \A i \in 1 .. k : a(i) \in Nat /\ a(i) <= Base - 1 /\ (i % 2 # parity => a(i) = 0)
  <2>1. \A i \in 1 .. k : i % 2 # parity => a(i) = 0  BY DEF Addend
  <2>2. \A i \in 1 .. k : a(i) \in Nat /\ a(i) <= Base - 1  BY AddendIsNat
  <2>3. QED  BY <2>1, <2>2
<1> HIDE DEF z, a
<1>3. \A i \in Nat : w(i) \in Nat  BY DEF Parity
<1>4. f[0] \in Bound
  <2>1. w(0) = 0  BY DEF Parity
  <2>2. z[0] <= w(0) * (Base - 1)  BY <1>1, <2>1, OctetAssumption
  <2>3. 0 \in 0 .. k  BY <1>1
  <2>4. QED  BY <2>2, <2>3
<1>5. ASSUME NEW i \in 1 .. k, f[i - 1] \in Bound PROVE f[i] \in Bound
  <2>1. i \in 0 .. k /\ i - 1 \in 0 .. k /\ i \in Nat /\ i - 1 \in Nat  BY <1>1
  <2>2. z[i - 1] <= w(i - 1) * (Base - 1) /\ z[i - 1] \in Nat  BY <1>1, <1>5, <2>1
  <2>3. z[i] = z[i - 1] + a(i) /\ a(i) \in Nat /\ a(i) <= Base - 1 /\ (i % 2 # parity => a(i) = 0)
    BY <1>1, <1>2
  <2>4. i % 2 = parity => w(i) = w(i - 1) + 1  BY <2>1 DEF Parity
  <2>5. i % 2 # parity => w(i) = w(i - 1)  BY <2>1 DEF Parity
  <2>6. w(i - 1) \in Nat /\ w(i) \in Nat  BY <1>3, <2>1
  <2> HIDE DEF w
  <2>7. (w(i - 1) + 1) * (Base - 1) = w(i - 1) * (Base - 1) + (Base - 1)
        /\ w(i - 1) * (Base - 1) \in Int
    BY <2>6, OctetAssumption
  <2>8. z[i] <= w(i) * (Base - 1)
    <3>1. CASE i % 2 = parity
      <4>1. w(i) * (Base - 1) = w(i - 1) * (Base - 1) + (Base - 1)  BY <2>4, <2>7, <3>1
      <4>2. QED  BY <2>2, <2>3, <2>7, <4>1, OctetAssumption
    <3>2. CASE i % 2 # parity  BY <2>2, <2>3, <2>5, <2>7, <3>2
    <3>3. QED  BY <3>1, <3>2
  <2>9. QED  BY <2>1, <2>8
<1>6. \A i \in 0 .. k : f[i] \in Bound
  <2> HIDE DEF f, Bound
  <2>1. QED  BY <1>1, <1>4, <1>5, LoopKeeps
<1>7. k \in 0 .. k  BY <1>1
<1>8. z[k] <= w(k) * (Base - 1)  BY <1>6, <1>7
<1>9. w(k) \in Nat /\ w(k) <= Base  BY <1>1, OctetAssumption DEF Parity
<1> HIDE DEF w
<1>10. w(k) * (Base - 1) <= Base * (Base - 1)
  <2>1. PICK d \in Nat : Base = w(k) + d
    <3>1. Base - w(k) \in Nat /\ Base = w(k) + (Base - w(k))  BY <1>9, OctetAssumption
    <3>2. QED  BY <3>1
  <2>2. Base * (Base - 1) = w(k) * (Base - 1) + d * (Base - 1)  BY <1>9, <2>1
  <2>3. d * (Base - 1) \in Nat /\ w(k) * (Base - 1) \in Int  BY <1>9, OctetAssumption
  <2>4. QED  BY <2>2, <2>3
<1>11. z[k] \in Nat /\ w(k) * (Base - 1) \in Int /\ Base * (Base - 1) \in Int
  BY <1>1, <1>7, <1>9, OctetAssumption
<1>12. z[k] <= Base * (Base - 1)  BY <1>8, <1>10, <1>11
<1>13. QED  BY <1>12 DEF z, Part

\* A message can be added in two calls, if the first adds an even number of bytes.
LEMMA PartConcat ==
  ASSUME NEW s \in Seq(Octet), NEW t \in Seq(Octet), Len(s) % 2 = 0, NEW parity
  PROVE  Part(s \o t, parity) = Part(s, parity) + Part(t, parity)
<1> DEFINE m == s \o t
           f == every_second(m, parity, 0)
           g == every_second(s, parity, 0)
           from == Part(s, parity)
           h == every_second(t, parity, from)
           later == [j \in 0 .. Len(t) |-> f[Len(s) + j]]
<1>1. /\ m \in Seq(Octet) /\ Len(m) = Len(s) + Len(t)
      /\ \A i \in 1 .. Len(m) : m[i] = IF i <= Len(s) THEN s[i] ELSE t[i - Len(s)]
  BY ConcatProperties
<1>2. Len(s) \in Nat /\ Len(t) \in Nat  OBVIOUS
<1> HIDE DEF m
<1>3. f \in [0 .. Len(m) -> Nat] /\ f[0] = 0
      /\ \A i \in 1 .. Len(m) : f[i] = f[i - 1] + Addend(m, parity, i)
  BY <1>1, EverySecond
<1>4. g[0] = 0 /\ \A i \in 1 .. Len(s) : g[i] = g[i - 1] + Addend(s, parity, i)
  BY EverySecond
<1>5. from \in Nat  BY PartOffset
<1>6. h[0] = from /\ \A i \in 1 .. Len(t) : h[i] = h[i - 1] + Addend(t, parity, i)
  <2> HIDE DEF from
  <2>1. QED  BY <1>5, EverySecond
<1> HIDE DEF f, g, h
<1>7. \A i \in 0 .. Len(s) : f[i] = g[i]
  <2>1. ASSUME NEW i \in 1 .. Len(s), f[i - 1] = g[i - 1] PROVE f[i] = g[i]
    <3>1. i \in 1 .. Len(m)  BY <1>1, <1>2
    <3>2. Addend(m, parity, i) = Addend(s, parity, i)  BY <1>1, <3>1 DEF Addend
    <3>3. QED  BY <1>3, <1>4, <2>1, <3>1, <3>2
  <2>2. Follows(f, g, Len(s))  BY <1>3, <1>4, <2>1 DEF Follows
  <2>3. QED  BY <1>2, <2>2, SameSums
<1>8. f[Len(s)] = from
  <2>1. Len(s) \in 0 .. Len(s)  BY <1>2
  <2>2. QED  BY <1>7, <2>1 DEF g, Part
<1> HIDE DEF from
<1>9. \A j \in 0 .. Len(t) : later[j] = h[j]
  <2>1. later[0] = h[0]
    <3>1. 0 \in 0 .. Len(t) /\ Len(s) + 0 = Len(s)  BY <1>2
    <3>2. QED  BY <1>6, <1>8, <3>1
  <2>2. ASSUME NEW j \in 1 .. Len(t), later[j - 1] = h[j - 1] PROVE later[j] = h[j]
    <3> DEFINE i == Len(s) + j
    <3>0. Len(m) = Len(s) + Len(t)  BY <1>1
    <3>1. i \in 1 .. Len(m) /\ j \in 0 .. Len(t) /\ j - 1 \in 0 .. Len(t)
          /\ i - 1 = Len(s) + (j - 1) /\ ~(i <= Len(s)) /\ i - Len(s) = j
      BY <1>2, <3>0
    <3>2. i % 2 = j % 2  BY <1>2
    <3> HIDE DEF i
    <3>3. Addend(m, parity, i) = Addend(t, parity, j)  BY <1>1, <3>1, <3>2 DEF Addend
    <3>4. f[i] = f[i - 1] + Addend(m, parity, i)  BY <1>3, <3>1
    <3>5. later[j] = f[i] /\ later[j - 1] = f[i - 1]  BY <3>1 DEF i
    <3>6. h[j] = h[j - 1] + Addend(t, parity, j)  BY <1>6
    <3> HIDE DEF later
    <3>7. QED  BY <2>2, <3>3, <3>4, <3>5, <3>6
  <2>3. Follows(later, h, Len(t))
    <3> HIDE DEF later
    <3>1. QED  BY <2>1, <2>2 DEF Follows
  <2> HIDE DEF later
  <2>4. QED  BY <1>2, <2>3, SameSums
<1>10. f[Len(m)] = h[Len(t)]
  <2>1. Len(t) \in 0 .. Len(t)  BY <1>2
  <2>2. later[Len(t)] = f[Len(m)]  BY <1>1, <2>1
  <2> HIDE DEF later
  <2>3. QED  BY <1>9, <2>1, <2>2
<1>11. h[Len(t)] = from + Part(t, parity)  BY <1>5, PartOffset DEF h
<1>12. QED  BY <1>10, <1>11 DEF f, m, from, Part

\* A byte that is changed changes one part, by as much.
LEMMA PartChange ==
  ASSUME NEW d \in Seq(Octet), NEW x \in 1 .. Len(d), NEW b \in Octet, NEW parity
  PROVE  /\ [d EXCEPT ![x] = b] \in Seq(Octet) /\ Len([d EXCEPT ![x] = b]) = Len(d)
         /\ Part([d EXCEPT ![x] = b], parity)
              = Part(d, parity) + IF x % 2 = parity THEN b - d[x] ELSE 0
<1> DEFINE e == [d EXCEPT ![x] = b]
           k == Len(d)
           f == every_second(e, parity, 0)
           g == every_second(d, parity, 0)
           more == IF x % 2 = parity THEN b - d[x] ELSE 0
           c == [i \in 0 .. k |-> g[i] + IF i >= x THEN more ELSE 0]
<1>1. e \in Seq(Octet) /\ Len(e) = k /\ k \in Nat /\ \A i \in 1 .. k : e[i] = IF i = x THEN b ELSE d[i]
  OBVIOUS
<1>2. d[x] \in Octet  OBVIOUS
<1>3. more \in Int  BY <1>2, OctetAssumption DEF Octet
<1> HIDE DEF e
<1>4. f \in [0 .. k -> Nat] /\ f[0] = 0 /\ \A i \in 1 .. k : f[i] = f[i - 1] + Addend(e, parity, i)
  <2>1. f \in [0 .. Len(e) -> Nat] /\ f[0] = 0
        /\ \A i \in 1 .. Len(e) : f[i] = f[i - 1] + Addend(e, parity, i)
    BY <1>1, EverySecond
  <2> HIDE DEF k, f
  <2>2. QED  BY <1>1, <2>1
<1>5. g \in [0 .. k -> Nat] /\ g[0] = 0 /\ \A i \in 1 .. k : g[i] = g[i - 1] + Addend(d, parity, i)
  BY EverySecond
<1>6. \A i \in 1 .. k : Addend(e, parity, i) = Addend(d, parity, i) + IF i = x THEN more ELSE 0
  <2> SUFFICES ASSUME NEW i \in 1 .. k
               PROVE  Addend(e, parity, i) = Addend(d, parity, i) + IF i = x THEN more ELSE 0
    OBVIOUS
  <2>1. Addend(d, parity, i) \in Nat /\ d[i] \in Octet  BY AddendIsNat
  <2>2. CASE i = x
    <3>1. e[i] = b  BY <1>1, <2>2
    <3>2. b \in Int /\ d[x] \in Int  BY <1>2, OctetAssumption DEF Octet
    <3> HIDE DEF e
    <3>3. CASE x % 2 = parity  BY <2>2, <3>1, <3>2, <3>3 DEF Addend
    <3>4. CASE x % 2 # parity  BY <2>2, <3>4 DEF Addend
    <3>5. QED  BY <3>3, <3>4
  <2>3. CASE i # x  BY <1>1, <2>1, <2>3 DEF Addend
  <2>4. QED  BY <2>2, <2>3
<1>7. \A i \in 1 .. k : Addend(d, parity, i) \in Nat  BY AddendIsNat
<1>8. x \in 1 .. k  OBVIOUS
<1> HIDE DEF f, g, more, k
<1>9. c[0] = 0
  <2>1. 0 \in 0 .. k /\ ~(0 >= x) /\ g[0] = 0  BY <1>1, <1>5, <1>8
  <2>2. QED  BY <2>1
<1>10. ASSUME NEW i \in 1 .. k, f[i - 1] = c[i - 1] PROVE f[i] = c[i]
  <2>1. i \in 0 .. k /\ i - 1 \in 0 .. k  BY <1>1
  <2>2. g[i - 1] \in Nat /\ Addend(d, parity, i) \in Nat
        /\ g[i] = g[i - 1] + Addend(d, parity, i) /\ f[i] = f[i - 1] + Addend(e, parity, i)
        /\ Addend(e, parity, i) = Addend(d, parity, i) + IF i = x THEN more ELSE 0
    BY <1>4, <1>5, <1>6, <1>7, <2>1
  <2>3. c[i - 1] = g[i - 1] + (IF i - 1 >= x THEN more ELSE 0)
        /\ c[i] = g[i] + (IF i >= x THEN more ELSE 0)
    BY <2>1
  <2> HIDE DEF c
  <2>4. CASE i = x  BY <1>3, <1>8, <1>10, <2>2, <2>3, <2>4
  <2>5. CASE i # x
    <3>1. i - 1 >= x <=> i >= x  BY <1>1, <1>8, <2>5
    <3>2. QED  BY <1>3, <1>10, <2>2, <2>3, <2>5, <3>1
  <2>6. QED  BY <2>4, <2>5
<1>11. \A i \in 0 .. k : f[i] = c[i]
  <2>1. Follows(f, c, k)
    <3> HIDE DEF c
    <3>1. QED  BY <1>4, <1>9, <1>10 DEF Follows
  <2>2. k \in Nat  BY <1>1
  <2> HIDE DEF f, c
  <2>3. QED  BY <2>1, <2>2, SameSums
<1>12. k \in 0 .. k /\ k >= x  BY <1>1, <1>8
<1>13. f[k] = g[k] + more  BY <1>11, <1>12
<1>14. QED  BY <1>1, <1>13 DEF f, g, more, e, k, Part

\* Equal as checksums.
Same(a, b) == \E k \in Int : a = b + k * Whole

\* Whole has factors.
LEMMA WholeIs == Whole \in Nat /\ Whole >= 15 /\ Whole = (Base - 1) * (Base + 1)
<1>1. PICK k \in Nat : Base = 4 + k
  <2>1. Base - 4 \in Nat /\ Base = 4 + (Base - 4)  BY OctetAssumption
  <2>2. QED  BY <2>1
<1>2. Base * Base = 16 + 8 * k + k * k /\ k * k \in Nat  BY <1>1
<1>3. Base * Base >= 16 /\ Base * Base \in Nat  BY <1>2
<1>4. (Base - 1) * (Base + 1) = Base * Base - 1  BY OctetAssumption
<1>5. QED  BY <1>3, <1>4 DEF Whole

\* Equal as checksums: symmetric, transitive, and kept by sums and differences.
LEMMA SameSteps ==
  ASSUME NEW a \in Int, NEW b \in Int, NEW c \in Int, Same(a, b)
  PROVE  /\ Same(b, a) /\ Same(a + c, b + c) /\ Same(c - a, c - b)
         /\ Same(b, c) => Same(a, c)
<1>1. PICK k \in Int : a = b + k * Whole  BY DEF Same
<1>2. Whole \in Int  BY WholeIs
<1>3. -k \in Int /\ k * Whole \in Int /\ (-k) * Whole = -(k * Whole)  BY <1>2
<1>4. b = a + (-k) * Whole  BY <1>1, <1>3
<1>5. a + c = (b + c) + k * Whole  BY <1>1, <1>3
<1>6. c - a = (c - b) + (-k) * Whole  BY <1>1, <1>3
<1>7. ASSUME Same(b, c) PROVE Same(a, c)
  <2>1. PICK j \in Int : b = c + j * Whole  BY <1>7 DEF Same
  <2>2. (k + j) * Whole = k * Whole + j * Whole /\ j * Whole \in Int /\ k + j \in Int  BY <1>2
  <2>3. a = c + (k + j) * Whole  BY <1>1, <1>3, <2>1, <2>2
  <2>4. QED  BY <2>2, <2>3 DEF Same
<1>8. QED  BY <1>3, <1>4, <1>5, <1>6, <1>7, <1>1 DEF Same

\* Nothing between two multiples of Whole is another.
LEMMA SameIsZero ==
  ASSUME NEW a \in Int, -Whole < a, a < Whole, Same(a, 0)
  PROVE  a = 0
<1>1. PICK k \in Int : a = 0 + k * Whole  BY DEF Same
<1>2. Whole \in Nat /\ Whole > 0  BY WholeIs
<1>3. CASE k = 0  BY <1>1, <1>2, <1>3
<1>4. CASE k > 0
  <2>1. PICK j \in Nat : k = j + 1
    <3>1. k - 1 \in Nat /\ k = (k - 1) + 1  BY <1>4
    <3>2. QED  BY <3>1
  <2>2. k * Whole = j * Whole + Whole /\ j * Whole \in Nat  BY <1>2, <2>1
  <2>3. QED  BY <1>1, <1>2, <2>2
<1>5. CASE k < 0
  <2>1. PICK j \in Nat : k = -(j + 1)
    <3>1. -k - 1 \in Nat /\ k = -((-k - 1) + 1)  BY <1>5
    <3>2. QED  BY <3>1
  <2>2. k * Whole = -(j * Whole + Whole) /\ j * Whole \in Nat  BY <1>2, <2>1
  <2>3. QED  BY <1>1, <1>2, <2>2
<1>6. QED  BY <1>3, <1>4, <1>5

\* The words of a message, in all.
Total(message) == Part(message, 1) * Base + Part(message, 0)

\* The words of a message are a number.
LEMMA TotalIsNat ==
  ASSUME NEW message \in Seq(Octet)
  PROVE  Total(message) \in Nat
<1>1. Part(message, 1) \in Nat /\ Part(message, 0) \in Nat  BY PartOffset
<1>2. Part(message, 1) * Base \in Nat  BY <1>1, OctetAssumption
<1>3. QED  BY <1>1, <1>2 DEF Total

Checks == 0 .. Whole - 1

\* One call of the code adds its bytes, if the accumulators have room for them.
LEMMA Checksum ==
  ASSUME NEW acc \in Checks, NEW message \in Seq(Octet), Len(message) <= 2 * Base
  PROVE  /\ checksum_ipv4(acc, message) \in Checks
         /\ Same(checksum_ipv4(acc, message), acc - Total(message))
<1> DEFINE sum == negated(acc)
           odd == Part(message, 1)
           even == Part(message, 0)
           H == (sum \div Base) + odd
           L == (sum % Base) + even
           HL == carry[<<H, L>>]
<1>1. Whole \in Nat /\ Whole >= 15 /\ Base \in Nat /\ Base >= 4  BY WholeIs, OctetAssumption
<1>2. sum = Whole - acc /\ sum \in Short /\ sum >= 1 /\ sum \in Nat /\ acc \in Nat
  <2>1. acc \in Nat /\ acc <= Whole - 1  BY <1>1 DEF Checks
  <2>2. sum = Whole - acc  BY <1>1, <2>1 DEF negated, Whole
  <2>3. Base * Base = Whole + 1 /\ Short = 0 .. Whole  BY <1>1 DEF Short, Whole
  <2> HIDE DEF sum
  <2>4. QED  BY <1>1, <2>1, <2>2, <2>3
<1> HIDE DEF sum
<1>3. /\ sum \div Base \in Octet /\ sum % Base \in Octet /\ sum = (sum \div Base) * Base + (sum % Base)
      /\ sum \div Base \in Nat /\ sum % Base \in Nat /\ sum \div Base <= Base - 1 /\ sum % Base <= Base - 1
  <2>1. sum \div Base \in Octet /\ sum % Base \in Octet /\ sum = ((sum \div Base) * Base) + (sum % Base)
    BY <1>2, ShortDivMod
  <2>2. QED  BY <2>1, <1>1 DEF Octet
<1>4. /\ odd \in Nat /\ every_second(message, 1, sum \div Base)[Len(message)] = H
      /\ even \in Nat /\ every_second(message, 0, sum % Base)[Len(message)] = L
  <2>1. odd \in Nat /\ even \in Nat  BY PartOffset
  <2>2. every_second(message, 1, sum \div Base)[Len(message)] = (sum \div Base) + Part(message, 1)
    BY <1>3, PartOffset
  <2>3. every_second(message, 0, sum % Base)[Len(message)] = (sum % Base) + Part(message, 0)
    BY <1>3, PartOffset
  <2>4. QED  BY <2>1, <2>2, <2>3
<1>5. odd <= Base * (Base - 1) /\ even <= Base * (Base - 1)  BY PartBound DEF Parity
<1>6. H \in Short /\ L \in Short /\ H \in Nat /\ L \in Nat /\ H < Base * Base /\ L < Base * Base
  <2>1. Base * (Base - 1) = Base * Base - Base /\ Base * Base \in Nat  BY <1>1
  <2>1a. \A q, o \in Nat : q <= Base - 1 /\ o <= Base * (Base - 1)
                            => q + o \in Nat /\ q + o <= Base * Base - 1
    BY <1>1, <2>1
  <2> HIDE DEF odd, even
  <2>2. H \in Nat /\ H <= Base * Base - 1  BY <1>3, <1>4, <1>5, <2>1a
  <2>3. L \in Nat /\ L <= Base * Base - 1  BY <1>3, <1>4, <1>5, <2>1a
  <2> HIDE DEF H, L
  <2>4. QED  BY <2>1, <2>2, <2>3 DEF Short
<1>7. Value(<<H, L>>) = sum + Total(message)
  <2>1. Total(message) = odd * Base + even  BY DEF Total
  <2> HIDE DEF odd, even
  <2> DEFINE q == sum \div Base
             r == sum % Base
  <2>2. q \in Nat /\ r \in Nat /\ sum = q * Base + r  BY <1>3
  <2>3. H = q + odd /\ L = r + even  OBVIOUS
  <2> HIDE DEF q, r
  <2>4. (q + odd) * Base = q * Base + odd * Base  BY <1>1, <1>4, <2>2
  <2>5. q * Base \in Nat /\ odd * Base \in Nat  BY <1>1, <1>4, <2>2
  <2> HIDE DEF H, L
  <2>6. Value(<<H, L>>) = (q + odd) * Base + (r + even)  BY <2>3 DEF Value
  <2>7. QED  BY <1>4, <2>1, <2>2, <2>4, <2>5, <2>6
<1>8. Total(message) \in Nat  BY TotalIsNat
<1>9. update_sum(sum, message) = negated(HL[1] * Base + HL[2])
  <2>1. H % (Base * Base) = H /\ L % (Base * Base) = L
    <3> HIDE DEF H, L
    <3> DEFINE w == Base * Base
    <3>1. w \in Nat /\ w > 0 /\ H \in Nat /\ H < w /\ L \in Nat /\ L < w
      BY <1>1, <1>6
    <3> HIDE DEF w
    <3>2. H % w = H /\ L % w = L  BY <3>1
    <3>3. QED  BY <3>2 DEF w
  <2> HIDE DEF H, L
  <2>2. QED  BY <1>4, <2>1 DEF update_sum
<1> HIDE DEF H, L
<1>10. <<H, L>> \in Shorts  BY <1>6 DEF Shorts
<1>11. /\ HL \in Small /\ Value(HL) > 0
       /\ \E k \in Nat : Value(HL) = Value(<<H, L>>) - k * Whole
  <2>1. Value(<<H, L>>) > 0  BY <1>2, <1>7, <1>8
  <2>2. QED  BY <1>10, <2>1, Carry
<1> HIDE DEF HL
<1>12. HL[1] \in Octet /\ HL[2] \in Octet
  <2>1. HL[1] \in Nat /\ HL[2] \in Nat /\ HL[1] < Base /\ HL[2] < Base
    BY <1>1, <1>11 DEF Small, Shorts, Short
  <2>2. QED  BY <1>1, <2>1 DEF Octet
<1>13. Value(HL) \in Nat /\ Value(HL) <= Whole /\ Value(HL) = HL[1] * Base + HL[2]
  <2>1. HL[1] * Base + HL[2] <= Whole /\ HL[1] * Base + HL[2] \in Short  BY <1>12, WordIsShort
  <2>2. QED  BY <2>1, <1>1 DEF Value, Short
<1>14. checksum_ipv4(acc, message) = Whole - Value(HL)
  BY <1>9, <1>13, <1>1 DEF checksum_ipv4, sum, negated, Whole
<1>15. checksum_ipv4(acc, message) \in Checks  BY <1>1, <1>11, <1>13, <1>14 DEF Checks
<1>16. PICK k \in Nat : Value(HL) = Value(<<H, L>>) - k * Whole  BY <1>11
<1>17. checksum_ipv4(acc, message) = (acc - Total(message)) + k * Whole
  <2>1. k * Whole \in Nat  BY <1>1
  <2>2. QED  BY <1>1, <1>2, <1>7, <1>8, <1>14, <1>16, <2>1
<1>18. k \in Int  OBVIOUS
<1>19. QED  BY <1>15, <1>17, <1>18 DEF Same

-----------------------------------------------------------------------------
(***************************************************************************)
(* Part 5. The datagram, from the cast to what the peers are told.         *)
(***************************************************************************)

\* Where the payload of a message starts.
Cursor(m) == IF m.port = 0 THEN 6 ELSE 10

\* The parts of a message fit their bytes.
LEMMA MessageParts ==
  ASSUME NEW m \in Messages
  PROVE  /\ m.type \in Octet /\ m.transaction \in Short /\ m.port \in Short
         /\ m.fields \in Payloads /\ m.fields \in Seq(Fixnum) /\ version(m) \in Octet
         /\ payload(m) \in Seq(Octet)
         /\ payload(m) = sequence_into_octets(m.fields)
         /\ Len(payload(m)) = asn_span(sequence_span(m.fields))
<1>1. m.type \in Octet /\ m.transaction \in Short /\ m.port \in Short /\ m.fields \in Payloads
  BY FieldsAssumption DEF Messages
<1>2. m.fields \in Seq(Fixnum) /\ Len(ufixnum_octets[sequence_span(m.fields)]) < Sign
  BY <1>1, PayloadsAssumption
<1>3. version(m) \in Octet  BY OctetAssumption DEF version, Octet
<1>4. payload(m) = sequence_into_octets(m.fields)  BY DEF payload
<1>5. sequence_into_octets(m.fields) \in Seq(Octet)
      /\ Len(sequence_into_octets(m.fields)) = asn_span(sequence_span(m.fields))
  BY <1>2, PayloadIs
<1>6. QED  BY <1>1, <1>2, <1>3, <1>4, <1>5

\* Two bytes at the end.
LEMMA Pair ==
  ASSUME NEW s \in Seq(Octet), NEW x \in Octet, NEW y \in Octet
  PROVE  /\ s \o <<x, y>> \in Seq(Octet) /\ Len(s \o <<x, y>>) = Len(s) + 2
         /\ (s \o <<x, y>>)[Len(s) + 1] = x /\ (s \o <<x, y>>)[Len(s) + 2] = y
         /\ \A i \in 1 .. Len(s) : (s \o <<x, y>>)[i] = s[i]
<1> DEFINE t == <<x, y>>
<1>1. t \in Seq(Octet) /\ Len(t) = 2 /\ t[1] = x /\ t[2] = y  OBVIOUS
<1> HIDE DEF t
<1>2. /\ s \o t \in Seq(Octet) /\ Len(s \o t) = Len(s) + Len(t)
      /\ \A i \in 1 .. Len(s) + Len(t) : (s \o t)[i] = IF i <= Len(s) THEN s[i] ELSE t[i - Len(s)]
  BY <1>1, ConcatProperties
<1>3. Len(s) \in Nat  OBVIOUS
<1>4. /\ Len(s) + 1 \in 1 .. Len(s) + Len(t) /\ ~(Len(s) + 1 <= Len(s)) /\ (Len(s) + 1) - Len(s) = 1
      /\ Len(s) + 2 \in 1 .. Len(s) + Len(t) /\ ~(Len(s) + 2 <= Len(s)) /\ (Len(s) + 2) - Len(s) = 2
      /\ \A i \in 1 .. Len(s) : i \in 1 .. Len(s) + Len(t) /\ i <= Len(s)
  BY <1>1, <1>3
<1>5. (s \o t)[Len(s) + 1] = x /\ (s \o t)[Len(s) + 2] = y /\ \A i \in 1 .. Len(s) : (s \o t)[i] = s[i]
  BY <1>1, <1>2, <1>4
<1>6. QED  BY <1>1, <1>2, <1>5 DEF t

\* The header, byte by byte.
LEMMA Header ==
  ASSUME NEW m \in Messages, NEW checksum \in Short
  PROVE  LET h == header(m, checksum)
         IN  /\ h \in Seq(Octet) /\ Len(h) = Cursor(m)
             /\ h[1] = Magic[1] /\ h[2] = Magic[2] /\ h[3] = version(m) /\ h[4] = m.type
             /\ h[5] = checksum \div Base /\ h[6] = checksum % Base
             /\ m.port # 0 => /\ h[7] = m.transaction \div Base /\ h[8] = m.transaction % Base
                              /\ h[9] = m.port \div Base /\ h[10] = m.port % Base
<1> DEFINE hi == checksum \div Base
           lo == checksum % Base
           t1 == m.transaction \div Base
           t0 == m.transaction % Base
           p1 == m.port \div Base
           p0 == m.port % Base
           v == version(m)
           t == m.type
           h == header(m, checksum)
<1>1. hi \in Octet /\ lo \in Octet  BY ShortDivMod
<1>2. t \in Octet /\ m.transaction \in Short /\ m.port \in Short /\ v \in Octet  BY MessageParts
<1>3. t1 \in Octet /\ t0 \in Octet /\ p1 \in Octet /\ p0 \in Octet  BY <1>2, ShortDivMod
<1>4. Magic \in Seq(Octet) /\ Len(Magic) = 2  BY MagicAssumption
<1> DEFINE more == IF m.port = 0 THEN <<>> ELSE <<t1, t0>> \o <<p1, p0>>
           four == Magic \o <<v, t>>
           six == four \o <<hi, lo>>
<1>5. h = six \o more  BY DEF header, bigendian_uint16
<1> HIDE DEF hi, lo, t1, t0, p1, p0, v, t, h
<1>6. four \in Seq(Octet) /\ Len(four) = 4
      /\ four[1] = Magic[1] /\ four[2] = Magic[2] /\ four[3] = v /\ four[4] = t
  <2> HIDE DEF four
  <2>0. v \in Octet /\ t \in Octet  BY <1>2
  <2>1. /\ four \in Seq(Octet) /\ Len(four) = Len(Magic) + 2
        /\ four[Len(Magic) + 1] = v /\ four[Len(Magic) + 2] = t
        /\ \A i \in 1 .. Len(Magic) : four[i] = Magic[i]
    <3>1. LET r == Magic \o <<v, t>>
          IN  /\ r \in Seq(Octet) /\ Len(r) = Len(Magic) + 2
              /\ r[Len(Magic) + 1] = v /\ r[Len(Magic) + 2] = t
              /\ \A i \in 1 .. Len(Magic) : r[i] = Magic[i]
      <4>1. Magic \in Seq(Octet)  BY <1>4
      <4>2. QED  BY <2>0, <4>1, Pair
    <3>2. QED  BY <3>1 DEF four
  <2>2. QED  BY <1>4, <2>1
<1> HIDE DEF four
<1>7. six \in Seq(Octet) /\ Len(six) = 6 /\ six[5] = hi /\ six[6] = lo
      /\ \A i \in 1 .. 4 : six[i] = four[i]
  <2> HIDE DEF six
  <2>1. /\ six \in Seq(Octet) /\ Len(six) = Len(four) + 2
        /\ six[Len(four) + 1] = hi /\ six[Len(four) + 2] = lo
        /\ \A i \in 1 .. Len(four) : six[i] = four[i]
    <3>1. four \in Seq(Octet) /\ hi \in Octet /\ lo \in Octet  BY <1>1, <1>6
    <3>2. LET r == four \o <<hi, lo>>
          IN  /\ r \in Seq(Octet) /\ Len(r) = Len(four) + 2
              /\ r[Len(four) + 1] = hi /\ r[Len(four) + 2] = lo
              /\ \A i \in 1 .. Len(four) : r[i] = four[i]
      BY <3>1, Pair
    <3>3. QED  BY <3>2 DEF six
  <2>2. QED  BY <1>6, <2>1
<1> HIDE DEF six
<1>8. more \in Seq(Octet) /\ 6 + Len(more) = Cursor(m)
      /\ (m.port # 0 => more[1] = t1 /\ more[2] = t0 /\ more[3] = p1 /\ more[4] = p0)
  <2>1. CASE m.port = 0  BY <2>1 DEF Cursor
  <2>2. CASE m.port # 0
    <3> DEFINE s == <<t1, t0>>
    <3>1. s \in Seq(Octet) /\ Len(s) = 2 /\ s[1] = t1 /\ s[2] = t0  BY <1>3
    <3>2. more = s \o <<p1, p0>>  BY <2>2
    <3> HIDE DEF s, more
    <3>1a. s \in Seq(Octet) /\ p1 \in Octet /\ p0 \in Octet  BY <1>3, <3>1
    <3>2a. LET r == s \o <<p1, p0>>
           IN  /\ r \in Seq(Octet) /\ Len(r) = Len(s) + 2
               /\ r[Len(s) + 1] = p1 /\ r[Len(s) + 2] = p0
               /\ \A i \in 1 .. Len(s) : r[i] = s[i]
      BY <3>1a, Pair
    <3>3. /\ more \in Seq(Octet) /\ Len(more) = Len(s) + 2
          /\ more[Len(s) + 1] = p1 /\ more[Len(s) + 2] = p0
          /\ \A i \in 1 .. Len(s) : more[i] = s[i]
      BY <3>2, <3>2a
    <3>4. QED  BY <2>2, <3>1, <3>3 DEF Cursor
  <2>3. QED  BY <2>1, <2>2
<1> HIDE DEF more
<1>9. /\ h \in Seq(Octet) /\ Len(h) = 6 + Len(more)
      /\ \A i \in 1 .. 6 + Len(more) : h[i] = IF i <= 6 THEN six[i] ELSE more[i - 6]
  <2>1. LET r == six \o more
        IN  /\ r \in Seq(Octet) /\ Len(r) = Len(six) + Len(more)
            /\ \A i \in 1 .. Len(six) + Len(more) :
                 r[i] = IF i <= Len(six) THEN six[i] ELSE more[i - Len(six)]
    BY <1>7, <1>8, ConcatProperties
  <2>2. QED  BY <1>5, <1>7, <2>1
<1>10. Len(more) \in Nat  BY <1>8
<1>11. \A i \in 1 .. 6 : h[i] = six[i]  BY <1>9, <1>10
<1>12. ASSUME m.port # 0 PROVE h[7] = t1 /\ h[8] = t0 /\ h[9] = p1 /\ h[10] = p0
  <2> DEFINE k == Len(more)
  <2>0. 6 + k = 10
    <3>1. 6 + k = Cursor(m)  BY <1>8
    <3> HIDE DEF k
    <3>2. QED  BY <1>12, <3>1 DEF Cursor
  <2>0a. k \in Nat  BY <1>10
  <2>1. Len(more) = 4
    <3> HIDE DEF k
    <3>1. k = 4  BY <2>0, <2>0a
    <3>2. QED  BY <3>1 DEF k
  <2>2. h[7] = more[7 - 6] /\ h[8] = more[8 - 6] /\ h[9] = more[9 - 6] /\ h[10] = more[10 - 6]
    BY <1>9, <2>1
  <2>3. QED  BY <1>8, <1>12, <2>2
<1>13. QED
  BY <1>6, <1>7, <1>8, <1>9, <1>11, <1>12 DEF hi, lo, t1, t0, p1, p0, v, t, h

\* A datagram that has everything of a message, but its checksum perhaps.
Carries(d, m) ==
  /\ d \in Seq(Octet) /\ Len(d) = Cursor(m) + Len(payload(m))
  /\ d[1] = Magic[1] /\ d[2] = Magic[2] /\ d[3] = version(m) /\ d[4] = m.type
  /\ m.port # 0 => /\ d[7] = m.transaction \div Base /\ d[8] = m.transaction % Base
                   /\ d[9] = m.port \div Base /\ d[10] = m.port % Base
  /\ Occurs(d, Cursor(m), payload(m))

Cast(m, checksum) == header(m, checksum) \o payload(m)

\* The datagram of a message has everything of it, and its checksum.
LEMMA CastCarries ==
  ASSUME NEW m \in Messages, NEW checksum \in Short
  PROVE  /\ Carries(Cast(m, checksum), m)
         /\ Cast(m, checksum)[5] = checksum \div Base /\ Cast(m, checksum)[6] = checksum % Base
<1> DEFINE h == header(m, checksum)
           p == payload(m)
           d == h \o p
<1>1. h \in Seq(Octet) /\ Len(h) = Cursor(m)  BY Header
<1>2. p \in Seq(Octet)  BY MessageParts
<1>3. /\ h[1] = Magic[1] /\ h[2] = Magic[2] /\ h[3] = version(m) /\ h[4] = m.type
      /\ h[5] = checksum \div Base /\ h[6] = checksum % Base
      /\ m.port # 0 => /\ h[7] = m.transaction \div Base /\ h[8] = m.transaction % Base
                       /\ h[9] = m.port \div Base /\ h[10] = m.port % Base
  BY Header
<1> HIDE DEF h, p
<1>4. d \in Seq(Octet) /\ Len(d) = Len(h) + Len(p) /\ \A i \in 1 .. Len(h) : d[i] = h[i]
  <2> HIDE DEF d
  <2>1. d \in Seq(Octet) /\ Len(d) = Len(h) + Len(p)
        /\ \A i \in 1 .. Len(h) + Len(p) : d[i] = IF i <= Len(h) THEN h[i] ELSE p[i - Len(h)]
    BY <1>1, <1>2, ConcatProperties DEF d
  <2>2. Len(h) \in Nat /\ Len(p) \in Nat  BY <1>1, <1>2
  <2>3. QED  BY <2>1, <2>2
<1>5. \A i \in 1 .. 6 : d[i] = h[i]  BY <1>1, <1>4 DEF Cursor
<1>6. m.port # 0 => \A i \in 1 .. 10 : d[i] = h[i]  BY <1>1, <1>4 DEF Cursor
<1>7. Occurs(d, Cursor(m), p)
  <2>1. \A i \in 1 .. Len(d) : d[i] = d[0 + i]  OBVIOUS
  <2>2. Occurs(d, 0, h \o p)  BY <2>1 DEF Occurs
  <2>3. Occurs(d, 0 + Len(h), p)  BY <1>1, <1>2, <2>2, OccursConcat
  <2>4. QED  BY <1>1, <2>3 DEF Cursor
<1> HIDE DEF d
<1>8. Carries(d, m)
  BY <1>1, <1>3, <1>4, <1>5, <1>6, <1>7 DEF Carries, p
<1>9. d[5] = checksum \div Base /\ d[6] = checksum % Base  BY <1>3, <1>5
<1>10. QED  BY <1>8, <1>9 DEF d, h, p, Cast

\* What is dispatched of a datagram that has everything of a message.
LEMMA Dispatched ==
  ASSUME NEW m \in Messages, NEW d, Carries(d, m), NEW x, \A i \in 1 .. Len(d) : x[i] = d[i]
  PROVE  dispatch_message(d, x) = Expected(m)
<1> DEFINE p == payload(m)
           cursor == Cursor(m)
           size == asn_span(sequence_span(m.fields))
           end == asn_octets_unbox(x, cursor)[2]
<1>1. p \in Seq(Octet) /\ Len(p) = size /\ p = sequence_into_octets(m.fields) /\ m.fields \in Seq(Fixnum)
      /\ m.transaction \in Short /\ m.port \in Short
  BY MessageParts
<1>2. cursor \in Nat /\ cursor >= 6 /\ (m.port # 0 => cursor = 10) /\ (m.port = 0 => cursor = 6)
  BY DEF Cursor
<1>3. d \in Seq(Octet) /\ Len(d) = cursor + Len(p) /\ Occurs(d, cursor, p)  BY DEF Carries
<1> HIDE DEF p, cursor, size
<1>4. Len(p) \in Nat /\ Len(d) \in Nat  BY <1>1, <1>3
<1>5. Occurs(x, cursor, p)
  <2>1. ASSUME NEW i \in 1 .. Len(p) PROVE x[cursor + i] = p[i]
    <3>1. cursor + i \in 1 .. Len(d)  BY <1>2, <1>3, <1>4
    <3>2. x[cursor + i] = d[cursor + i]  BY <3>1
    <3>3. QED  BY <1>3, <3>2 DEF Occurs
  <2>2. QED  BY <2>1 DEF Occurs
<1>6. end = Len(d)
  <2>1. asn_octets_unbox(x, cursor) = <<sequence_span(m.fields), cursor + size>>
    BY <1>1, <1>2, <1>5, PayloadUnbox DEF size
  <2>2. QED  BY <1>1, <1>3, <2>1
<1>7. SubSeq(d, cursor + 1, end) = p
  <2>1. SubSeq(d, cursor + 1, cursor + Len(p)) = p  BY <1>1, <1>2, <1>3, OccursSubSeq
  <2>2. QED  BY <1>3, <1>6, <2>1
<1>8. x[3] = version(m) /\ x[4] = m.type
  <2>1. 3 \in 1 .. Len(d) /\ 4 \in 1 .. Len(d)  BY <1>2, <1>3, <1>4
  <2>2. QED  BY <2>1 DEF Carries
<1>9. ASSUME m.port # 0
      PROVE  bigendian_uint16_ref(x, 6) = m.transaction /\ bigendian_uint16_ref(x, 8) = m.port
  <2>1. 7 \in 1 .. Len(d) /\ 8 \in 1 .. Len(d) /\ 9 \in 1 .. Len(d) /\ 10 \in 1 .. Len(d)
    BY <1>2, <1>3, <1>4, <1>9
  <2>2. x[7] = m.transaction \div Base /\ x[8] = m.transaction % Base
        /\ x[9] = m.port \div Base /\ x[10] = m.port % Base
    BY <1>9, <2>1 DEF Carries
  <2>3. m.transaction = ((m.transaction \div Base) * Base) + (m.transaction % Base)
        /\ m.port = ((m.port \div Base) * Base) + (m.port % Base)
    BY <1>1, ShortDivMod
  <2>4. QED  BY <2>2, <2>3 DEF bigendian_uint16_ref
<1> HIDE DEF end
<1>10. CASE m.port = 0
  <2>1. x[3] # 1 /\ cursor = 6  BY <1>2, <1>8, <1>10 DEF version
  <2>2. dispatch_message(d, x) = [type |-> m.type, port |-> 0, payload |-> p]
    BY <1>6, <1>7, <1>8, <2>1 DEF dispatch_message, end
  <2>3. QED  BY <1>10, <2>2 DEF Expected, p
<1>11. CASE m.port # 0
  <2>1. x[3] = 1 /\ cursor = 10  BY <1>2, <1>8, <1>11 DEF version
  <2>2. dispatch_message(d, x) = [type |-> m.type, port |-> m.port, payload |-> p]
    BY <1>6, <1>7, <1>8, <1>9, <1>11, <2>1 DEF dispatch_message, end
  <2>3. QED  BY <1>11, <2>2 DEF Expected, p
<1>12. QED  BY <1>10, <1>11

\* What a damaged byte does to the words.
Weight(x) == IF x % 2 = 1 THEN Base ELSE 1

\* A byte that is changed changes the words by as much, times its weight.
LEMMA TotalChange ==
  ASSUME NEW d \in Seq(Octet), NEW x \in 1 .. Len(d), NEW b \in Octet
  PROVE  /\ [d EXCEPT ![x] = b] \in Seq(Octet) /\ Len([d EXCEPT ![x] = b]) = Len(d)
         /\ \A i \in 1 .. Len(d) : [d EXCEPT ![x] = b][i] = IF i = x THEN b ELSE d[i]
         /\ Total([d EXCEPT ![x] = b]) = Total(d) + (b - d[x]) * Weight(x)
<1> DEFINE e == [d EXCEPT ![x] = b]
           p1 == Part(d, 1)
           p0 == Part(d, 0)
           more == b - d[x]
<1>1. e \in Seq(Octet) /\ Len(e) = Len(d) /\ \A i \in 1 .. Len(d) : e[i] = IF i = x THEN b ELSE d[i]
  OBVIOUS
<1>2. Part(e, 1) = p1 + IF x % 2 = 1 THEN more ELSE 0  BY PartChange
<1>3. Part(e, 0) = p0 + IF x % 2 = 0 THEN more ELSE 0  BY PartChange
<1>4. p1 \in Nat /\ p0 \in Nat  BY PartOffset
<1>5. more \in Int
  <2>1. d[x] \in Octet  OBVIOUS
  <2>2. QED  BY <2>1, OctetAssumption DEF Octet
<1>6. Base \in Nat /\ Total(d) = p1 * Base + p0 /\ Total(e) = Part(e, 1) * Base + Part(e, 0)
  BY OctetAssumption DEF Total
<1>7. x \in Nat  OBVIOUS
<1> HIDE DEF p1, p0, more, e
<1>8. CASE x % 2 = 1
  <2>1. Part(e, 1) = p1 + more /\ Part(e, 0) = p0  BY <1>2, <1>3, <1>4, <1>8
  <2>2. (p1 + more) * Base = p1 * Base + more * Base /\ p1 * Base \in Int /\ more * Base \in Int
    BY <1>4, <1>5, <1>6
  <2>3. Total(e) = Total(d) + more * Weight(x)  BY <1>4, <1>6, <1>8, <2>1, <2>2 DEF Weight
  <2>4. QED  BY <1>1, <2>3 DEF e, more
<1>9. CASE x % 2 # 1
  <2>1. x % 2 = 0  BY <1>7, <1>9
  <2>2. Part(e, 1) = p1 /\ Part(e, 0) = p0 + more  BY <1>2, <1>3, <1>4, <2>1
  <2>3. p1 * Base \in Int  BY <1>4, <1>6
  <2>4. Total(e) = Total(d) + more * Weight(x)
    BY <1>4, <1>5, <1>6, <1>9, <2>2, <2>3 DEF Weight
  <2>5. QED  BY <1>1, <2>4 DEF e, more
<1>10. QED  BY <1>8, <1>9

\* The words of two parts, the first of which ends with a word.
LEMMA TotalConcat ==
  ASSUME NEW s \in Seq(Octet), NEW t \in Seq(Octet), Len(s) % 2 = 0
  PROVE  Total(s \o t) = Total(s) + Total(t)
<1>1. /\ Part(s \o t, 1) = Part(s, 1) + Part(t, 1) /\ Part(s \o t, 0) = Part(s, 0) + Part(t, 0)
  BY PartConcat
<1>2. Part(s, 1) \in Nat /\ Part(t, 1) \in Nat /\ Part(s, 0) \in Nat /\ Part(t, 0) \in Nat
  BY PartOffset
<1>3. (Part(s, 1) + Part(t, 1)) * Base = Part(s, 1) * Base + Part(t, 1) * Base
      /\ Part(s, 1) * Base \in Nat /\ Part(t, 1) * Base \in Nat
  BY <1>2, OctetAssumption
<1>4. QED  BY <1>1, <1>2, <1>3 DEF Total

\* The checksum is a word of the message.
LEMMA HeaderTotal ==
  ASSUME NEW m \in Messages, NEW checksum \in Short
  PROVE  Total(header(m, checksum)) = Total(header(m, 0)) + checksum
<1> DEFINE h0 == header(m, 0)
           h == header(m, checksum)
           hi == checksum \div Base
           lo == checksum % Base
           h1 == [h0 EXCEPT ![5] = hi]
           h2 == [h1 EXCEPT ![6] = lo]
<1>1. 0 \in Short /\ 0 \div Base = 0 /\ 0 % Base = 0
  <2>1. Base * Base \in Nat /\ Base * Base >= 1  BY WholeIs, OctetAssumption DEF Whole
  <2>2. QED  BY <2>1, OctetAssumption DEF Short
<1>2. hi \in Octet /\ lo \in Octet /\ checksum = (hi * Base) + lo  BY ShortDivMod
<1>3. Cursor(m) \in {6, 10} /\ (m.port # 0 <=> Cursor(m) = 10)  BY DEF Cursor
<1>4. /\ h0 \in Seq(Octet) /\ Len(h0) = Cursor(m) /\ h0[5] = 0 /\ h0[6] = 0
      /\ h0[1] = Magic[1] /\ h0[2] = Magic[2] /\ h0[3] = version(m) /\ h0[4] = m.type
      /\ m.port # 0 => /\ h0[7] = m.transaction \div Base /\ h0[8] = m.transaction % Base
                       /\ h0[9] = m.port \div Base /\ h0[10] = m.port % Base
  BY <1>1, Header
<1>5. /\ h \in Seq(Octet) /\ Len(h) = Cursor(m) /\ h[5] = hi /\ h[6] = lo
      /\ h[1] = Magic[1] /\ h[2] = Magic[2] /\ h[3] = version(m) /\ h[4] = m.type
      /\ m.port # 0 => /\ h[7] = m.transaction \div Base /\ h[8] = m.transaction % Base
                       /\ h[9] = m.port \div Base /\ h[10] = m.port % Base
  BY Header
<1> HIDE DEF h0, h, hi, lo
<1>6. /\ h1 \in Seq(Octet) /\ Len(h1) = Len(h0) /\ Total(h1) = Total(h0) + (hi - h0[5]) * Weight(5)
      /\ \A i \in 1 .. Len(h0) : h1[i] = IF i = 5 THEN hi ELSE h0[i]
  <2>1. 5 \in 1 .. Len(h0)  BY <1>3, <1>4
  <2>2. h0 \in Seq(Octet) /\ hi \in Octet  BY <1>2, <1>4
  <2>3. QED  BY <2>1, <2>2, TotalChange DEF h1
<1> HIDE DEF h1
<1>7. /\ h2 \in Seq(Octet) /\ Len(h2) = Len(h1) /\ Total(h2) = Total(h1) + (lo - h1[6]) * Weight(6)
      /\ \A i \in 1 .. Len(h1) : h2[i] = IF i = 6 THEN lo ELSE h1[i]
  <2>1. 6 \in 1 .. Len(h1)  BY <1>3, <1>4, <1>6
  <2>2. h1 \in Seq(Octet) /\ lo \in Octet  BY <1>2, <1>6
  <2>3. QED  BY <2>1, <2>2, TotalChange DEF h2
<1> HIDE DEF h2
<1>8. h1[6] = 0  BY <1>3, <1>4, <1>6
<1>9. h2 = h
  <2>1. Len(h2) = Len(h)  BY <1>4, <1>5, <1>6, <1>7
  <2>2. ASSUME NEW i \in 1 .. Len(h) PROVE h2[i] = h[i]
    <3>1. i \in 1 .. Len(h0) /\ i \in 1 .. Len(h1)  BY <1>4, <1>5, <1>6
    <3>2. h2[i] = IF i = 6 THEN lo ELSE IF i = 5 THEN hi ELSE h0[i]  BY <1>6, <1>7, <3>1
    <3>3. CASE m.port = 0
      <4>1. i \in 1 .. 6  BY <1>3, <1>5, <3>3
      <4>2. i = 1 \/ i = 2 \/ i = 3 \/ i = 4 \/ i = 5 \/ i = 6  BY <4>1
      <4>3. QED  BY <1>4, <1>5, <3>2, <4>2
    <3>4. CASE m.port # 0
      <4>1. i \in 1 .. 10  BY <1>3, <1>5, <3>4
      <4>2. i = 1 \/ i = 2 \/ i = 3 \/ i = 4 \/ i = 5 \/ i = 6 \/ i = 7 \/ i = 8 \/ i = 9 \/ i = 10
        BY <4>1
      <4>3. QED  BY <1>4, <1>5, <3>2, <3>4, <4>2
    <3>5. QED  BY <3>3, <3>4
  <2>3. QED  BY <1>5, <1>7, <2>1, <2>2, SeqEqual
<1>10. Weight(5) = Base /\ Weight(6) = 1  BY DEF Weight
<1>11. hi \in Nat /\ lo \in Nat /\ Base \in Nat  BY <1>2, OctetAssumption DEF Octet
<1>12. Total(h0) \in Nat  BY <1>4, TotalIsNat
<1>13. Total(h) = Total(h0) + checksum
  <2>1. Total(h1) = Total(h0) + hi * Base  BY <1>4, <1>6, <1>10, <1>11
  <2>2. Total(h) = Total(h1) + lo  BY <1>7, <1>8, <1>9, <1>10, <1>11
  <2>3. hi * Base \in Nat  BY <1>11
  <2>4. QED  BY <1>2, <1>11, <1>12, <2>1, <2>2, <2>3
<1>14. QED  BY <1>13 DEF h, h0

\* The words of a message without its checksum.
Words(m) == Total(header(m, 0)) + Total(payload(m))

\* The words of a datagram are those of the message and its checksum.
LEMMA CastTotal ==
  ASSUME NEW m \in Messages, NEW checksum \in Short
  PROVE  /\ Cast(m, checksum) \in Seq(Octet) /\ Words(m) \in Nat
         /\ Len(Cast(m, checksum)) = Cursor(m) + Len(payload(m))
         /\ Total(Cast(m, checksum)) = Words(m) + checksum
<1> DEFINE h == header(m, checksum)
           p == payload(m)
<1>1. h \in Seq(Octet) /\ Len(h) = Cursor(m)  BY Header
<1>2. p \in Seq(Octet)  BY MessageParts
<1>3. Len(h) % 2 = 0  BY <1>1 DEF Cursor
<1>4. Total(h) = Total(header(m, 0)) + checksum  BY HeaderTotal
<1>5. Total(header(m, 0)) \in Nat /\ Total(p) \in Nat /\ checksum \in Nat
  <2>1. 0 \in Short /\ checksum \in Nat
    <3>1. Base * Base \in Nat /\ Base * Base >= 1  BY WholeIs, OctetAssumption DEF Whole
    <3>2. QED  BY <3>1 DEF Short
  <2>2. header(m, 0) \in Seq(Octet)  BY <2>1, Header
  <2>3. QED  BY <1>2, <2>1, <2>2, TotalIsNat
<1> HIDE DEF h, p
<1>6. Total(h \o p) = Total(h) + Total(p)  BY <1>1, <1>2, <1>3, TotalConcat
<1>7. h \o p \in Seq(Octet) /\ Len(h \o p) = Len(h) + Len(p)  BY <1>1, <1>2, ConcatProperties
<1>8. Cast(m, checksum) = h \o p  BY DEF Cast, h, p
<1>9. QED  BY <1>1, <1>4, <1>5, <1>6, <1>7, <1>8 DEF p, Words

\* The checksum of a message is not 0, and cancels its words.
LEMMA ChecksumOf ==
  ASSUME NEW m \in Messages, Cursor(m) + Len(payload(m)) <= 2 * Base
  PROVE  /\ checksum_of(m) \in Short /\ checksum_of(m) \in 1 .. Whole
         /\ Same(checksum_of(m), 0 - Words(m))
<1> DEFINE h == header(m, 0)
           p == payload(m)
           a == checksum_ipv4(0, h)
           b == checksum_ipv4(a, p)
<1>1. Whole \in Nat /\ Whole >= 15 /\ Short = 0 .. Whole  BY WholeIs, OctetAssumption DEF Short, Whole
<1>2. h \in Seq(Octet) /\ Len(h) = Cursor(m)  BY <1>1, Header
<1>3. p \in Seq(Octet)  BY MessageParts
<1>4. Len(h) <= 2 * Base /\ Len(p) <= 2 * Base
  <2>1. Len(h) \in Nat /\ Len(p) \in Nat  BY <1>2, <1>3
  <2>2. QED  BY <1>2, <2>1, OctetAssumption
<1>5. 0 \in Checks  BY <1>1 DEF Checks
<1>6. a \in Checks /\ Same(a, 0 - Total(h))  BY <1>2, <1>4, <1>5, Checksum
<1>7. Total(h) \in Nat /\ Total(p) \in Nat  BY <1>2, <1>3, TotalIsNat
<1> HIDE DEF h, a
<1>8. b \in Checks /\ Same(b, a - Total(p))  BY <1>3, <1>4, <1>6, Checksum
<1> HIDE DEF p
<1>9. a \in Int /\ b \in Int /\ b \in Nat /\ b < Whole  BY <1>1, <1>6, <1>8 DEF Checks
<1>10. Same(a - Total(p), 0 - Words(m))
  <2>1. 0 - Total(h) \in Int /\ -Total(p) \in Int  BY <1>7
  <2>2. Same(a + (-Total(p)), (0 - Total(h)) + (-Total(p)))  BY <1>6, <1>9, <2>1, SameSteps
  <2>3. a + (-Total(p)) = a - Total(p) /\ (0 - Total(h)) + (-Total(p)) = 0 - (Total(h) + Total(p))
    BY <1>7, <1>9
  <2>4. Words(m) = Total(h) + Total(p)  BY DEF Words, h, p
  <2>5. QED  BY <2>2, <2>3, <2>4
<1>11. Words(m) \in Nat  BY <1>7 DEF Words, h, p
<1>12. Same(b, 0 - Words(m))
  <2>1. a - Total(p) \in Int /\ 0 - Words(m) \in Int  BY <1>7, <1>9, <1>11
  <2>2. QED  BY <1>8, <1>9, <1>10, <2>1, SameSteps
<1>13. checksum_of(m) = IF b = 0 THEN Whole ELSE b
  BY DEF checksum_of, Whole, b, a, h, p
<1> HIDE DEF b
<1>14. CASE b # 0  BY <1>1, <1>9, <1>12, <1>13, <1>14
<1>15. CASE b = 0
  <2>1. checksum_of(m) = Whole  BY <1>13, <1>15
  <2>2. Same(Whole, b)
    <3>1. Whole = b + 1 * Whole /\ 1 \in Int  BY <1>1, <1>15
    <3>2. QED  BY <3>1 DEF Same
  <2>3. Same(Whole, 0 - Words(m))
    <3>1. Whole \in Int /\ 0 - Words(m) \in Int  BY <1>1, <1>11
    <3>2. QED  BY <1>9, <1>12, <2>2, <3>1, SameSteps
  <2>4. QED  BY <1>1, <2>1, <2>3
<1>16. QED  BY <1>14, <1>15

\* A cast with its checksum comes to 0, and with any byte damaged it does not.
LEMMA CastVerifies ==
  ASSUME NEW m \in Messages, Cursor(m) + Len(payload(m)) <= 2 * Base
  PROVE  checksum_ipv4(0, Cast(m, checksum_of(m))) = 0
<1> DEFINE c == checksum_of(m)
           d == Cast(m, c)
           x == checksum_ipv4(0, d)
<1>1. Whole \in Nat /\ Whole >= 15  BY WholeIs
<1>2. c \in Short /\ c \in 1 .. Whole /\ Same(c, 0 - Words(m))  BY ChecksumOf
<1> HIDE DEF c
<1>3. /\ d \in Seq(Octet) /\ Words(m) \in Nat /\ Len(d) <= 2 * Base
      /\ Total(d) = Words(m) + c
  BY <1>2, CastTotal
<1> HIDE DEF d
<1>4. 0 \in Checks  BY <1>1 DEF Checks
<1>5. x \in Checks /\ Same(x, 0 - Total(d))  BY <1>3, <1>4, Checksum
<1> HIDE DEF x
<1>6. x \in Int /\ x >= 0 /\ x < Whole /\ c \in Int  BY <1>1, <1>2, <1>5 DEF Checks
<1>7. Same(0 - Total(d), 0)
  <2> DEFINE w == 0 - Words(m)
  <2>1. w \in Int  BY <1>3
  <2>2. Same(w - c, w - w)  BY <1>2, <1>6, <2>1, SameSteps
  <2>3. w - c = 0 - Total(d) /\ w - w = 0  BY <1>3, <1>6
  <2> HIDE DEF w
  <2>4. QED  BY <2>2, <2>3
<1>8. Same(x, 0)
  <2>1. 0 - Total(d) \in Int  BY <1>3, <1>6
  <2>2. QED  BY <1>5, <1>6, <1>7, <2>1, SameSteps
<1>9. x = 0  BY <1>1, <1>6, <1>8, SameIsZero
<1>10. QED  BY <1>9 DEF x, d, c

\* A byte that is damaged is less than Whole, and so is seen in the checksum.
LEMMA DamageFails ==
  ASSUME NEW m \in Messages, Cursor(m) + Len(payload(m)) <= 2 * Base,
         NEW i \in 1 .. Len(Cast(m, checksum_of(m))), NEW b \in Octet, b # Cast(m, checksum_of(m))[i]
  PROVE  checksum_ipv4(0, [Cast(m, checksum_of(m)) EXCEPT ![i] = b]) # 0
<1> DEFINE c == checksum_of(m)
           d == Cast(m, c)
           e == [d EXCEPT ![i] = b]
           x == checksum_ipv4(0, e)
           change == (b - d[i]) * Weight(i)
<1>1. Whole \in Nat /\ Whole >= 15 /\ Whole = (Base - 1) * (Base + 1)  BY WholeIs
<1>2. c \in Short /\ c \in 1 .. Whole /\ Same(c, 0 - Words(m))  BY ChecksumOf
<1>3. /\ d \in Seq(Octet) /\ Words(m) \in Nat /\ Len(d) <= 2 * Base
      /\ Total(d) = Words(m) + c
  <2> HIDE DEF c
  <2>1. QED  BY <1>2, CastTotal
<1>4. i \in 1 .. Len(d) /\ b # d[i]  OBVIOUS
<1> HIDE DEF c, d
<1>5. e \in Seq(Octet) /\ Len(e) = Len(d) /\ Total(e) = Total(d) + change
  BY <1>3, <1>4, TotalChange
<1>6. 0 \in Checks  BY <1>1 DEF Checks
<1> HIDE DEF e
<1>7. x \in Checks /\ Same(x, 0 - Total(e))  BY <1>3, <1>5, <1>6, Checksum
<1>8. b - d[i] \in Int /\ b - d[i] # 0 /\ b - d[i] <= Base - 1 /\ -(Base - 1) <= b - d[i]
  <2>1. d[i] \in Octet  BY <1>3, <1>4
  <2>2. QED  BY <1>4, <2>1, OctetAssumption DEF Octet
<1>9. change \in Int /\ change # 0 /\ -Whole < change /\ change < Whole
  <2> DEFINE y == b - d[i]
  <2>1. y \in Int /\ y # 0 /\ y <= Base - 1 /\ -(Base - 1) <= y  BY <1>8
  <2> HIDE DEF y
  <2>2. CASE i % 2 = 1
    <3>1. change = y * Base  BY <2>2 DEF Weight, y
    <3>2. Whole = (Base - 1) * Base + (Base - 1)  BY <1>1, OctetAssumption
    <3>3. y * Base <= (Base - 1) * Base /\ -((Base - 1) * Base) <= y * Base
      <4>1. \A k \in Nat : k * Base \in Nat  BY OctetAssumption
      <4>2. (Base - 1) - y \in Nat /\ y + (Base - 1) \in Nat  BY <2>1, OctetAssumption
      <4>3. ((Base - 1) - y) * Base \in Nat /\ (y + (Base - 1)) * Base \in Nat  BY <4>1, <4>2
      <4>4. ((Base - 1) - y) * Base = (Base - 1) * Base - y * Base
            /\ (y + (Base - 1)) * Base = y * Base + (Base - 1) * Base
            /\ y * Base \in Int /\ (Base - 1) * Base \in Int
        BY <2>1, OctetAssumption
      <4>5. QED  BY <4>3, <4>4
    <3>4. y * Base # 0  BY <2>1, OctetAssumption
    <3>5. y * Base \in Int /\ (Base - 1) * Base \in Int  BY <2>1, OctetAssumption
    <3>6. QED  BY <1>1, <3>1, <3>2, <3>3, <3>4, <3>5, OctetAssumption
  <2>3. CASE i % 2 # 1
    <3>1. change = y
      <4>1. change = y * 1  BY <2>3 DEF Weight, y
      <4>2. QED  BY <2>1, <4>1
    <3>2. Whole >= Base
      <4>1. Whole = (Base - 1) * Base + (Base - 1)  BY <1>1, OctetAssumption
      <4>2. PICK k \in Nat : Base - 1 = k + 1
        <5>1. Base - 2 \in Nat /\ Base - 1 = (Base - 2) + 1  BY OctetAssumption
        <5>2. QED  BY <5>1
      <4>3. (Base - 1) * Base = k * Base + Base /\ k * Base \in Nat  BY <4>2, OctetAssumption
      <4>4. QED  BY <4>1, <4>3, OctetAssumption
    <3>3. QED  BY <1>1, <2>1, <3>1, <3>2, OctetAssumption
  <2>4. QED  BY <2>2, <2>3
<1> HIDE DEF x, change
<1>10. SUFFICES ASSUME x = 0 PROVE FALSE  BY DEF x, e, d, c
<1>11. c \in Int  BY <1>1, <1>2
<1>12. Same(change, 0)
  <2> DEFINE t == Words(m) + c
             w == 0 - Words(m)
             u == 0 - Total(e)
  <2>1. t \in Int /\ w \in Int /\ u \in Int /\ u = w - (c + change) /\ 0 \in Int
    BY <1>3, <1>5, <1>9, <1>11
  <2>2. Same(u, 0)  BY <1>7, <1>10, <2>1, SameSteps
  <2>3. Same(c + change, w + change)  BY <1>2, <1>9, <1>11, <2>1, SameSteps
  <2>4. c + change \in Int /\ w + change \in Int  BY <1>9, <1>11, <2>1
  <2>5. Same(w - (c + change), w - (w + change))
    <3> DEFINE a == c + change
               k == w + change
    <3>1. a \in Int /\ k \in Int /\ w \in Int /\ Same(a, k)  BY <2>1, <2>3, <2>4
    <3> HIDE DEF a, k, w
    <3>2. Same(w - a, w - k)  BY <3>1, SameSteps
    <3>3. QED  BY <3>2 DEF a, k
  <2>6. Same(u, -change)
    <3>1. w - (w + change) = -change  BY <1>9, <2>1
    <3>2. QED  BY <2>1, <2>5, <3>1
  <2> HIDE DEF u, w, t
  <2>7. Same(-change, u) /\ -change \in Int  BY <1>9, <2>1, <2>6, SameSteps
  <2>8. Same(-change, 0)  BY <2>1, <2>2, <2>7, SameSteps
  <2>9. Same(0 - (-change), 0 - 0)  BY <2>1, <2>7, <2>8, SameSteps
  <2>10. QED  BY <1>9, <2>9
<1>13. QED  BY <1>1, <1>9, <1>12, SameIsZero

\* A length is a number.
LEMMA NaturalIsNat ==
  ASSUME NEW octets \in Seq(Octet)
  PROVE  natural_of(octets) \in Nat
<1> DEFINE n == Len(octets)
           g == integer_after(0, octets)
<1>1. /\ n \in Nat /\ g[0] = 0
      /\ \A i \in 1 .. n : g[i] = g[i - 1] * Base + octets[i]
  BY IntegerAfter
<1>2. \A i \in 1 .. n : octets[i] \in Nat
  <2>1. \A i \in 1 .. n : octets[i] \in Octet  OBVIOUS
  <2>2. QED  BY <2>1, OctetAssumption DEF Octet
<1> HIDE DEF n, g
<1>3. ASSUME NEW i \in 1 .. n, g[i - 1] \in Nat PROVE g[i] \in Nat
  <2>1. g[i - 1] * Base \in Nat  BY <1>3, OctetAssumption
  <2>2. QED  BY <1>1, <1>2, <2>1
<1>4. \A i \in 0 .. n : g[i] \in Nat
  <2>1. n \in Nat /\ g[0] \in Nat  BY <1>1
  <2>2. QED  BY <1>3, <2>1, LoopKeeps
<1>5. QED  BY <1>1, <1>4 DEF natural_of, n, g

\* Where a value ends, whatever the octets are.
LEMMA AnyEnd ==
  ASSUME NEW x \in Seq(Octet), NEW offset \in Nat, offset + Base <= Len(x)
  PROVE  /\ asn_octets_unbox(x, offset)[2] \in Nat
         /\ asn_octets_unbox(x, offset)[2] >= offset + 2
         /\ x[offset + 2] > Sign =>
              asn_octets_unbox(x, offset)[2] >= offset + 2 + (x[offset + 2] - Sign)
<1> DEFINE first == x[offset + 2]
           size == first - Sign
           s == SubSeq(x, offset + 3, offset + 2 + size)
           content == asn_octets_to_length(x, offset + 1)
<1>1. Len(x) \in Nat  OBVIOUS
<1>2. first \in Octet /\ first \in Nat /\ first < Base
  <2>1. offset + 2 \in 1 .. Len(x)  BY <1>1, OctetAssumption
  <2>2. first \in Octet  BY <2>1
  <2>3. QED  BY <2>2, OctetAssumption DEF Octet
<1>3. content = IF first > Sign THEN <<natural_of(s), offset + 2 + size>> ELSE <<first, offset + 2>>
  <2>1. (offset + 1) + 1 = offset + 2 /\ (offset + 1) + 2 = offset + 3
        /\ \A k \in Int : ((offset + 1) + 1) + k = offset + 2 + k /\ (offset + 1) + k + 1 = offset + 2 + k
    OBVIOUS
  <2>2. size \in Int  BY <1>2, Signs
  <2> HIDE DEF size
  <2>3. content = IF first > Sign
                  THEN <<natural_of(SubSeq(x, (offset + 1) + 2, (offset + 1) + 1 + size)),
                         (offset + 1) + size + 1>>
                  ELSE <<first, (offset + 1) + 1>>
    BY <2>1 DEF asn_octets_to_length, size
  <2>4. QED  BY <2>1, <2>2, <2>3
<1>4. asn_octets_unbox(x, offset)[2] = content[2] + content[1]  BY DEF asn_octets_unbox
<1> HIDE DEF content
<1>5. CASE first > Sign
  <2>1. s \in Seq(Octet)
    <3>1. size \in Nat /\ size >= 1 /\ offset + 2 + size <= Len(x) /\ offset + 3 >= 1
      BY <1>1, <1>2, <1>5, Signs
    <3> HIDE DEF size
    <3>2. \A i \in 1 .. Len(x) : x[i] \in Octet  OBVIOUS
    <3>3. QED  BY <1>1, <3>1, <3>2
  <2>2. natural_of(s) \in Nat  BY <2>1, NaturalIsNat
  <2>3. size \in Nat  BY <1>2, <1>5, Signs
  <2> HIDE DEF size, s
  <2>4. content[2] + content[1] = offset + 2 + size + natural_of(s)  BY <1>3, <1>5, <2>2, <2>3
  <2>5. content[2] + content[1] \in Nat /\ content[2] + content[1] >= offset + 2 + size
    BY <2>2, <2>3, <2>4
  <2>6. QED  BY <1>4, <2>3, <2>5 DEF size
<1>6. CASE ~(first > Sign)
  <2>1. content[2] + content[1] = offset + 2 + first  BY <1>3, <1>6
  <2>2. QED  BY <1>2, <1>4, <1>6, <2>1
<1>7. QED  BY <1>5, <1>6

\* What is cut off is not found in the memory that follows: a payload never
\* ends where the datagram does.
LEMMA TruncatedIsDiscarded ==
  ASSUME NEW m \in Messages, NEW d, Carries(d, m), NEW n \in 0 .. Len(d) - 1, NEW memory \in Memories
  PROVE  dispatch_message(SubSeq(d, 1, n), SubSeq(d, 1, n) \o memory) = NoMessage
<1> DEFINE p == payload(m)
           cursor == Cursor(m)
           t == SubSeq(d, 1, n)
           x == t \o memory
           span == sequence_span(m.fields)
           length == fill_length_octets(span)
           s == ufixnum_octets[span]
           content == fields_octets(m.fields)[Len(m.fields)]
           from == IF x[3] = 1 THEN 10 ELSE 6
           end == asn_octets_unbox(x, from)[2]
<1>1. p \in Seq(Octet) /\ Len(p) = asn_span(span) /\ p = sequence_into_octets(m.fields)
      /\ m.fields \in Seq(Fixnum)
  BY MessageParts
<1>2. cursor \in {6, 10}  BY DEF Cursor
<1>3. d \in Seq(Octet) /\ Len(d) = cursor + Len(p) /\ Occurs(d, cursor, p) /\ d[3] = version(m)
  BY DEF Carries
<1>4. Len(p) \in Nat /\ Len(d) \in Nat  BY <1>1, <1>3
<1>5. n \in Nat /\ n < Len(d)  BY <1>4
<1>6. t \in Seq(Octet) /\ Len(t) = n /\ \A i \in 1 .. n : t[i] = d[i]
  BY <1>3, <1>5
<1>7. memory \in Seq(Octet) /\ Len(memory) >= Base + 10 /\ Len(memory) \in Nat
  BY MemoriesAssumption
<1> HIDE DEF p, t
<1>8. x \in Seq(Octet) /\ Len(x) = n + Len(memory) /\ \A i \in 1 .. n : x[i] = d[i]
  <2> HIDE DEF x
  <2>1. x \in Seq(Octet) /\ Len(x) = Len(t) + Len(memory)
        /\ \A i \in 1 .. Len(t) + Len(memory) : x[i] = IF i <= Len(t) THEN t[i] ELSE memory[i - Len(t)]
    BY <1>6, <1>7, ConcatProperties DEF x
  <2>2. \A i \in 1 .. n : i \in 1 .. n + Len(memory) /\ i <= n  BY <1>5, <1>7
  <2>3. QED  BY <1>6, <2>1, <2>2
<1> HIDE DEF x
<1>9. from \in {6, 10}  OBVIOUS
<1> HIDE DEF from
<1>10. /\ end \in Nat /\ end >= from + 2
       /\ x[from + 2] > Sign => end >= from + 2 + (x[from + 2] - Sign)
  <2>1. from \in Nat /\ from + Base <= Len(x)  BY <1>5, <1>7, <1>8, <1>9, OctetAssumption
  <2>2. QED  BY <1>8, <2>1, AnyEnd
<1> HIDE DEF end
<1>11. SUFFICES ASSUME end = n PROVE FALSE
  BY <1>6, <1>11 DEF dispatch_message, end, from, t, x
<1>12. n >= from + 2 /\ n >= 8  BY <1>9, <1>10, <1>11
<1>13. x[3] = version(m)
  <2>1. 3 \in 1 .. n  BY <1>5, <1>12
  <2>2. QED  BY <1>3, <1>8, <2>1
<1>14. from = cursor  BY <1>13 DEF from, version, Cursor
<1>15. /\ span \in Nat /\ <<Sequence>> \in Seq(Nat) /\ length \in Seq(Nat) /\ content \in Seq(Nat)
       /\ p = <<Sequence>> \o (length \o content)
       /\ asn_span(span) = 1 + asn_length_span(span) + span
  BY <1>1, PayloadIs
<1>16. Len(length) = asn_length_span(span) /\ asn_length_span(span) \in Nat  BY <1>15, LengthOctets
<1> HIDE DEF length, content, span
<1>17. Occurs(d, cursor + 1, length)
  <2>1. Occurs(d, cursor, <<Sequence>> \o (length \o content))  BY <1>3, <1>15
  <2>2. Len(<<Sequence>>) = 1 /\ length \o content \in Seq(Nat)  BY <1>15
  <2>3. cursor \in Nat /\ cursor + 1 \in Nat  BY <1>2
  <2> HIDE DEF cursor
  <2>4. Occurs(d, cursor + Len(<<Sequence>>), length \o content)
    BY <1>15, <2>1, <2>2, <2>3, OccursConcat
  <2>5. Occurs(d, cursor + 1, length \o content)  BY <2>2, <2>4
  <2>6. QED  BY <1>15, <2>3, <2>5, OccursConcat
<1>18. CASE n >= cursor + 1 + Len(length)
  <2>1. Occurs(x, cursor + 1, length)
    <3>1. ASSUME NEW i \in 1 .. Len(length) PROVE x[(cursor + 1) + i] = length[i]
      <4>1. (cursor + 1) + i \in 1 .. n  BY <1>2, <1>5, <1>16, <1>18
      <4>2. x[(cursor + 1) + i] = d[(cursor + 1) + i]  BY <1>8, <4>1
      <4>3. QED  BY <1>17, <4>2 DEF Occurs
    <3>2. QED  BY <3>1 DEF Occurs
  <2>2. asn_octets_unbox(x, cursor) = <<span, cursor + asn_span(span)>>
    <3>1. cursor \in Nat  BY <1>2
    <3> HIDE DEF cursor
    <3>2. QED  BY <1>15, <2>1, <3>1, UnboxReturns DEF length
  <2>3. end = Len(d)
    <3>1. Len(p) = asn_span(span)  BY <1>1 DEF span
    <3>2. QED  BY <1>3, <1>14, <2>2, <3>1 DEF end
  <2>4. QED  BY <1>5, <1>11, <2>3
<1>19. CASE n < cursor + 1 + Len(length)
  <2>1. ~(span <= Sign - 1)
    <3>1. SUFFICES ASSUME span <= Sign - 1 PROVE FALSE  OBVIOUS
    <3>2. asn_length_span(span) = 1  BY <3>1 DEF asn_length_span
    <3>3. QED  BY <1>2, <1>5, <1>12, <1>14, <1>16, <1>19, <3>2
  <2>2. length = <<Sign + Len(s)>> \o s /\ asn_length_span(span) = 1 + Len(s)
    BY <2>1 DEF fill_length_octets, asn_length_span, length
  <2>3. s \in Seq(Octet) /\ Len(s) \in Nat /\ Len(s) >= 1
    BY <1>15, UfixnumOctets, NaturalSpanIsLength
  <2>4. length[1] = Sign + Len(s) /\ 1 \in 1 .. Len(length)
    <3> DEFINE k == Sign + Len(s)
    <3>1. k \in Nat /\ s \in Seq(Nat)
      <4>1. \A o \in Octet : o \in Nat  BY OctetAssumption DEF Octet
      <4> HIDE DEF s
      <4>2. QED  BY <2>3, <4>1, Signs
    <3> HIDE DEF k, s
    <3>2. <<k>> \in Seq(Nat) /\ Len(<<k>>) = 1 /\ <<k>>[1] = k  BY <3>1
    <3>3. \A i \in 1 .. Len(<<k>>) + Len(s) :
            (<<k>> \o s)[i] = IF i <= Len(<<k>>) THEN <<k>>[i] ELSE s[i - Len(<<k>>)]
      BY <3>1, <3>2, ConcatProperties
    <3>4. 1 \in 1 .. 1 + Len(s)  BY <2>3
    <3>5. (<<k>> \o s)[1] = k  BY <3>2, <3>3, <3>4
    <3>6. QED  BY <1>16, <2>2, <2>3, <3>4, <3>5 DEF k
  <2>5. x[cursor + 2] = Sign + Len(s)
    <3>1. cursor + 2 \in 1 .. n /\ (cursor + 1) + 1 = cursor + 2  BY <1>2, <1>5, <1>12, <1>14
    <3>2. x[cursor + 2] = d[cursor + 2]  BY <1>8, <3>1
    <3>3. d[(cursor + 1) + 1] = length[1]  BY <1>17, <2>4 DEF Occurs
    <3>4. QED  BY <2>4, <3>1, <3>2, <3>3
  <2>6. end >= cursor + 2 + Len(s)
    <3>1. x[cursor + 2] > Sign /\ x[cursor + 2] - Sign = Len(s)  BY <2>3, <2>5, Signs
    <3>2. QED  BY <1>10, <1>14, <3>1
  <2>7. QED  BY <1>2, <1>5, <1>11, <1>16, <1>19, <2>2, <2>3, <2>6
<1>20. Len(length) \in Nat /\ cursor \in Nat  BY <1>2, <1>16
<1>21. QED  BY <1>5, <1>18, <1>19, <1>20

(***************************************************************************)
(* What a datagram that was cast can be when it arrives.                   *)
(***************************************************************************)
Field(m, checked) == IF checked THEN checksum_of(m) ELSE 0
Original(m, checked) == Cast(m, Field(m, checked))

ByteDamaged(d, m, checked) ==
  \E i \in 1 .. Len(Original(m, checked)), b \in Octet :
    b # Original(m, checked)[i] /\ d = [Original(m, checked) EXCEPT ![i] = b]

Shortened(d, m, checked) ==
  \E n \in 0 .. Len(Original(m, checked)) - 1 : d = SubSeq(Original(m, checked), 1, n)

Arrived ==
  sent # NoMessage =>
    IF damaged THEN ByteDamaged(datagram, sent, checksumed) \/ Shortened(datagram, sent, checksumed)
    ELSE datagram = Original(sent, checksumed)

MessageInv ==
  /\ sent \in Messages \cup {NoMessage} /\ checksumed \in BOOLEAN /\ damaged \in BOOLEAN
  /\ Arrived
  /\ stage = "over" => \E memory \in Memories : applied = Outcome(datagram, datagram \o memory)

\* 0 is an unsigned short of two octets 0.
LEMMA ZeroIsShort == 0 \in Short /\ 0 \div Base = 0 /\ 0 % Base = 0
<1>1. Base * Base \in Nat /\ Base * Base >= 1  BY WholeIs, OctetAssumption DEF Whole
<1>2. QED  BY <1>1, OctetAssumption DEF Short

\* Every checksum is a short, even one that the accumulators have no room for.
LEMMA AnyChecksum ==
  ASSUME NEW acc \in Short, NEW message \in Seq(Octet)
  PROVE  checksum_ipv4(acc, message) \in Short
<1> DEFINE sum == negated(acc)
           h == every_second(message, 1, sum \div Base)[Len(message)]
           l == every_second(message, 0, sum % Base)[Len(message)]
           H == h % (Base * Base)
           L == l % (Base * Base)
           HL == carry[<<H, L>>]
<1>1. Whole \in Nat /\ Base * Base = Whole + 1 /\ Short = 0 .. Whole
  BY WholeIs, OctetAssumption DEF Whole, Short
<1>2. sum \in Short  BY <1>1 DEF negated
<1>3. sum \div Base \in Nat /\ sum % Base \in Nat
  BY <1>2, ShortDivMod, OctetAssumption DEF Octet
<1> HIDE DEF sum
<1>4. h \in Nat /\ l \in Nat  BY <1>3, PartOffset
<1> HIDE DEF h, l
<1>5. H \in Short /\ L \in Short
  <2> DEFINE w == Base * Base
  <2>1. w \in Nat /\ w > 0 /\ Short = 0 .. w - 1  BY <1>1
  <2> HIDE DEF w
  <2>2. h % w \in 0 .. w - 1 /\ l % w \in 0 .. w - 1  BY <1>4, <2>1
  <2>3. QED  BY <2>1, <2>2 DEF w
<1>6. update_sum(sum, message) = negated(HL[1] * Base + HL[2])
  BY DEF update_sum, h, l
<1> HIDE DEF H, L
<1>7. HL \in Small
  <2>1. <<H, L>> \in Shorts  BY <1>5 DEF Shorts
  <2>2. CASE Value(<<H, L>>) > 0  BY <2>1, <2>2, Carry
  <2>3. CASE ~(Value(<<H, L>>) > 0)
    <3>1. H \in Nat /\ L \in Nat  BY <1>5, ShortDivMod
    <3>2. H * Base \in Nat /\ (H > 0 => H * Base > 0)  BY <3>1, OctetAssumption
    <3>3. H = 0 /\ L = 0  BY <2>3, <3>1, <3>2 DEF Value
    <3>4. carry[<<0, 0>>] = <<0, 0>>  BY CarryOfSmall, ZeroIsShort, OctetAssumption DEF Small, Shorts
    <3>5. QED  BY <3>3, <3>4, ZeroIsShort, OctetAssumption DEF Small, Shorts
  <2>4. QED  BY <2>2, <2>3
<1> HIDE DEF HL
<1>8. HL[1] \in Octet /\ HL[2] \in Octet
  <2>1. HL[1] \in Nat /\ HL[2] \in Nat /\ HL[1] < Base /\ HL[2] < Base
    BY <1>1, <1>7 DEF Small, Shorts
  <2>2. QED  BY <2>1, OctetAssumption DEF Octet
<1>9. HL[1] * Base + HL[2] \in Short  BY <1>8, WordIsShort
<1>10. negated(HL[1] * Base + HL[2]) \in Short
  <2> DEFINE v == HL[1] * Base + HL[2]
  <2>1. v \in 0 .. Whole  BY <1>1, <1>9
  <2> HIDE DEF v
  <2>2. negated(v) = Whole - v  BY <1>1, <2>1 DEF negated, Whole
  <2>3. negated(v) \in Short  BY <1>1, <2>1, <2>2
  <2>4. QED  BY <2>3 DEF v
<1>11. QED  BY <1>6, <1>10 DEF checksum_ipv4, sum

\* What is sent as the checksum is an unsigned short.
LEMMA FieldIsShort ==
  ASSUME NEW m \in Messages, NEW checked \in BOOLEAN
  PROVE  Field(m, checked) \in Short
<1>1. header(m, 0) \in Seq(Octet) /\ payload(m) \in Seq(Octet)  BY ZeroIsShort, Header, MessageParts
<1>2. checksum_ipv4(checksum_ipv4(0, header(m, 0)), payload(m)) \in Short
  BY <1>1, ZeroIsShort, AnyChecksum
<1>3. Base * Base - 1 \in Short  BY WholeIs DEF Whole, Short
<1>4. QED  BY <1>2, <1>3, ZeroIsShort DEF Field, checksum_of

\* A datagram that is sent has everything of its message.
LEMMA OriginalIs ==
  ASSUME NEW m \in Messages, NEW checked \in BOOLEAN
  PROVE  LET d == Original(m, checked)
         IN  /\ Carries(d, m) /\ d \in Seq(Octet) /\ Len(d) \in Nat /\ Len(d) >= 8
             /\ DOMAIN d = 1 .. Len(d) /\ Len(d) = Cursor(m) + Len(payload(m))
             /\ d[5] * Base + d[6] = Field(m, checked)
<1> DEFINE d == Original(m, checked)
           c == Field(m, checked)
<1>1. c \in Short  BY FieldIsShort
<1>2. Carries(d, m) /\ d[5] = c \div Base /\ d[6] = c % Base
  <2> HIDE DEF c
  <2>1. Carries(Cast(m, c), m) /\ Cast(m, c)[5] = c \div Base /\ Cast(m, c)[6] = c % Base
    BY <1>1, CastCarries
  <2>2. QED  BY <2>1 DEF Original, c
<1> HIDE DEF d, c
<1>3. d \in Seq(Octet) /\ Len(d) = Cursor(m) + Len(payload(m))  BY <1>2 DEF Carries
<1>4. Len(d) \in Nat /\ DOMAIN d = 1 .. Len(d)  BY <1>3
<1>5. Len(payload(m)) \in Nat /\ Len(payload(m)) >= 2
  <2> DEFINE span == sequence_span(m.fields)
  <2>1. Len(payload(m)) = asn_span(span) /\ m.fields \in Seq(Fixnum)  BY MessageParts
  <2>2. span \in Nat /\ asn_span(span) = 1 + asn_length_span(span) + span  BY <2>1, PayloadIs
  <2>3. asn_length_span(span) \in Nat /\ asn_length_span(span) >= 1  BY <2>2, LengthOctets
  <2> HIDE DEF span
  <2>4. QED  BY <2>1, <2>2, <2>3
<1>6. Len(d) >= 8  BY <1>3, <1>4, <1>5 DEF Cursor
<1>7. d[5] * Base + d[6] = c  BY <1>1, <1>2, ShortDivMod
<1>8. QED  BY <1>2, <1>3, <1>4, <1>6, <1>7 DEF d, c

\* There is no message at first.
LEMMA MessageInvInit == MessageInit => MessageInv
  BY DEF MessageInit, MessageInv, Arrived

\* Every action keeps the relation between the datagram and the message it was made of.
LEMMA MessageInvStep == MessageInv /\ [MessageNext]_messageVars => MessageInv'
<1> SUFFICES ASSUME MessageInv, [MessageNext]_messageVars PROVE MessageInv'  OBVIOUS
<1>1. ASSUME NEW m \in Messages, NEW checked \in BOOLEAN, slang_do_cast(m, checked) PROVE MessageInv'
  BY <1>1 DEF slang_do_cast, MessageInv, Arrived, Original, Cast, Field
<1>2. ASSUME NEW i \in DOMAIN datagram, NEW b \in Damages, Damage(i, b) PROVE MessageInv'
  <2> DEFINE d == Original(sent, checksumed)
  <2>1. sent \in Messages /\ checksumed \in BOOLEAN /\ datagram = d
    BY <1>2 DEF Damage, MessageInv, Arrived
  <2>2. i \in 1 .. Len(d)  BY <2>1, OriginalIs
  <2>3. b \in Octet /\ b # d[i] /\ datagram' = [d EXCEPT ![i] = b]
    BY <1>2, <2>1, FieldsAssumption DEF Damage
  <2>4. ByteDamaged(datagram', sent, checksumed)
    <3> HIDE DEF d
    <3>1. \E j \in 1 .. Len(d), c \in Octet : c # d[j] /\ datagram' = [d EXCEPT ![j] = c]
      BY <2>2, <2>3
    <3>2. QED  BY <3>1 DEF ByteDamaged, d
  <2>5. QED  BY <1>2, <2>1, <2>4 DEF Damage, MessageInv, Arrived
<1>3. ASSUME NEW n \in 0 .. Len(datagram), Truncate(n) PROVE MessageInv'
  <2> DEFINE d == Original(sent, checksumed)
  <2>1. sent \in Messages /\ checksumed \in BOOLEAN /\ datagram = d
    BY <1>3 DEF Truncate, MessageInv, Arrived
  <2>2. Len(d) \in Nat  BY <2>1, OriginalIs
  <2>3. n \in 0 .. Len(d) - 1 /\ datagram' = SubSeq(d, 1, n)
    <3> HIDE DEF d
    <3>1. n < Len(d) /\ datagram' = SubSeq(d, 1, n)  BY <1>3, <2>1 DEF Truncate
    <3>2. n \in 0 .. Len(d)  BY <2>1
    <3>3. QED  BY <2>2, <3>1, <3>2
  <2>4. Shortened(datagram', sent, checksumed)  BY <2>3 DEF Shortened
  <2>5. QED  BY <1>3, <2>1, <2>4 DEF Truncate, MessageInv, Arrived
<1>4. ASSUME NEW d \in Foreign, ForeignCast(d) PROVE MessageInv'
  BY <1>4 DEF ForeignCast, MessageInv, Arrived
<1>5. ASSUME NEW memory \in Memories, on_message(memory) PROVE MessageInv'
  BY <1>5 DEF on_message, MessageInv, Arrived
<1>6. CASE UNCHANGED messageVars
  BY <1>6 DEF messageVars, MessageInv, Arrived
<1>7. QED  BY <1>1, <1>2, <1>3, <1>4, <1>5, <1>6 DEF MessageNext

\* The relation holds in every state.
LEMMA MessageInvHolds == MessageSpec => []MessageInv
  BY MessageInvInit, MessageInvStep, PTL DEF MessageSpec

\* The octets of a payload have the size for which memory has been allocated.
THEOREM SpanAlwaysSuffices == MessageSpec => []SpanSuffices
<1>1. MessageInv => SpanSuffices
  BY MessageParts DEF MessageInv, SpanSuffices
<1>2. QED  BY <1>1, MessageInvHolds, PTL

\* The memory behind a datagram does not change its bytes.
LEMMA MemoryBehind ==
  ASSUME NEW d \in Seq(Octet), NEW memory \in Memories
  PROVE  \A i \in 1 .. Len(d) : (d \o memory)[i] = d[i]
<1>1. memory \in Seq(Octet) /\ Len(memory) \in Nat  BY MemoriesAssumption
<1>2. \A i \in 1 .. Len(d) + Len(memory) :
        (d \o memory)[i] = IF i <= Len(d) THEN d[i] ELSE memory[i - Len(d)]
  BY <1>1, ConcatProperties
<1>3. Len(d) \in Nat  OBVIOUS
<1>4. QED  BY <1>1, <1>2, <1>3

\* What arrives as it was sent is discarded or is what was sent.
LEMMA UndamagedOutcome ==
  ASSUME NEW m \in Messages, NEW checked \in BOOLEAN, NEW memory \in Memories
  PROVE  LET d == Original(m, checked)
             x == d \o memory
         IN  Outcome(d, x) = IF Verified(d, x) THEN Expected(m) ELSE NoMessage
<1> DEFINE d == Original(m, checked)
           x == d \o memory
<1>1. Carries(d, m) /\ d \in Seq(Octet) /\ Len(d) \in Nat /\ Len(d) >= 8  BY OriginalIs
<1> HIDE DEF d
<1>2. \A i \in 1 .. Len(d) : x[i] = d[i]  BY <1>1, MemoryBehind
<1> HIDE DEF x
<1>3. dispatch_message(d, x) = Expected(m)  BY <1>1, <1>2, Dispatched
<1>4. Accepted(d, x)  BY <1>1 DEF Accepted
<1>5. Outcome(d, x) = IF Verified(d, x) THEN Expected(m) ELSE NoMessage
  BY <1>3, <1>4 DEF Outcome
<1>6. QED  BY <1>5 DEF d, x

\* The fields that a peer extracts from the payload are those that were cast,
\* but for the negative ones in the lower half of the room of their octets,
\* which fill_fixnum_octets leaves without a sign.
THEOREM FieldsAlwaysReturn == MessageSpec => []FieldsReturn
<1>1. MessageInv => FieldsReturn
  <2> SUFFICES ASSUME MessageInv, Answered, ~damaged, applied # NoMessage
               PROVE  sequence_from_octets(applied.payload, 0, Len(sent.fields))
                        = <<AllReturned(sent.fields), Len(applied.payload)>>
    BY DEF FieldsReturn, AllReturned
  <2>1. sent \in Messages /\ checksumed \in BOOLEAN /\ sent # NoMessage
        /\ datagram = Original(sent, checksumed)
    BY DEF MessageInv, Arrived, Answered
  <2>2. PICK memory \in Memories : applied = Outcome(datagram, datagram \o memory)
    BY DEF MessageInv, Answered
  <2>3. applied = Expected(sent)  BY <2>1, <2>2, UndamagedOutcome
  <2>4. applied.payload = payload(sent)  BY <2>3 DEF Expected
  <2> DEFINE p == payload(sent)
             f == sent.fields
             span == sequence_span(f)
  <2>5. f \in Seq(Fixnum) /\ p = sequence_into_octets(f) /\ Len(p) = asn_span(span)
    BY <2>1, MessageParts
  <2> HIDE DEF p, f
  <2>7. Occurs(p, 0, sequence_into_octets(f))
    <3>1. \A i \in 1 .. Len(p) : p[0 + i] = p[i]  OBVIOUS
    <3>2. QED  BY <2>5, <3>1 DEF Occurs
  <2>8. 0 \in Nat  OBVIOUS
  <2>9. sequence_from_octets(p, 0, Len(f)) = <<AllReturned(f), 0 + asn_span(span)>>
    BY <2>5, <2>7, <2>8, FieldsReturnFrom
  <2>10. asn_span(span) \in Nat
    <3>1. span \in Nat /\ asn_span(span) = 1 + asn_length_span(span) + span  BY <2>5, PayloadIs
    <3>2. asn_length_span(span) \in Nat  BY <3>1, LengthOctets
    <3> HIDE DEF span
    <3>3. QED  BY <3>1, <3>2
  <2>11. QED  BY <2>4, <2>5, <2>9, <2>10 DEF p, f
<1>2. QED  BY <1>1, MessageInvHolds, PTL

\* The accumulators have room for the words of the message, if they are added.
WordsFit == sent # NoMessage /\ checksumed => Cursor(sent) + Len(payload(sent)) <= 2 * Base

\* The checksum of a datagram that is not damaged comes to 0.
LEMMA UndamagedVerifies ==
  ASSUME NEW m \in Messages, NEW checked \in BOOLEAN, NEW memory \in Memories,
         checked => Cursor(m) + Len(payload(m)) <= 2 * Base
  PROVE  Verified(Original(m, checked), Original(m, checked) \o memory)
<1> DEFINE d == Original(m, checked)
           x == d \o memory
<1>1. CASE checked
  <2>1. checksum_ipv4(0, Cast(m, checksum_of(m))) = 0  BY <1>1, CastVerifies
  <2>2. d = Cast(m, checksum_of(m))  BY <1>1 DEF Original, Field
  <2>3. QED  BY <2>1, <2>2 DEF Verified
<1>2. CASE ~checked
  <2>1. d \in Seq(Octet) /\ Len(d) \in Nat /\ Len(d) >= 8 /\ d[5] * Base + d[6] = 0
    BY <1>2, OriginalIs DEF Field
  <2> HIDE DEF d
  <2>2. \A i \in 1 .. Len(d) : x[i] = d[i]  BY <2>1, MemoryBehind
  <2>3. 5 \in 1 .. Len(d) /\ 6 \in 1 .. Len(d)  BY <2>1
  <2> HIDE DEF x
  <2>4. x[5] = d[5] /\ x[6] = d[6]  BY <2>2, <2>3
  <2>5. Verified(d, x)  BY <2>1, <2>4 DEF Verified, bigendian_uint16_ref
  <2>6. QED  BY <2>5 DEF d, x
<1>3. QED  BY <1>1, <1>2

\* The peers are given what was cast, if the accumulators have room for it.
THEOREM CastIsAlwaysApplied == MessageSpec => [](WordsFit => CastIsApplied)
<1>1. MessageInv => (WordsFit => CastIsApplied)
  <2> SUFFICES ASSUME MessageInv, WordsFit, Answered, ~damaged PROVE applied = Expected(sent)
    BY DEF CastIsApplied
  <2>1. sent \in Messages /\ checksumed \in BOOLEAN /\ sent # NoMessage
        /\ datagram = Original(sent, checksumed)
    BY DEF MessageInv, Arrived, Answered
  <2>2. PICK memory \in Memories : applied = Outcome(datagram, datagram \o memory)
    BY DEF MessageInv, Answered
  <2>3. checksumed => Cursor(sent) + Len(payload(sent)) <= 2 * Base  BY <2>1 DEF WordsFit
  <2>4. Verified(datagram, datagram \o memory)  BY <2>1, <2>3, UndamagedVerifies
  <2>5. QED  BY <2>1, <2>2, <2>4, UndamagedOutcome
<1>2. QED  BY <1>1, MessageInvHolds, PTL

\* Only a byte of the checksum itself can be damaged unnoticed: when nothing is
\* left of it.
LEMMA DamagedOutcome ==
  ASSUME NEW m \in Messages, Cursor(m) + Len(payload(m)) <= 2 * Base,
         NEW d, ByteDamaged(d, m, TRUE), NEW memory \in Memories
  PROVE  Outcome(d, d \o memory) \in {NoMessage, Expected(m)}
<1> DEFINE o == Original(m, TRUE)
           x == d \o memory
<1>1. /\ Carries(o, m) /\ o \in Seq(Octet) /\ Len(o) \in Nat /\ Len(o) >= 8
      /\ o[5] * Base + o[6] = Field(m, TRUE)
  BY OriginalIs
<1>2. o = Cast(m, checksum_of(m)) /\ Field(m, TRUE) = checksum_of(m)  BY DEF Original, Field
<1>3. PICK i \in 1 .. Len(o), b \in Octet : b # o[i] /\ d = [o EXCEPT ![i] = b]
  BY DEF ByteDamaged
<1>4. checksum_ipv4(0, d) # 0  BY <1>2, <1>3, DamageFails
<1> HIDE DEF o
<1>5. d \in Seq(Octet) /\ Len(d) = Len(o) /\ \A j \in 1 .. Len(o) : d[j] = IF j = i THEN b ELSE o[j]
  BY <1>1, <1>3
<1>6. \A j \in 1 .. Len(d) : x[j] = d[j]  BY <1>5, MemoryBehind
<1> HIDE DEF x
<1>7. ASSUME Verified(d, x) PROVE dispatch_message(d, x) = Expected(m)
  <2>1. x[5] * Base + x[6] = 0  BY <1>4, <1>7 DEF Verified, bigendian_uint16_ref
  <2>2. i \in {5, 6}
    <3>1. SUFFICES ASSUME i \notin {5, 6} PROVE FALSE  OBVIOUS
    <3>2. 5 \in 1 .. Len(o) /\ 6 \in 1 .. Len(o)  BY <1>1
    <3>3. x[5] = o[5] /\ x[6] = o[6]  BY <1>5, <1>6, <3>1, <3>2
    <3>4. checksum_of(m) \in 1 .. Whole  BY ChecksumOf
    <3>5. checksum_of(m) = 0  BY <1>1, <1>2, <2>1, <3>3
    <3>6. QED  BY <3>4, <3>5
  <2>3. Carries(d, m)
    <3> DEFINE cursor == Cursor(m)
    <3>1. \A j \in 1 .. Len(o) : j \notin {5, 6} => d[j] = o[j]  BY <1>5, <2>2
    <3>2. cursor \in {6, 10} /\ (m.port # 0 => cursor = 10)  BY DEF Cursor
    <3>3. /\ Len(o) = cursor + Len(payload(m)) /\ Occurs(o, cursor, payload(m))
          /\ o[1] = Magic[1] /\ o[2] = Magic[2] /\ o[3] = version(m) /\ o[4] = m.type
          /\ m.port # 0 => /\ o[7] = m.transaction \div Base /\ o[8] = m.transaction % Base
                           /\ o[9] = m.port \div Base /\ o[10] = m.port % Base
      BY <1>1 DEF Carries
    <3>4. Len(payload(m)) \in Nat
      <4>1. payload(m) \in Seq(Octet)  BY MessageParts
      <4>2. QED  BY <4>1
    <3> HIDE DEF cursor
    <3>5. Occurs(d, cursor, payload(m))
      <4>1. ASSUME NEW j \in 1 .. Len(payload(m)) PROVE d[cursor + j] = payload(m)[j]
        <5>1. cursor + j \in 1 .. Len(o) /\ cursor + j \notin {5, 6}  BY <1>1, <3>2, <3>3, <3>4
        <5>2. d[cursor + j] = o[cursor + j]  BY <3>1, <5>1
        <5>3. QED  BY <3>3, <5>2 DEF Occurs
      <4>2. QED  BY <4>1 DEF Occurs
    <3>6. d[1] = o[1] /\ d[2] = o[2] /\ d[3] = o[3] /\ d[4] = o[4]
      <4>1. 1 \in 1 .. Len(o) /\ 2 \in 1 .. Len(o) /\ 3 \in 1 .. Len(o) /\ 4 \in 1 .. Len(o)
        BY <1>1
      <4>2. QED  BY <3>1, <4>1
    <3>7. ASSUME m.port # 0 PROVE d[7] = o[7] /\ d[8] = o[8] /\ d[9] = o[9] /\ d[10] = o[10]
      <4>1. Len(o) >= 10  BY <3>2, <3>3, <3>4, <3>7
      <4>2. 7 \in 1 .. Len(o) /\ 8 \in 1 .. Len(o) /\ 9 \in 1 .. Len(o) /\ 10 \in 1 .. Len(o)
        BY <1>1, <4>1
      <4>3. QED  BY <3>1, <4>2
    <3>8. QED  BY <1>5, <3>3, <3>5, <3>6, <3>7 DEF Carries, cursor
  <2>4. QED  BY <1>6, <2>3, Dispatched
<1>8. Outcome(d, x) \in {NoMessage, Expected(m)}  BY <1>7 DEF Outcome
<1>9. QED  BY <1>8 DEF x

\* A checksum catches every damaged byte and every truncated message, if the
\* accumulators have room for the message.
THEOREM DamageIsAlwaysNoticed == MessageSpec => [](WordsFit => DamageIsNoticed)
<1>1. MessageInv => (WordsFit => DamageIsNoticed)
  <2> SUFFICES ASSUME MessageInv, WordsFit, Answered, damaged, checksumed
               PROVE  applied \in {NoMessage, Expected(sent)}
    BY DEF DamageIsNoticed
  <2>1. /\ sent \in Messages /\ checksumed = TRUE /\ sent # NoMessage
        /\ ByteDamaged(datagram, sent, TRUE) \/ Shortened(datagram, sent, TRUE)
    BY DEF MessageInv, Arrived, Answered
  <2>2. PICK memory \in Memories : applied = Outcome(datagram, datagram \o memory)
    BY DEF MessageInv, Answered
  <2>3. Cursor(sent) + Len(payload(sent)) <= 2 * Base  BY <2>1 DEF WordsFit
  <2>4. CASE ByteDamaged(datagram, sent, TRUE)  BY <2>1, <2>2, <2>3, <2>4, DamagedOutcome
  <2>5. CASE Shortened(datagram, sent, TRUE)
    <3> DEFINE d == Original(sent, TRUE)
    <3>1. Carries(d, sent)  BY <2>1, OriginalIs
    <3>2. PICK n \in 0 .. Len(d) - 1 : datagram = SubSeq(d, 1, n)  BY <2>5 DEF Shortened
    <3> HIDE DEF d
    <3>3. dispatch_message(datagram, datagram \o memory) = NoMessage
      BY <2>1, <3>1, <3>2, TruncatedIsDiscarded
    <3>4. QED  BY <2>2, <3>3 DEF Outcome
  <2>6. QED  BY <2>1, <2>4, <2>5
<1>2. QED  BY <1>1, MessageInvHolds, PTL

\* Parts of two sequences that agree there are the same.
LEMMA SameSubSeq ==
  ASSUME NEW x \in Seq(Octet), NEW y \in Seq(Octet), NEW a \in Nat \ {0}, NEW b \in Nat,
         b <= Len(x), b <= Len(y), \A i \in a .. b : x[i] = y[i]
  PROVE  SubSeq(x, a, b) = SubSeq(y, a, b)
<1>1. \A i \in 1 .. b - a + 1 : a + i - 1 \in a .. b  OBVIOUS
<1>2. \A i \in 1 .. b - a + 1 : x[a + i - 1] = y[a + i - 1]  BY <1>1
<1>3. /\ SubSeq(x, a, b) = [i \in 1 .. b - a + 1 |-> x[a + i - 1]]
      /\ SubSeq(y, a, b) = [i \in 1 .. b - a + 1 |-> y[a + i - 1]]
  OBVIOUS
<1>4. QED  BY <1>2, <1>3

\* A value that ends with the datagram ends there whatever the memory behind it is:
\* the octets of its length are in the datagram.
LEMMA SameEnd ==
  ASSUME NEW d \in Seq(Octet), NEW memory \in Memories, NEW other \in Memories,
         NEW offset \in {6, 10}, asn_octets_unbox(d \o memory, offset)[2] = Len(d)
  PROVE  /\ asn_octets_unbox(d \o other, offset)[2] = Len(d)
         /\ Len(d) >= offset + 2
<1> DEFINE x == d \o memory
           y == d \o other
           first == x[offset + 2]
           size == first - Sign
           s(z) == SubSeq(z, offset + 3, offset + 2 + size)
           end(z) == asn_octets_unbox(z, offset)[2]
<1>1. /\ memory \in Seq(Octet) /\ Len(memory) \in Nat /\ Len(memory) >= Base + 10
      /\ other \in Seq(Octet) /\ Len(other) \in Nat /\ Len(d) \in Nat
  BY MemoriesAssumption
<1>2. /\ x \in Seq(Octet) /\ Len(x) = Len(d) + Len(memory)
      /\ y \in Seq(Octet) /\ Len(y) = Len(d) + Len(other)
  BY <1>1, ConcatProperties
<1>3. \A i \in 1 .. Len(d) : x[i] = d[i] /\ y[i] = d[i]  BY MemoryBehind
<1> HIDE DEF x, y
<1>4. offset \in Nat /\ offset + Base <= Len(x)  BY <1>1, <1>2, OctetAssumption
<1>5. /\ Len(d) >= offset + 2
      /\ first > Sign => Len(d) >= offset + 2 + size
  BY <1>2, <1>4, AnyEnd DEF x
<1>6. first = y[offset + 2] /\ first \in Nat
  <2>1. offset + 2 \in 1 .. Len(d) /\ offset + 2 \in 1 .. Len(x)  BY <1>1, <1>2, <1>4, <1>5
  <2>2. first \in Octet  BY <1>2, <2>1
  <2>3. QED  BY <1>3, <2>1, <2>2, OctetAssumption DEF Octet
<1> HIDE DEF first, size
<1>7. \A z : z[offset + 2] = first =>
        end(z) = IF first > Sign THEN offset + 2 + size + natural_of(s(z)) ELSE offset + 2 + first
  <2>1. /\ (offset + 1) + 1 = offset + 2 /\ (offset + 1) + 2 = offset + 3
        /\ \A k \in Int : ((offset + 1) + 1) + k = offset + 2 + k /\ (offset + 1) + k + 1 = offset + 2 + k
    BY <1>4
  <2>2. size \in Int  BY <1>6, Signs DEF size
  <2> SUFFICES ASSUME NEW z, z[offset + 2] = first
               PROVE  end(z) = IF first > Sign THEN offset + 2 + size + natural_of(s(z))
                               ELSE offset + 2 + first
    OBVIOUS
  <2> DEFINE content == asn_octets_to_length(z, offset + 1)
  <2>3. content = IF first > Sign
                  THEN <<natural_of(SubSeq(z, (offset + 1) + 2, (offset + 1) + 1 + size)),
                         (offset + 1) + size + 1>>
                  ELSE <<first, (offset + 1) + 1>>
    BY <2>1 DEF asn_octets_to_length, size
  <2>4. end(z) = content[2] + content[1]  BY DEF asn_octets_unbox
  <2>5. (offset + 1) + 1 + size = offset + 2 + size /\ (offset + 1) + size + 1 = offset + 2 + size
    BY <2>1, <2>2
  <2> HIDE DEF content, end
  <2>6. CASE first > Sign
    <3>1. content = <<natural_of(s(z)), offset + 2 + size>>  BY <2>1, <2>3, <2>5, <2>6
    <3>2. QED  BY <2>4, <2>6, <3>1
  <2>7. CASE ~(first > Sign)
    <3>1. content = <<first, offset + 2>>  BY <2>1, <2>3, <2>7
    <3>2. QED  BY <2>4, <2>7, <3>1
  <2>8. QED  BY <2>6, <2>7
<1>8. first > Sign => s(x) = s(y)
  <2> SUFFICES ASSUME first > Sign PROVE s(x) = s(y)  OBVIOUS
  <2>1. size \in Nat /\ offset + 2 + size <= Len(d) /\ offset + 3 \in Nat /\ offset + 2 + size \in Nat
    <3>1. size \in Nat  BY <1>6, Signs DEF size
    <3>2. offset + 2 + size <= Len(d)  BY <1>5, <3>1, <1>1, <1>4
    <3>3. QED  BY <1>4, <3>1, <3>2
  <2> DEFINE a == offset + 3
             b == offset + 2 + size
  <2>2. a \in Nat \ {0} /\ b \in Nat /\ b <= Len(d) /\ b <= Len(x) /\ b <= Len(y)
    BY <1>1, <1>2, <1>4, <2>1
  <2> HIDE DEF a, b
  <2>3. \A i \in a .. b : x[i] = y[i]
    <3>1. \A i \in a .. b : i \in 1 .. Len(d)  BY <1>1, <2>2
    <3>2. QED  BY <1>3, <3>1
  <2>4. SubSeq(x, a, b) = SubSeq(y, a, b)  BY <1>2, <2>2, <2>3, SameSubSeq
  <2>5. QED  BY <2>4 DEF a, b
<1>9. end(x) = end(y)
  <2> HIDE DEF end, s
  <2>1. x[offset + 2] = first /\ y[offset + 2] = first  BY <1>6 DEF first
  <2>2. CASE first > Sign
    <3>1. end(x) = offset + 2 + size + natural_of(s(x))  BY <1>7, <2>1, <2>2
    <3>2. end(y) = offset + 2 + size + natural_of(s(y))  BY <1>7, <2>1, <2>2
    <3>3. QED  BY <1>8, <2>2, <3>1, <3>2
  <2>3. CASE ~(first > Sign)
    <3>1. end(x) = offset + 2 + first /\ end(y) = offset + 2 + first  BY <1>7, <2>1, <2>3
    <3>2. QED  BY <3>1
  <2>4. QED  BY <2>2, <2>3
<1>10. QED
  <2>1. end(x) = Len(d)  BY DEF x
  <2>2. QED  BY <1>5, <1>9, <2>1 DEF x, y

\* What is given to the peers of octets does not depend on the memory behind them.
LEMMA SameOutcome ==
  ASSUME NEW d \in Seq(Octet), NEW memory \in Memories, NEW other \in Memories
  PROVE  Outcome(d, d \o memory) = Outcome(d, d \o other)
<1> DEFINE x == d \o memory
           y == d \o other
           cursor(z) == IF z[3] = 1 THEN 10 ELSE 6
           end(z) == asn_octets_unbox(z, cursor(z))[2]
<1>1. Len(d) \in Nat /\ \A i \in 1 .. Len(d) : x[i] = d[i] /\ y[i] = d[i]  BY MemoryBehind
<1>2. ASSUME NEW a \in Memories, NEW b \in Memories, Len(d) < 8
      PROVE  Outcome(d, d \o a) = NoMessage
  <2> DEFINE z == d \o a
  <2>1. cursor(z) \in {6, 10} /\ cursor(z) + 2 >= 8  OBVIOUS
  <2>2. end(z) # Len(d)  BY <1>1, <1>2, <2>1, SameEnd
  <2>3. dispatch_message(d, z) = NoMessage  BY <2>2 DEF dispatch_message
  <2>4. QED  BY <2>3 DEF Outcome
<1>3. CASE Len(d) < 8  BY <1>2, <1>3
<1>4. CASE Len(d) >= 8
  <2>1. /\ 3 \in 1 .. Len(d) /\ 4 \in 1 .. Len(d) /\ 5 \in 1 .. Len(d) /\ 6 \in 1 .. Len(d)
    BY <1>1, <1>4
  <2>2. x[3] = y[3] /\ x[4] = y[4] /\ x[5] = y[5] /\ x[6] = y[6]  BY <1>1, <2>1
  <2>3. cursor(x) = cursor(y) /\ cursor(x) \in {6, 10}  BY <2>2
  <2>4. Accepted(d, x) /\ Accepted(d, y)  BY <1>1, <1>4 DEF Accepted
  <2> HIDE DEF x, y
  <2>5. Verified(d, x) <=> Verified(d, y)  BY <2>2 DEF Verified, bigendian_uint16_ref
  <2>6. end(x) = Len(d) <=> end(y) = Len(d)  BY <2>3, SameEnd DEF x, y
  <2>7. ASSUME end(x) = Len(d), x[3] = 1
        PROVE  /\ bigendian_uint16_ref(x, 6) = bigendian_uint16_ref(y, 6)
               /\ bigendian_uint16_ref(x, 8) = bigendian_uint16_ref(y, 8)
    <3>1. Len(d) >= 12  BY <2>3, <2>7, SameEnd DEF x
    <3>2. 7 \in 1 .. Len(d) /\ 8 \in 1 .. Len(d) /\ 9 \in 1 .. Len(d) /\ 10 \in 1 .. Len(d)
      BY <1>1, <3>1
    <3>3. x[7] = y[7] /\ x[8] = y[8] /\ x[9] = y[9] /\ x[10] = y[10]  BY <1>1, <3>2
    <3>4. 6 + 1 = 7 /\ 6 + 2 = 8 /\ 8 + 1 = 9 /\ 8 + 2 = 10  OBVIOUS
    <3>5. QED  BY <3>3, <3>4 DEF bigendian_uint16_ref
  <2>8. dispatch_message(d, x) = dispatch_message(d, y)
    <3>1. CASE end(x) = Len(d)
      <4>1. end(y) = Len(d)  BY <2>6, <3>1
      <4>2. QED  BY <2>2, <2>3, <2>7, <3>1, <4>1 DEF dispatch_message
    <3>2. CASE end(x) # Len(d)
      <4>1. end(y) # Len(d)  BY <2>6, <3>2
      <4>2. QED  BY <3>2, <4>1 DEF dispatch_message
    <3>3. QED  BY <3>1, <3>2
  <2>9. QED  BY <2>4, <2>5, <2>8 DEF Outcome, x, y
<1>5. QED  BY <1>1, <1>3, <1>4

\* A datagram is a sequence of octets.
OfOctets == datagram \in Seq(Octet)

\* Whatever arrives consists of octets.
LEMMA DatagramOctets == MessageSpec => []OfOctets
<1>1. MessageInit => OfOctets  BY DEF MessageInit, OfOctets
<1>2. OfOctets /\ [MessageNext]_messageVars => OfOctets'
  <2> SUFFICES ASSUME datagram \in Seq(Octet), [MessageNext]_messageVars
               PROVE  datagram' \in Seq(Octet)
    BY DEF OfOctets
  <2>1. ASSUME NEW m \in Messages, NEW checked \in BOOLEAN, slang_do_cast(m, checked)
        PROVE  datagram' \in Seq(Octet)
    <3>1. datagram' = Original(m, checked)  BY <2>1 DEF slang_do_cast, Original, Cast, Field
    <3>2. QED  BY <3>1, OriginalIs
  <2>2. ASSUME NEW i \in DOMAIN datagram, NEW b \in Damages, Damage(i, b)
        PROVE  datagram' \in Seq(Octet)
    <3>1. i \in 1 .. Len(datagram)  OBVIOUS
    <3>2. datagram' = [datagram EXCEPT ![i] = b] /\ b \in Octet
      BY <2>2, FieldsAssumption DEF Damage
    <3>3. [datagram EXCEPT ![i] = b] \in Seq(Octet)  BY <3>1, <3>2, ExceptSeq
    <3>4. QED  BY <3>2, <3>3
  <2>3. ASSUME NEW n \in 0 .. Len(datagram), Truncate(n) PROVE datagram' \in Seq(Octet)
    <3>1. datagram' = SubSeq(datagram, 1, n)  BY <2>3 DEF Truncate
    <3>2. n \in Int /\ \A i \in 1 .. n : i \in 1 .. Len(datagram)
      <4>1. Len(datagram) \in Nat  OBVIOUS
      <4>2. QED  BY <4>1
    <3>3. \A i \in 1 .. n : datagram[i] \in Octet  BY <3>2
    <3>4. SubSeq(datagram, 1, n) \in Seq(Octet)  BY <3>2, <3>3, SubSeqProperties
    <3>5. QED  BY <3>1, <3>4
  <2>4. ASSUME NEW d \in Foreign, ForeignCast(d) PROVE datagram' \in Seq(Octet)
    BY <2>4, ForeignAssumption DEF ForeignCast
  <2>5. ASSUME NEW memory \in Memories, on_message(memory) PROVE datagram' \in Seq(Octet)
    BY <2>5 DEF on_message
  <2>6. CASE UNCHANGED messageVars  BY <2>6 DEF messageVars
  <2>7. QED  BY <2>1, <2>2, <2>3, <2>4, <2>5, <2>6 DEF MessageNext
<1>3. QED  BY <1>1, <1>2, PTL DEF MessageSpec

\* GhostDaemon::on_message looks at memory behind the datagram, which has no influence
\* on what the peers are given, of messages that were cast, damaged, or sent by others.
THEOREM NothingBeyondMatters == MessageSpec => []NothingBeyond
<1>1. MessageInv /\ OfOctets => NothingBeyond
  <2> SUFFICES ASSUME MessageInv, datagram \in Seq(Octet), stage = "over", NEW other \in Memories
               PROVE  Outcome(datagram, datagram \o other) = applied
    BY DEF NothingBeyond, OfOctets
  <2>1. PICK memory \in Memories : applied = Outcome(datagram, datagram \o memory)
    BY DEF MessageInv
  <2>2. QED  BY <2>1, SameOutcome
<1>2. QED  BY <1>1, MessageInvHolds, DatagramOctets, PTL

-----------------------------------------------------------------------------
(***************************************************************************)
(* Part 6. The watchdog spares every connection that works and gives up    *)
(* every one that does not, whatever the timeouts are.                     *)
(***************************************************************************)
\* The invariant holds when the connection has just been made.
LEMMA WatchInit == WatchdogInit => WatchInv
<1> SUFFICES ASSUME WatchdogInit PROVE WatchInv
  OBVIOUS
<1>1. timeout \in Nat
  BY TimeoutsAssumption DEF WatchdogInit
<1>2. QED
  BY <1>1, TimesAssumption DEF WatchdogInit, WatchInv, WatchdogTypeOK, Started

\* A connection that has expired has not been working.
LEMMA SilentWhenExpired == WatchInv /\ Expires => device = "silent"
<1> SUFFICES ASSUME WatchInv, Expires PROVE device = "silent"
  OBVIOUS
<1>1. timeout # 0 /\ timeout \in Timeouts /\ now - last_heartbeat > timeout
  BY DEF Expires, TimerTick, Started, Expired, WatchInv, WatchdogTypeOK
<1>2. MaxGap + MaxHandling <= timeout
  BY <1>1, MeantAssumption
<1>3. QED
  BY <1>1, <1>2, TimeoutsAssumption, TimesAssumption DEF WatchInv, WatchdogTypeOK, Idle

\* Every step of the two threads and of the device keeps the invariant.
LEMMA WatchStep == WatchInv /\ [WatchdogNext]_watchdog_vars => WatchInv'
<1> SUFFICES ASSUME WatchInv, [WatchdogNext]_watchdog_vars PROVE WatchInv'
  OBVIOUS
<1>a. timeout \in Nat
  BY TimeoutsAssumption DEF WatchInv, WatchdogTypeOK
<1> USE <1>a, TimesAssumption DEF WatchInv, WatchdogTypeOK, Started
<1>1. ASSUME NEW ms \in Timeouts, set_suicide_timeout(ms) PROVE WatchInv'
  BY <1>1, TimeoutsAssumption DEF set_suicide_timeout, reset_heartbeat
<1>2. CASE Expires
  <2>1. device = "silent"
    BY <1>2, SilentWhenExpired
  <2>2. QED
    BY <1>2, <2>1 DEF Expires, TimerTick
<1>3. CASE Passes
  <2>1. PICK d \in Nat : due' = d /\ due <= d /\ d <= now + timeout
    BY <1>3 DEF Passes, TimerTick, TickHandled
  <2>2. now <= last_heartbeat + timeout
    BY <1>3 DEF Passes, Expired
  <2>3. QED
    BY <1>3, <2>1, <2>2 DEF Passes, TimerTick
<1>10. CASE suicide
  BY <1>10 DEF suicide
<1>11. CASE MadeAnew
  <2>1. PICK d \in Nat : due' = d /\ due <= d /\ d <= now + timeout
    BY <1>11 DEF MadeAnew, TickHandled
  <2>2. QED
    BY <1>11, <2>1 DEF MadeAnew, reset_heartbeat
<1>4. CASE notify_data_received
  BY <1>4 DEF notify_data_received
<1>5. CASE ListenersTold
  <2>1. Started => MaxGap + MaxHandling <= timeout
    BY MeantAssumption
  <2>2. PICK h \in Nat : last_heartbeat' = h /\ timestamp <= h /\ h <= timestamp + 1
    BY <1>5 DEF ListenersTold, Idle
  <2>3. timestamp \in Nat /\ timestamp <= now /\ now <= timestamp + MaxHandling
    BY <1>5 DEF ListenersTold, Idle
  <2>4. WatchdogTypeOK'
    BY <1>5, <2>2, <2>3 DEF ListenersTold
  <2>5. QED
    BY <1>5, <2>1, <2>2, <2>3, <2>4 DEF ListenersTold
<1>6. CASE FallSilent
  BY <1>6 DEF FallSilent
<1>7. CASE ClockTick
  BY <1>7 DEF ClockTick
<1>8. CASE UNCHANGED watchdog_vars
  BY <1>8 DEF watchdog_vars
<1>9. QED
  BY <1>1, <1>2, <1>3, <1>4, <1>5, <1>6, <1>7, <1>8, <1>10, <1>11 DEF WatchdogNext

\* The invariant of the watchdog of tcp.cpp holds in every reachable state.
THEOREM WatchInvariant == WatchdogSpec => []WatchInv
  BY WatchInit, WatchStep, PTL DEF WatchdogSpec

\* Every variable keeps its type: the heartbeat is later than the clock by no
\* more than the rounding, whatever thread writes it.
THEOREM WatchdogTypes == WatchdogSpec => []WatchdogTypeOK
  BY WatchInvariant, PTL DEF WatchInv

\* TCPKiller gives up a silent connection within two timeouts and the delay of
\* one tick.
THEOREM SilentIsAlwaysKilled == WatchdogSpec => []SilentIsKilled
<1>1. WatchInv => SilentIsKilled
  BY TimeoutsAssumption, TimesAssumption DEF WatchInv, WatchdogTypeOK, Started, SilentIsKilled
<1>2. QED
  BY <1>1, WatchInvariant, PTL

\* suicide_if_timeout finds no connection to have expired whose device works,
\* and kills one that works only if it did not before the tick.
THEOREM WorkingIsAlwaysSpared == WatchdogSpec => WorkingIsSpared
<1> DEFINE Spared ==
      /\ Expires => device = "silent"
      /\ suicide => device = "silent" \/ due <= last_heartbeat + MaxHandling
<1>1. WatchInv => Spared
  <2>1. WatchInv /\ suicide => device = "silent" \/ due <= last_heartbeat + MaxHandling
    BY DEF WatchInv, WatchdogTypeOK, suicide
  <2>2. QED
    BY <2>1, SilentWhenExpired
<1>2. WatchInv /\ [WatchdogNext]_watchdog_vars => [Spared]_watchdog_vars
  BY <1>1
<1>3. QED
  BY <1>2, WatchInvariant, PTL DEF WatchdogSpec, WorkingIsSpared

=============================================================================
