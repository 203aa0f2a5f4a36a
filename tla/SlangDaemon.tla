---------------------------- MODULE SlangDaemon ----------------------------
(***************************************************************************)
(* ISlangDaemon (peer/slang.cpp): a network thread gives a message to the  *)
(* local peers one after another, each inside the lock of that peer        *)
(* (pre_read_message, post_read_message), which its user interface enters  *)
(* too.  The lock is that of the peer, and not reentrant.  A peer may      *)
(* throw: on_message catches it, but only a Platform::Exception makes the  *)
(* daemon leave the lock.                                                  *)
(*                                                                         *)
(* current_peer is a member of the daemon: every access to it is a step.   *)
(***************************************************************************)
EXTENDS Naturals, Sequences, FiniteSets

CONSTANTS
  Threads,       \* the network threads that may be in on_message at once
  LocalPeers,    \* the peers, in the order in which they will be pushed
  Exceptions,    \* what a peer may throw
  UI, Nobody,    \* the other owners of a lock
  NoPeer         \* nullptr

ASSUME ExceptionsAssumption ==
  Exceptions \subseteq {"Platform::Exception", "task_discarded", "task_terminated", "task_canceled"}

Peers == {LocalPeers[i] : i \in DOMAIN LocalPeers}

ASSUME OwnersAssumption ==
  /\ LocalPeers \in Seq(Peers) /\ NoPeer \notin Peers
  /\ UI # Nobody /\ UI \notin Threads /\ Nobody \notin Threads

VARIABLES
  local_peers,   \* how many peers have been pushed
  pc,            \* of the network threads
  at,            \* the index of the peer a thread is at
  current_peer,
  owner,         \* of the lock of a peer
  waiting,       \* the peer whose lock the user interface waits for, NoPeer if none
  crashed,       \* a null pointer or a lock of another has been used
  uncleared      \* the peers that have thrown what clears nothing

vars == <<local_peers, pc, at, current_peer, owner, waiting, crashed, uncleared>>

push_slang_local_peer ==
  /\ local_peers < Len(LocalPeers)
  /\ local_peers' = local_peers + 1
  /\ UNCHANGED <<pc, at, current_peer, owner, waiting, crashed, uncleared>>

\* A message that could be unboxed, when there is someone to give it to.
Receive(t) ==
  /\ pc[t] = "idle" /\ local_peers > 0
  /\ pc' = [pc EXCEPT ![t] = "next"]
  /\ at' = [at EXCEPT ![t] = 1]
  /\ UNCHANGED <<local_peers, current_peer, owner, waiting, crashed, uncleared>>

\* The next peer is the current one; an absent one is left out.
Visit(t) ==
  /\ pc[t] = "next" /\ at[t] <= local_peers
  /\ current_peer' = LocalPeers[at[t]]
  /\ \E absent \in BOOLEAN :
       IF absent
       THEN at' = [at EXCEPT ![t] = @ + 1] /\ pc' = pc
       ELSE at' = at /\ pc' = [pc EXCEPT ![t] = "pre_read"]
  /\ UNCHANGED <<local_peers, owner, waiting, crashed, uncleared>>

Finish(t) ==
  /\ pc[t] = "next" /\ at[t] > local_peers
  /\ current_peer' = NoPeer
  /\ pc' = [pc EXCEPT ![t] = "idle"]
  /\ UNCHANGED <<local_peers, at, owner, waiting, crashed, uncleared>>

\* A bug: the lock is not entered.
pre_read_message_unlocked(t) ==
  /\ pc[t] = "pre_read"
  /\ pc' = [pc EXCEPT ![t] = "apply"]
  /\ UNCHANGED <<local_peers, at, current_peer, owner, waiting, crashed, uncleared>>

pre_read_message(t) ==
  /\ pc[t] = "pre_read"
  /\ IF current_peer = NoPeer
     THEN crashed' = TRUE /\ UNCHANGED <<pc, owner>>
     ELSE /\ owner[current_peer] = Nobody
          /\ owner' = [owner EXCEPT ![current_peer] = t]
          /\ pc' = [pc EXCEPT ![t] = "apply"]
          /\ UNCHANGED crashed
  /\ UNCHANGED <<local_peers, at, current_peer, waiting, uncleared>>

\* apply_message looks itself whether there is a current peer.
apply_message(t) ==
  /\ pc[t] = "apply"
  /\ pc' = [pc EXCEPT ![t] = "post_read"]
  /\ UNCHANGED <<local_peers, at, current_peer, owner, waiting, crashed, uncleared>>

\* A bug: nothing follows an exception.
Throw_ignored(t, exception) ==
  /\ pc[t] = "apply" /\ current_peer # NoPeer
  /\ pc' = [pc EXCEPT ![t] = "idle"]
  /\ UNCHANGED <<local_peers, at, current_peer, owner, waiting, crashed, uncleared>>

\* The peer throws.  Only a Platform::Exception is followed by
\* clear_if_peer_broken; after the others nothing is done.
Throw(t, exception) ==
  /\ pc[t] = "apply" /\ current_peer # NoPeer
  /\ IF exception = "Platform::Exception"
     THEN pc' = [pc EXCEPT ![t] = "broken"] /\ UNCHANGED uncleared
     ELSE pc' = [pc EXCEPT ![t] = "idle"] /\ uncleared' = uncleared \cup {current_peer}
  /\ UNCHANGED <<local_peers, at, current_peer, owner, waiting, crashed>>

\* post_read_message of the current peer, by thread t.
Leave(t) ==
  IF current_peer # NoPeer /\ owner[current_peer] = t
  THEN owner' = [owner EXCEPT ![current_peer] = Nobody] /\ UNCHANGED crashed
  ELSE crashed' = TRUE /\ UNCHANGED owner

post_read_message(t) ==
  /\ pc[t] = "post_read"
  /\ Leave(t)
  /\ at' = [at EXCEPT ![t] = @ + 1]
  /\ pc' = [pc EXCEPT ![t] = "next"]
  /\ UNCHANGED <<local_peers, current_peer, waiting, uncleared>>

\* A bug: the current peer is forgotten and keeps its lock.
clear_if_peer_broken_locked(t) ==
  /\ pc[t] = "broken"
  /\ current_peer' = NoPeer
  /\ pc' = [pc EXCEPT ![t] = "idle"]
  /\ UNCHANGED <<local_peers, at, owner, waiting, crashed, uncleared>>

clear_if_peer_broken(t) ==
  /\ pc[t] = "broken"
  /\ IF current_peer = NoPeer THEN UNCHANGED <<owner, crashed>> ELSE Leave(t)
  /\ current_peer' = NoPeer
  /\ pc' = [pc EXCEPT ![t] = "idle"]
  /\ UNCHANGED <<local_peers, at, waiting, uncleared>>

(***************************************************************************)
(* The user interface: it waits for the lock of a peer, draws the peer,    *)
(* and leaves.                                                             *)
(***************************************************************************)
Owned == {p \in Peers : owner[p] = UI}

UIWait(p) ==
  /\ waiting = NoPeer /\ Owned = {}
  /\ waiting' = p
  /\ UNCHANGED <<local_peers, pc, at, current_peer, owner, crashed, uncleared>>

UIEnter ==
  /\ waiting # NoPeer /\ owner[waiting] = Nobody
  /\ owner' = [owner EXCEPT ![waiting] = UI]
  /\ waiting' = NoPeer
  /\ UNCHANGED <<local_peers, pc, at, current_peer, crashed, uncleared>>

UILeave ==
  /\ Owned # {}
  /\ owner' = [p \in Peers |-> IF p \in Owned THEN Nobody ELSE owner[p]]
  /\ UNCHANGED <<local_peers, pc, at, current_peer, waiting, crashed, uncleared>>

Init ==
  /\ local_peers = 0
  /\ pc = [t \in Threads |-> "idle"]
  /\ at = [t \in Threads |-> 1]
  /\ current_peer = NoPeer
  /\ owner = [p \in Peers |-> Nobody]
  /\ waiting = NoPeer
  /\ crashed = FALSE
  /\ uncleared = {}

OnMessage(t) ==
  \/ Receive(t) \/ Visit(t) \/ Finish(t)
  \/ pre_read_message(t) \/ apply_message(t) \/ post_read_message(t)
  \/ \E exception \in Exceptions : Throw(t, exception)
  \/ clear_if_peer_broken(t)

Next ==
  /\ ~crashed
  /\ \/ push_slang_local_peer
     \/ \E t \in Threads : OnMessage(t)
     \/ \E p \in Peers : UIWait(p)
     \/ UIEnter \/ UILeave

\* Threads that can run do; a lock that is left again and again is entered by
\* everyone who waits for it.
Fairness ==
  /\ \A t \in Threads :
       WF_vars(~crashed /\ (Visit(t) \/ Finish(t) \/ apply_message(t) \/ post_read_message(t)
                            \/ clear_if_peer_broken(t)))
  /\ \A t \in Threads : SF_vars(~crashed /\ pre_read_message(t))
  /\ SF_vars(~crashed /\ UIEnter) /\ WF_vars(~crashed /\ UILeave)

Spec == Init /\ [][Next]_vars /\ Fairness

-----------------------------------------------------------------------------
\* Types of the variables.
TypeOK ==
  /\ local_peers \in 0 .. Len(LocalPeers)
  /\ pc \in [Threads -> {"idle", "next", "pre_read", "apply", "post_read", "broken"}]
  /\ at \in [Threads -> 1 .. Len(LocalPeers) + 1]
  /\ current_peer \in Peers \cup {NoPeer}
  /\ owner \in [Peers -> Threads \cup {UI, Nobody}]
  /\ waiting \in Peers \cup {NoPeer}
  /\ crashed \in BOOLEAN
  /\ uncleared \subseteq Peers

\* A thread that is done with a message has released every lock, also when
\* peers have thrown, but those of peers that have thrown a task exception: so
\* far reaches "If the peer is using a lock, it should have a change to release
\* the lock" (slang.cpp:443).
LocksAreReleased ==
  \A t \in Threads : pc[t] = "idle" => \A p \in Peers \ uncleared : owner[p] # t

\* A peer is given a message inside its own lock, whatever it and others have
\* thrown before: no null pointer is followed, and no lock is left that another
\* one has entered.
ToldInsideLock ==
  /\ ~crashed
  /\ \A t \in Threads : pc[t] = "apply" => current_peer # NoPeer /\ owner[current_peer] = t

\* The only peers whose lock the user interface may wait for for ever are those
\* that have thrown a task exception.  The network thread may then wait for such
\* a lock too, but it is in no other lock meanwhile.
UIEnters == \A p \in Peers : waiting = p ~> owner[p] = UI \/ p \in uncleared

=============================================================================
