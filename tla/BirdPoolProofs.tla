--------------------------- MODULE BirdPoolProofs ---------------------------
(***************************************************************************)
(* Proofs about BirdPool for any number of clients, sockets and any sizes. *)
(*                                                                         *)
(* The inductive invariant IInv relates five things a state predicate has  *)
(* to know at once: who holds a connection at which control point, what    *)
(* p.mu protects, what the parked queue says about the channel, how far    *)
(* Close() has come, and where each socket is.                             *)
(***************************************************************************)
EXTENDS BirdPool, SequenceTheorems, TLAPS

(* Control points at which a client holds a connection.                    *)
HoldingPC == {"read", "release", "return", "close"}

(* A connection is held from acquire to release or discard.  At "send" it   *)
(* may be nil, on a pool that was closed.                                   *)
HoldInv ==
    \A c \in Clients :
        /\ pc[c] \in HoldingPC => conn[c] # NoConn
        /\ conn[c] # NoConn => pc[c] \in HoldingPC \cup {"send"}

(* The critical section of release is the one that spans two steps.        *)
MutexInv ==
    \A c \in Clients : mu = c => pc[c] \in {"return", "close"}

MutexHeld ==
    \A c \in Clients : pc[c] \in {"return", "close"} => mu = c

(* The queue holds exactly the parked clients, and is empty whenever the    *)
(* channel has something to give, or is closed.                             *)
ParkInv ==
    /\ IsInjective(parked)
    /\ \A c \in Clients : pc[c] = "parked" <=> c \in Range(parked)
    /\ parked # <<>> => idle = <<>> /\ ~chanClosed

(* Close() proceeds in order, and no release is past its test of p.closed   *)
(* once that is set.                                                        *)
CloseInv ==
    /\ chanClosed => closed
    /\ closed <=> main \notin {"fill", "serve"}
    /\ \A c \in Clients : pc[c] = "return" => ~closed
    /\ main \in {"fill", "failed"} => \A c \in Clients : pc[c] = "idle"
    /\ main \in {"drain", "done", "failed"} => chanClosed
    /\ main \in {"done", "failed"} => idle = <<>>

(* A client reaches "recv" only by finding the channel full, so if all of   *)
(* them were about to wait, the last one to take something would not be.    *)
WaitInv ==
    (MaxSize > 0 /\ Clients # {} /\ \A c \in Clients : pc[c] \in {"recv", "parked"})
        => idle # <<>> \/ chanClosed

Sharing == ExclusiveOwner /\ NoUseAfterClose /\ NoSocketLeak

IInv ==
    /\ TypeOK
    /\ HoldInv
    /\ MutexInv
    /\ MutexHeld
    /\ ParkInv
    /\ CloseInv
    /\ WaitInv
    /\ Sharing

-----------------------------------------------------------------------------
(* Lemmas on sequences without repetition *)

(* Receiving from a channel: the head leaves, once.                        *)
LEMMA TailRange ==
    ASSUME NEW S, NEW s \in Seq(S), s # <<>>
    PROVE  /\ Head(s) \in S
           /\ Tail(s) \in Seq(S)
           /\ Head(s) \in Range(s)
           /\ Range(s) = Range(Tail(s)) \cup {Head(s)}
           /\ IsInjective(s) => IsInjective(Tail(s)) /\ Head(s) \notin Range(Tail(s))
<1>1. /\ Head(s) = s[1] /\ Head(s) \in S
      /\ Tail(s) \in Seq(S)
      /\ Len(s) \in Nat /\ Len(s) > 0
      /\ Len(Tail(s)) = Len(s) - 1
      /\ \A i \in 1..Len(Tail(s)) : Tail(s)[i] = s[i+1]
      /\ DOMAIN s = 1..Len(s)
      /\ DOMAIN Tail(s) = 1..Len(Tail(s))
  BY HeadTailProperties, LenProperties, EmptySeq
<1>2. Range(s) \subseteq Range(Tail(s)) \cup {Head(s)}
  <2> SUFFICES ASSUME NEW i \in 1..Len(s), i # 1
               PROVE  s[i] \in Range(Tail(s))
    BY <1>1 DEF Range
  <2>1. i - 1 \in 1..Len(Tail(s)) /\ Tail(s)[i-1] = s[i]
    BY <1>1
  <2> QED BY <2>1, <1>1 DEF Range
<1>3. Range(Tail(s)) \cup {Head(s)} \subseteq Range(s)
  <2>1. Head(s) \in Range(s)
    BY <1>1 DEF Range
  <2>2. ASSUME NEW i \in 1..Len(Tail(s)) PROVE Tail(s)[i] \in Range(s)
    <3>1. i+1 \in 1..Len(s) /\ Tail(s)[i] = s[i+1]
      BY <1>1
    <3> QED BY <3>1, <1>1 DEF Range
  <2> QED BY <2>1, <2>2, <1>1 DEF Range
<1>4. ASSUME IsInjective(s)
      PROVE  IsInjective(Tail(s)) /\ Head(s) \notin Range(Tail(s))
  <2>1. \A i, j \in 1..Len(s) : s[i] = s[j] => i = j
    BY <1>1, <1>4 DEF IsInjective
  <2>2. ASSUME NEW i \in 1..Len(Tail(s)), NEW j \in 1..Len(Tail(s)), Tail(s)[i] = Tail(s)[j]
        PROVE  i = j
    <3>1. i+1 \in 1..Len(s) /\ j+1 \in 1..Len(s) /\ s[i+1] = s[j+1]
      BY <1>1, <2>2
    <3>2. i+1 = j+1
      BY <3>1, <2>1
    <3> QED BY <3>2
  <2>3. ASSUME NEW i \in 1..Len(Tail(s)) PROVE Tail(s)[i] # Head(s)
    <3>1. i+1 \in 1..Len(s) /\ 1 \in 1..Len(s) /\ i+1 # 1 /\ Tail(s)[i] = s[i+1]
      BY <1>1
    <3> QED BY <3>1, <2>1, <1>1
  <2> QED BY <2>2, <2>3, <1>1 DEF IsInjective, Range
<1> QED BY <1>1, <1>2, <1>3, <1>4

(* Sending on a channel, or parking in its queue, what is not there yet.    *)
LEMMA AppendRange ==
    ASSUME NEW S, NEW s \in Seq(S), NEW e \in S
    PROVE  /\ Append(s, e) \in Seq(S)
           /\ Append(s, e) # <<>>
           /\ Range(Append(s, e)) = Range(s) \cup {e}
           /\ IsInjective(s) /\ e \notin Range(s) => IsInjective(Append(s, e))
<1> DEFINE t == Append(s, e)
<1>1. /\ t \in Seq(S) /\ t # <<>>
      /\ Len(s) \in Nat /\ Len(t) = Len(s) + 1
      /\ \A i \in 1..Len(s) : t[i] = s[i]
      /\ t[Len(s) + 1] = e
      /\ DOMAIN s = 1..Len(s)
      /\ DOMAIN t = 1..Len(t)
  BY AppendProperties, LenProperties
<1> HIDE DEF t
<1>2. \A i \in 1..Len(t) : i \in 1..Len(s) \/ i = Len(s) + 1
  BY <1>1
<1>3. \A i \in 1..Len(s) : i \in 1..Len(t)
  BY <1>1
<1>4. Len(s) + 1 \in 1..Len(t)
  BY <1>1
<1>5. Range(t) = Range(s) \cup {e}
  BY <1>1, <1>2, <1>3, <1>4 DEF Range
<1>6. ASSUME IsInjective(s), e \notin Range(s) PROVE IsInjective(t)
  <2>1. \A i \in 1..Len(s) : s[i] # e
    BY <1>6, <1>1 DEF Range
  <2>2. \A i, j \in 1..Len(s) : s[i] = s[j] => i = j
    BY <1>6, <1>1 DEF IsInjective
  <2> QED BY <2>1, <2>2, <1>1, <1>2 DEF IsInjective
<1> QED BY <1>1, <1>5, <1>6 DEF t

(* A queue with nobody in it is the empty one.                             *)
LEMMA EmptyIfNoRange ==
    ASSUME NEW S, NEW s \in Seq(S), Range(s) = {}
    PROVE  s = <<>>
BY TailRange

(* The empty channel and the empty queue.                                  *)
LEMMA EmptyRange == Range(<<>>) = {} /\ IsInjective(<<>>)
BY DEF Range, IsInjective
-----------------------------------------------------------------------------
(* IInv is inductive: one lemma for the steps of one kind *)

USE PoolAssumption

(* The initial state, before NewPool's first dial.                          *)
LEMMA InitIInv == Init => IInv
<1> SUFFICES ASSUME Init PROVE IInv
  OBVIOUS
<1>1. TypeOK
  <2>1. idle \in Seq(Conns) /\ parked \in Seq(Clients)
    BY EmptySeq DEF Init
  <2>2. pc \in [Clients -> ClientPC] /\ conn \in [Clients -> Conns \cup {NoConn}]
    BY DEF Init, ClientPC
  <2>3. retries \in [Clients -> 0..1]
    BY DEF Init
  <2> QED BY <2>1, <2>2, <2>3 DEF Init, TypeOK, MainPC, Free
<1>2. HoldInv /\ MutexInv /\ MutexHeld
  BY DEF Init, HoldInv, MutexInv, MutexHeld, HoldingPC, Free
<1>3. ParkInv
  BY EmptyRange DEF Init, ParkInv
<1>4. CloseInv /\ WaitInv
  BY DEF Init, CloseInv, WaitInv
<1>5. Sharing
  BY EmptyRange DEF Init, Sharing, ExclusiveOwner, NoUseAfterClose, NoSocketLeak
<1> QED BY <1>1, <1>2, <1>3, <1>4, <1>5 DEF IInv

(* Execute is called. *)
LEMMA CallStep ==
    ASSUME IInv, NEW c \in Clients, Call(c)
    PROVE  IInv'
<1>1. TypeOK'
  BY DEF IInv, Sharing, TypeOK, ClientPC, MainPC, Call, Goto, poolVars, socketVars, clientVars
<1>2. HoldInv'
  BY DEF IInv, Sharing, TypeOK, HoldInv, HoldingPC, Call, Goto, poolVars, socketVars, clientVars
<1>3. MutexInv' /\ MutexHeld'
  BY DEF IInv, Sharing, TypeOK, MutexInv, MutexHeld, Free, Call, Goto, poolVars, socketVars, clientVars
<1>4. ParkInv'
  BY DEF IInv, Sharing, TypeOK, ParkInv, Call, Goto, poolVars, socketVars, clientVars
<1>5. CloseInv'
  BY DEF IInv, Sharing, TypeOK, CloseInv, Call, Goto, poolVars, socketVars, clientVars
<1>6. WaitInv'
  BY DEF IInv, Sharing, TypeOK, WaitInv, ParkInv, Call, Goto, poolVars, socketVars, clientVars
<1>7. ExclusiveOwner'
  BY DEF IInv, Sharing, TypeOK, ExclusiveOwner, NoUseAfterClose, HoldInv, HoldingPC, Call, Goto, poolVars, socketVars, clientVars
<1>8. NoUseAfterClose'
  BY DEF IInv, Sharing, TypeOK, NoUseAfterClose, ExclusiveOwner, HoldInv, HoldingPC, Call, Goto, poolVars, socketVars, clientVars
<1>9. NoSocketLeak'
  BY DEF IInv, Sharing, TypeOK, NoSocketLeak, ExclusiveOwner, NoUseAfterClose, HoldInv, HoldingPC, Call, Goto, poolVars, socketVars, clientVars
<1> QED BY <1>1, <1>2, <1>3, <1>4, <1>5, <1>6, <1>7, <1>8, <1>9 DEF IInv, Sharing

(* What a receive that does not park does: one connection moves from the    *)
(* channel to the receiver, or the channel is closed and drained.           *)
LEMMA ReceiveEffect ==
    ASSUME IInv, NEW c \in Clients, Receive(c)
    PROVE  \/ \E k \in Range(idle) :
                 /\ k \in Conns
                 /\ conn' = [conn EXCEPT ![c] = k]
                 /\ idle' \in Seq(Conns)
                 /\ IsInjective(idle')
                 /\ Range(idle') = Range(idle) \ {k}
           \/ /\ chanClosed
              /\ conn' = [conn EXCEPT ![c] = NoConn]
              /\ idle' = idle
<1>1. CASE idle # <<>>
  <2>1. /\ Head(idle) \in Conns
        /\ Tail(idle) \in Seq(Conns)
        /\ Head(idle) \in Range(idle)
        /\ Range(idle) = Range(Tail(idle)) \cup {Head(idle)}
        /\ IsInjective(Tail(idle))
        /\ Head(idle) \notin Range(Tail(idle))
    BY <1>1, TailRange DEF IInv, TypeOK, Sharing, ExclusiveOwner
  <2>2. conn' = [conn EXCEPT ![c] = Head(idle)] /\ idle' = Tail(idle)
    BY <1>1 DEF Receive
  <2>3. Range(idle') = Range(idle) \ {Head(idle)} /\ IsInjective(idle')
    BY <2>1, <2>2, Zenon
  <2> QED BY <2>1, <2>2, <2>3
<1>2. CASE idle = <<>>
  BY <1>2 DEF Receive
<1> QED BY <1>1, <1>2

LEMMA ReceiveTypes ==
    ASSUME IInv, NEW c \in Clients, Receive(c)
    PROVE  idle' \in Seq(Conns) /\ conn' \in [Clients -> Conns \cup {NoConn}]
<1>1. idle' \in Seq(Conns)
  BY ReceiveEffect DEF IInv, TypeOK
<1>2. \E k \in Conns \cup {NoConn} : conn' = [conn EXCEPT ![c] = k]
  BY ReceiveEffect
<1>3. conn \in [Clients -> Conns \cup {NoConn}]
  BY DEF IInv, TypeOK
<1> QED BY <1>1, <1>2, <1>3

(* The fast path of acquire. *)
LEMMA AcquireIdleStep ==
    ASSUME IInv, NEW c \in Clients, AcquireIdle(c)
    PROVE  IInv'
<1>0. \/ \E k \in Range(idle) :
            /\ k \in Conns
            /\ conn' = [conn EXCEPT ![c] = k]
            /\ idle' \in Seq(Conns)
            /\ IsInjective(idle')
            /\ Range(idle') = Range(idle) \ {k}
      \/ /\ chanClosed
         /\ conn' = [conn EXCEPT ![c] = NoConn]
         /\ idle' = idle
  BY ReceiveEffect DEF AcquireIdle
<1>1. TypeOK'
  <2>1. idle' \in Seq(Conns) /\ conn' \in [Clients -> Conns \cup {NoConn}]
    BY ReceiveTypes DEF AcquireIdle
  <2> QED
    BY <2>1 DEF IInv, TypeOK, ClientPC, MainPC, AcquireIdle, Goto, poolVars, socketVars, clientVars
<1>2. HoldInv'
  BY <1>0 DEF IInv, Sharing, TypeOK, HoldInv, HoldingPC, AcquireIdle, Receive, Goto, poolVars, socketVars, clientVars
<1>3. MutexInv' /\ MutexHeld'
  BY <1>0 DEF IInv, Sharing, TypeOK, MutexInv, MutexHeld, Free, AcquireIdle, Receive, Goto, poolVars, socketVars, clientVars
<1>4. ParkInv'
  BY <1>0 DEF IInv, Sharing, TypeOK, ParkInv, AcquireIdle, Receive, Goto, poolVars, socketVars, clientVars
<1>5. CloseInv'
  BY <1>0 DEF IInv, Sharing, TypeOK, CloseInv, AcquireIdle, Receive, Goto, poolVars, socketVars, clientVars
<1>6. WaitInv'
  BY <1>0 DEF IInv, Sharing, TypeOK, WaitInv, ParkInv, AcquireIdle, Receive, Goto, poolVars, socketVars, clientVars
<1>7. ExclusiveOwner'
  BY <1>0 DEF IInv, Sharing, TypeOK, ExclusiveOwner, NoUseAfterClose, HoldInv, HoldingPC, AcquireIdle, Goto, poolVars, socketVars, clientVars
<1>8. NoUseAfterClose'
  BY <1>0 DEF IInv, Sharing, TypeOK, NoUseAfterClose, ExclusiveOwner, HoldInv, HoldingPC, AcquireIdle, Goto, poolVars, socketVars, clientVars
<1>9. NoSocketLeak'
  BY <1>0 DEF IInv, Sharing, TypeOK, NoSocketLeak, ExclusiveOwner, NoUseAfterClose, HoldInv, HoldingPC, AcquireIdle, Goto, poolVars, socketVars, clientVars
<1> QED BY <1>1, <1>2, <1>3, <1>4, <1>5, <1>6, <1>7, <1>8, <1>9 DEF IInv, Sharing

(* The channel was empty. *)
LEMMA AcquireMissStep ==
    ASSUME IInv, NEW c \in Clients, AcquireMiss(c)
    PROVE  IInv'
<1>1. TypeOK'
  BY DEF IInv, Sharing, TypeOK, ClientPC, MainPC, AcquireMiss, Goto, poolVars, socketVars, clientVars
<1>2. HoldInv'
  BY DEF IInv, Sharing, TypeOK, HoldInv, HoldingPC, AcquireMiss, Goto, poolVars, socketVars, clientVars
<1>3. MutexInv' /\ MutexHeld'
  BY DEF IInv, Sharing, TypeOK, MutexInv, MutexHeld, Free, AcquireMiss, Goto, poolVars, socketVars, clientVars
<1>4. ParkInv'
  BY DEF IInv, Sharing, TypeOK, ParkInv, AcquireMiss, Goto, poolVars, socketVars, clientVars
<1>5. CloseInv'
  BY DEF IInv, Sharing, TypeOK, CloseInv, AcquireMiss, Goto, poolVars, socketVars, clientVars
<1>6. WaitInv'
  BY DEF IInv, Sharing, TypeOK, WaitInv, ParkInv, AcquireMiss, Goto, poolVars, socketVars, clientVars
<1>7. ExclusiveOwner'
  BY DEF IInv, Sharing, TypeOK, ExclusiveOwner, NoUseAfterClose, HoldInv, HoldingPC, AcquireMiss, Goto, poolVars, socketVars, clientVars
<1>8. NoUseAfterClose'
  BY DEF IInv, Sharing, TypeOK, NoUseAfterClose, ExclusiveOwner, HoldInv, HoldingPC, AcquireMiss, Goto, poolVars, socketVars, clientVars
<1>9. NoSocketLeak'
  BY DEF IInv, Sharing, TypeOK, NoSocketLeak, ExclusiveOwner, NoUseAfterClose, HoldInv, HoldingPC, AcquireMiss, Goto, poolVars, socketVars, clientVars
<1> QED BY <1>1, <1>2, <1>3, <1>4, <1>5, <1>6, <1>7, <1>8, <1>9 DEF IInv, Sharing

(* The test under p.mu. *)
LEMMA CheckRoomStep ==
    ASSUME IInv, NEW c \in Clients, CheckRoom(c)
    PROVE  IInv'
<1>1. TypeOK'
  BY DEF IInv, Sharing, TypeOK, ClientPC, MainPC, CheckRoom, HasRoom, Goto, Free, poolVars, socketVars, clientVars
<1>2. HoldInv'
  BY DEF IInv, Sharing, TypeOK, HoldInv, HoldingPC, CheckRoom, HasRoom, Goto, Free, poolVars, socketVars, clientVars
<1>3. MutexInv' /\ MutexHeld'
  BY DEF IInv, Sharing, TypeOK, MutexInv, MutexHeld, Free, CheckRoom, HasRoom, Goto, Free, poolVars, socketVars, clientVars
<1>4. ParkInv'
  BY DEF IInv, Sharing, TypeOK, ParkInv, CheckRoom, HasRoom, Goto, Free, poolVars, socketVars, clientVars
<1>5. CloseInv'
  BY DEF IInv, Sharing, TypeOK, CloseInv, CheckRoom, HasRoom, Goto, Free, poolVars, socketVars, clientVars
<1>6. WaitInv'
  BY DEF IInv, Sharing, TypeOK, WaitInv, ParkInv, CheckRoom, HasRoom, Goto, Free, poolVars, socketVars, clientVars
<1>7. ExclusiveOwner'
  BY DEF IInv, Sharing, TypeOK, ExclusiveOwner, NoUseAfterClose, HoldInv, HoldingPC, CheckRoom, HasRoom, Goto, Free, poolVars, socketVars, clientVars
<1>8. NoUseAfterClose'
  BY DEF IInv, Sharing, TypeOK, NoUseAfterClose, ExclusiveOwner, HoldInv, HoldingPC, CheckRoom, HasRoom, Goto, Free, poolVars, socketVars, clientVars
<1>9. NoSocketLeak'
  BY DEF IInv, Sharing, TypeOK, NoSocketLeak, ExclusiveOwner, NoUseAfterClose, HoldInv, HoldingPC, CheckRoom, HasRoom, Goto, Free, poolVars, socketVars, clientVars
<1> QED BY <1>1, <1>2, <1>3, <1>4, <1>5, <1>6, <1>7, <1>8, <1>9 DEF IInv, Sharing

(* The waiting receive finds a connection. *)
LEMMA RecvNowStep ==
    ASSUME IInv, NEW c \in Clients, RecvNow(c)
    PROVE  IInv'
<1>0. \/ \E k \in Range(idle) :
            /\ k \in Conns
            /\ conn' = [conn EXCEPT ![c] = k]
            /\ idle' \in Seq(Conns)
            /\ IsInjective(idle')
            /\ Range(idle') = Range(idle) \ {k}
      \/ /\ chanClosed
         /\ conn' = [conn EXCEPT ![c] = NoConn]
         /\ idle' = idle
  BY ReceiveEffect DEF RecvNow
<1>1. TypeOK'
  <2>1. idle' \in Seq(Conns) /\ conn' \in [Clients -> Conns \cup {NoConn}]
    BY ReceiveTypes DEF RecvNow
  <2> QED
    BY <2>1 DEF IInv, TypeOK, ClientPC, MainPC, RecvNow, Goto, poolVars, socketVars, clientVars
<1>2. HoldInv'
  BY <1>0 DEF IInv, Sharing, TypeOK, HoldInv, HoldingPC, RecvNow, Receive, Goto, poolVars, socketVars, clientVars
<1>3. MutexInv' /\ MutexHeld'
  BY <1>0 DEF IInv, Sharing, TypeOK, MutexInv, MutexHeld, Free, RecvNow, Receive, Goto, poolVars, socketVars, clientVars
<1>4. ParkInv'
  BY <1>0 DEF IInv, Sharing, TypeOK, ParkInv, RecvNow, Receive, Goto, poolVars, socketVars, clientVars
<1>5. CloseInv'
  BY <1>0 DEF IInv, Sharing, TypeOK, CloseInv, RecvNow, Receive, Goto, poolVars, socketVars, clientVars
<1>6. WaitInv'
  BY <1>0 DEF IInv, Sharing, TypeOK, WaitInv, ParkInv, RecvNow, Receive, Goto, poolVars, socketVars, clientVars
<1>7. ExclusiveOwner'
  BY <1>0 DEF IInv, Sharing, TypeOK, ExclusiveOwner, NoUseAfterClose, HoldInv, HoldingPC, RecvNow, Goto, poolVars, socketVars, clientVars
<1>8. NoUseAfterClose'
  BY <1>0 DEF IInv, Sharing, TypeOK, NoUseAfterClose, ExclusiveOwner, HoldInv, HoldingPC, RecvNow, Goto, poolVars, socketVars, clientVars
<1>9. NoSocketLeak'
  BY <1>0 DEF IInv, Sharing, TypeOK, NoSocketLeak, ExclusiveOwner, NoUseAfterClose, HoldInv, HoldingPC, RecvNow, Goto, poolVars, socketVars, clientVars
<1> QED BY <1>1, <1>2, <1>3, <1>4, <1>5, <1>6, <1>7, <1>8, <1>9 DEF IInv, Sharing

(* The waiting receive parks. *)
LEMMA ParkStep ==
    ASSUME IInv, NEW c \in Clients, Park(c)
    PROVE  IInv'
<1>0. /\ Append(parked, c) \in Seq(Clients)
      /\ Append(parked, c) # <<>>
      /\ Range(Append(parked, c)) = Range(parked) \cup {c}
      /\ IsInjective(parked) /\ c \notin Range(parked) => IsInjective(Append(parked, c))
  BY AppendRange DEF IInv, TypeOK
<1>1. TypeOK'
  BY <1>0 DEF IInv, Sharing, TypeOK, ClientPC, MainPC, Park, Goto, poolVars, socketVars, clientVars
<1>2. HoldInv'
  BY <1>0 DEF IInv, Sharing, TypeOK, HoldInv, HoldingPC, Park, Goto, poolVars, socketVars, clientVars
<1>3. MutexInv' /\ MutexHeld'
  BY <1>0 DEF IInv, Sharing, TypeOK, MutexInv, MutexHeld, Free, Park, Goto, poolVars, socketVars, clientVars
<1>4. ParkInv'
  BY <1>0 DEF IInv, Sharing, TypeOK, ParkInv, Park, Goto, poolVars, socketVars, clientVars
<1>5. CloseInv'
  BY <1>0 DEF IInv, Sharing, TypeOK, CloseInv, Park, Goto, poolVars, socketVars, clientVars
<1>6. WaitInv'
  BY <1>0 DEF IInv, Sharing, TypeOK, WaitInv, ParkInv, Park, Goto, poolVars, socketVars, clientVars
<1>7. ExclusiveOwner'
  BY <1>0 DEF IInv, Sharing, TypeOK, ExclusiveOwner, NoUseAfterClose, HoldInv, HoldingPC, Park, Goto, poolVars, socketVars, clientVars
<1>8. NoUseAfterClose'
  BY <1>0 DEF IInv, Sharing, TypeOK, NoUseAfterClose, ExclusiveOwner, HoldInv, HoldingPC, Park, Goto, poolVars, socketVars, clientVars
<1>9. NoSocketLeak'
  BY <1>0 DEF IInv, Sharing, TypeOK, NoSocketLeak, ExclusiveOwner, NoUseAfterClose, HoldInv, HoldingPC, Park, Goto, poolVars, socketVars, clientVars
<1> QED BY <1>1, <1>2, <1>3, <1>4, <1>5, <1>6, <1>7, <1>8, <1>9 DEF IInv, Sharing

(* A new connection. *)
LEMMA DialStep ==
    ASSUME IInv, NEW c \in Clients, Dial(c)
    PROVE  IInv'
<1>1. TypeOK'
  BY DEF IInv, Sharing, TypeOK, ClientPC, MainPC, Dial, Goto, poolVars, socketVars, clientVars
<1>2. HoldInv'
  BY DEF IInv, Sharing, TypeOK, HoldInv, HoldingPC, Dial, Goto, poolVars, socketVars, clientVars
<1>3. MutexInv' /\ MutexHeld'
  BY DEF IInv, Sharing, TypeOK, MutexInv, MutexHeld, Free, Dial, Goto, poolVars, socketVars, clientVars
<1>4. ParkInv'
  BY DEF IInv, Sharing, TypeOK, ParkInv, Dial, Goto, poolVars, socketVars, clientVars
<1>5. CloseInv'
  BY DEF IInv, Sharing, TypeOK, CloseInv, Dial, Goto, poolVars, socketVars, clientVars
<1>6. WaitInv'
  BY DEF IInv, Sharing, TypeOK, WaitInv, ParkInv, Dial, Goto, poolVars, socketVars, clientVars
<1>7. ExclusiveOwner'
  BY DEF IInv, Sharing, TypeOK, ExclusiveOwner, NoUseAfterClose, HoldInv, HoldingPC, Dial, Goto, poolVars, socketVars, clientVars
<1>8. NoUseAfterClose'
  BY DEF IInv, Sharing, TypeOK, NoUseAfterClose, ExclusiveOwner, HoldInv, HoldingPC, Dial, Goto, poolVars, socketVars, clientVars
<1>9. NoSocketLeak'
  BY DEF IInv, Sharing, TypeOK, NoSocketLeak, ExclusiveOwner, NoUseAfterClose, HoldInv, HoldingPC, Dial, Goto, poolVars, socketVars, clientVars
<1> QED BY <1>1, <1>2, <1>3, <1>4, <1>5, <1>6, <1>7, <1>8, <1>9 DEF IInv, Sharing

(* No new connection. *)
LEMMA DialFailsStep ==
    ASSUME IInv, NEW c \in Clients, DialFails(c)
    PROVE  IInv'
<1>1. TypeOK'
  BY DEF IInv, Sharing, TypeOK, ClientPC, MainPC, DialFails, Goto, poolVars, socketVars, clientVars
<1>2. HoldInv'
  BY DEF IInv, Sharing, TypeOK, HoldInv, HoldingPC, DialFails, Goto, poolVars, socketVars, clientVars
<1>3. MutexInv' /\ MutexHeld'
  BY DEF IInv, Sharing, TypeOK, MutexInv, MutexHeld, Free, DialFails, Goto, poolVars, socketVars, clientVars
<1>4. ParkInv'
  BY DEF IInv, Sharing, TypeOK, ParkInv, DialFails, Goto, poolVars, socketVars, clientVars
<1>5. CloseInv'
  BY DEF IInv, Sharing, TypeOK, CloseInv, DialFails, Goto, poolVars, socketVars, clientVars
<1>6. WaitInv'
  BY DEF IInv, Sharing, TypeOK, WaitInv, ParkInv, DialFails, Goto, poolVars, socketVars, clientVars
<1>7. ExclusiveOwner'
  BY DEF IInv, Sharing, TypeOK, ExclusiveOwner, NoUseAfterClose, HoldInv, HoldingPC, DialFails, Goto, poolVars, socketVars, clientVars
<1>8. NoUseAfterClose'
  BY DEF IInv, Sharing, TypeOK, NoUseAfterClose, ExclusiveOwner, HoldInv, HoldingPC, DialFails, Goto, poolVars, socketVars, clientVars
<1>9. NoSocketLeak'
  BY DEF IInv, Sharing, TypeOK, NoSocketLeak, ExclusiveOwner, NoUseAfterClose, HoldInv, HoldingPC, DialFails, Goto, poolVars, socketVars, clientVars
<1> QED BY <1>1, <1>2, <1>3, <1>4, <1>5, <1>6, <1>7, <1>8, <1>9 DEF IInv, Sharing

(* The command is written. *)
LEMMA SendStep ==
    ASSUME IInv, NEW c \in Clients, Send(c)
    PROVE  IInv'
<1>1. TypeOK'
  BY DEF IInv, Sharing, TypeOK, ClientPC, MainPC, Send, Goto, poolVars, socketVars, clientVars
<1>2. HoldInv'
  BY DEF IInv, Sharing, TypeOK, HoldInv, HoldingPC, Send, Goto, poolVars, socketVars, clientVars
<1>3. MutexInv' /\ MutexHeld'
  BY DEF IInv, Sharing, TypeOK, MutexInv, MutexHeld, Free, Send, Goto, poolVars, socketVars, clientVars
<1>4. ParkInv'
  BY DEF IInv, Sharing, TypeOK, ParkInv, Send, Goto, poolVars, socketVars, clientVars
<1>5. CloseInv'
  BY DEF IInv, Sharing, TypeOK, CloseInv, Send, Goto, poolVars, socketVars, clientVars
<1>6. WaitInv'
  BY DEF IInv, Sharing, TypeOK, WaitInv, ParkInv, Send, Goto, poolVars, socketVars, clientVars
<1>7. ExclusiveOwner'
  BY DEF IInv, Sharing, TypeOK, ExclusiveOwner, NoUseAfterClose, HoldInv, HoldingPC, Send, Goto, poolVars, socketVars, clientVars
<1>8. NoUseAfterClose'
  BY DEF IInv, Sharing, TypeOK, NoUseAfterClose, ExclusiveOwner, HoldInv, HoldingPC, Send, Goto, poolVars, socketVars, clientVars
<1>9. NoSocketLeak'
  BY DEF IInv, Sharing, TypeOK, NoSocketLeak, ExclusiveOwner, NoUseAfterClose, HoldInv, HoldingPC, Send, Goto, poolVars, socketVars, clientVars
<1> QED BY <1>1, <1>2, <1>3, <1>4, <1>5, <1>6, <1>7, <1>8, <1>9 DEF IInv, Sharing

(* The nil connection. *)
LEMMA SendOnNilStep ==
    ASSUME IInv, NEW c \in Clients, SendOnNil(c)
    PROVE  IInv'
<1>1. TypeOK'
  BY DEF IInv, Sharing, TypeOK, ClientPC, MainPC, SendOnNil, Goto, poolVars, socketVars, clientVars
<1>2. HoldInv'
  BY DEF IInv, Sharing, TypeOK, HoldInv, HoldingPC, SendOnNil, Goto, poolVars, socketVars, clientVars
<1>3. MutexInv' /\ MutexHeld'
  BY DEF IInv, Sharing, TypeOK, MutexInv, MutexHeld, Free, SendOnNil, Goto, poolVars, socketVars, clientVars
<1>4. ParkInv'
  BY DEF IInv, Sharing, TypeOK, ParkInv, SendOnNil, Goto, poolVars, socketVars, clientVars
<1>5. CloseInv'
  BY DEF IInv, Sharing, TypeOK, CloseInv, SendOnNil, Goto, poolVars, socketVars, clientVars
<1>6. WaitInv'
  BY DEF IInv, Sharing, TypeOK, WaitInv, ParkInv, SendOnNil, Goto, poolVars, socketVars, clientVars
<1>7. ExclusiveOwner'
  BY DEF IInv, Sharing, TypeOK, ExclusiveOwner, NoUseAfterClose, HoldInv, HoldingPC, SendOnNil, Goto, poolVars, socketVars, clientVars
<1>8. NoUseAfterClose'
  BY DEF IInv, Sharing, TypeOK, NoUseAfterClose, ExclusiveOwner, HoldInv, HoldingPC, SendOnNil, Goto, poolVars, socketVars, clientVars
<1>9. NoSocketLeak'
  BY DEF IInv, Sharing, TypeOK, NoSocketLeak, ExclusiveOwner, NoUseAfterClose, HoldInv, HoldingPC, SendOnNil, Goto, poolVars, socketVars, clientVars
<1> QED BY <1>1, <1>2, <1>3, <1>4, <1>5, <1>6, <1>7, <1>8, <1>9 DEF IInv, Sharing

(* The response is read. *)
LEMMA ReadStep ==
    ASSUME IInv, NEW c \in Clients, Read(c)
    PROVE  IInv'
<1>1. TypeOK'
  BY DEF IInv, Sharing, TypeOK, ClientPC, MainPC, Read, Goto, poolVars, socketVars, clientVars
<1>2. HoldInv'
  BY DEF IInv, Sharing, TypeOK, HoldInv, HoldingPC, Read, Goto, poolVars, socketVars, clientVars
<1>3. MutexInv' /\ MutexHeld'
  BY DEF IInv, Sharing, TypeOK, MutexInv, MutexHeld, Free, Read, Goto, poolVars, socketVars, clientVars
<1>4. ParkInv'
  BY DEF IInv, Sharing, TypeOK, ParkInv, Read, Goto, poolVars, socketVars, clientVars
<1>5. CloseInv'
  BY DEF IInv, Sharing, TypeOK, CloseInv, Read, Goto, poolVars, socketVars, clientVars
<1>6. WaitInv'
  BY DEF IInv, Sharing, TypeOK, WaitInv, ParkInv, Read, Goto, poolVars, socketVars, clientVars
<1>7. ExclusiveOwner'
  BY DEF IInv, Sharing, TypeOK, ExclusiveOwner, NoUseAfterClose, HoldInv, HoldingPC, Read, Goto, poolVars, socketVars, clientVars
<1>8. NoUseAfterClose'
  BY DEF IInv, Sharing, TypeOK, NoUseAfterClose, ExclusiveOwner, HoldInv, HoldingPC, Read, Goto, poolVars, socketVars, clientVars
<1>9. NoSocketLeak'
  BY DEF IInv, Sharing, TypeOK, NoSocketLeak, ExclusiveOwner, NoUseAfterClose, HoldInv, HoldingPC, Read, Goto, poolVars, socketVars, clientVars
<1> QED BY <1>1, <1>2, <1>3, <1>4, <1>5, <1>6, <1>7, <1>8, <1>9 DEF IInv, Sharing

(* The connection broke. *)
LEMMA ExchangeFailsStep ==
    ASSUME IInv, NEW c \in Clients, ExchangeFails(c)
    PROVE  IInv'
<1>1. TypeOK'
  BY DEF IInv, Sharing, TypeOK, ClientPC, MainPC, ExchangeFails, DiscardAndRetry, poolVars, socketVars, clientVars
<1>2. HoldInv'
  BY DEF IInv, Sharing, TypeOK, HoldInv, HoldingPC, ExchangeFails, DiscardAndRetry, poolVars, socketVars, clientVars
<1>3. MutexInv' /\ MutexHeld'
  BY DEF IInv, Sharing, TypeOK, MutexInv, MutexHeld, Free, ExchangeFails, DiscardAndRetry, poolVars, socketVars, clientVars
<1>4. ParkInv'
  BY DEF IInv, Sharing, TypeOK, ParkInv, ExchangeFails, DiscardAndRetry, poolVars, socketVars, clientVars
<1>5. CloseInv'
  BY DEF IInv, Sharing, TypeOK, CloseInv, ExchangeFails, DiscardAndRetry, poolVars, socketVars, clientVars
<1>6. WaitInv'
  BY DEF IInv, Sharing, TypeOK, WaitInv, ParkInv, ExchangeFails, DiscardAndRetry, poolVars, socketVars, clientVars
<1>7. ExclusiveOwner'
  BY DEF IInv, Sharing, TypeOK, ExclusiveOwner, NoUseAfterClose, HoldInv, HoldingPC, ExchangeFails, DiscardAndRetry, poolVars, socketVars, clientVars
<1>8. NoUseAfterClose'
  BY DEF IInv, Sharing, TypeOK, NoUseAfterClose, ExclusiveOwner, HoldInv, HoldingPC, ExchangeFails, DiscardAndRetry, poolVars, socketVars, clientVars
<1>9. NoSocketLeak'
  BY DEF IInv, Sharing, TypeOK, NoSocketLeak, ExclusiveOwner, NoUseAfterClose, HoldInv, HoldingPC, ExchangeFails, DiscardAndRetry, poolVars, socketVars, clientVars
<1> QED BY <1>1, <1>2, <1>3, <1>4, <1>5, <1>6, <1>7, <1>8, <1>9 DEF IInv, Sharing

(* release tests p.closed. *)
LEMMA ReleaseLockStep ==
    ASSUME IInv, NEW c \in Clients, ReleaseLock(c)
    PROVE  IInv'
<1>1. TypeOK'
  BY DEF IInv, Sharing, TypeOK, ClientPC, MainPC, ReleaseLock, Goto, Free, poolVars, socketVars, clientVars
<1>2. HoldInv'
  BY DEF IInv, Sharing, TypeOK, HoldInv, HoldingPC, ReleaseLock, Goto, Free, poolVars, socketVars, clientVars
<1>3. MutexInv' /\ MutexHeld'
  BY DEF IInv, Sharing, TypeOK, MutexInv, MutexHeld, Free, ReleaseLock, Goto, Free, poolVars, socketVars, clientVars
<1>4. ParkInv'
  BY DEF IInv, Sharing, TypeOK, ParkInv, ReleaseLock, Goto, Free, poolVars, socketVars, clientVars
<1>5. CloseInv'
  BY DEF IInv, Sharing, TypeOK, CloseInv, ReleaseLock, Goto, Free, poolVars, socketVars, clientVars
<1>6. WaitInv'
  BY DEF IInv, Sharing, TypeOK, WaitInv, ParkInv, ReleaseLock, Goto, Free, poolVars, socketVars, clientVars
<1>7. ExclusiveOwner'
  BY DEF IInv, Sharing, TypeOK, ExclusiveOwner, NoUseAfterClose, HoldInv, HoldingPC, ReleaseLock, Goto, Free, poolVars, socketVars, clientVars
<1>8. NoUseAfterClose'
  BY DEF IInv, Sharing, TypeOK, NoUseAfterClose, ExclusiveOwner, HoldInv, HoldingPC, ReleaseLock, Goto, Free, poolVars, socketVars, clientVars
<1>9. NoSocketLeak'
  BY DEF IInv, Sharing, TypeOK, NoSocketLeak, ExclusiveOwner, NoUseAfterClose, HoldInv, HoldingPC, ReleaseLock, Goto, Free, poolVars, socketVars, clientVars
<1> QED BY <1>1, <1>2, <1>3, <1>4, <1>5, <1>6, <1>7, <1>8, <1>9 DEF IInv, Sharing

(* release closes. *)
LEMMA ReleaseCloseStep ==
    ASSUME IInv, NEW c \in Clients, ReleaseClose(c)
    PROVE  IInv'
<1>1. TypeOK'
  BY DEF IInv, Sharing, TypeOK, ClientPC, MainPC, ReleaseClose, Goto, Free, poolVars, socketVars, clientVars
<1>2. HoldInv'
  BY DEF IInv, Sharing, TypeOK, HoldInv, HoldingPC, ReleaseClose, Goto, Free, poolVars, socketVars, clientVars
<1>3. MutexInv' /\ MutexHeld'
  BY DEF IInv, Sharing, TypeOK, MutexInv, MutexHeld, Free, ReleaseClose, Goto, Free, poolVars, socketVars, clientVars
<1>4. ParkInv'
  BY DEF IInv, Sharing, TypeOK, ParkInv, ReleaseClose, Goto, Free, poolVars, socketVars, clientVars
<1>5. CloseInv'
  BY DEF IInv, Sharing, TypeOK, CloseInv, ReleaseClose, Goto, Free, poolVars, socketVars, clientVars
<1>6. WaitInv'
  BY DEF IInv, Sharing, TypeOK, WaitInv, ParkInv, ReleaseClose, Goto, Free, poolVars, socketVars, clientVars
<1>7. ExclusiveOwner'
  BY DEF IInv, Sharing, TypeOK, ExclusiveOwner, NoUseAfterClose, HoldInv, HoldingPC, ReleaseClose, Goto, Free, poolVars, socketVars, clientVars
<1>8. NoUseAfterClose'
  BY DEF IInv, Sharing, TypeOK, NoUseAfterClose, ExclusiveOwner, HoldInv, HoldingPC, ReleaseClose, Goto, Free, poolVars, socketVars, clientVars
<1>9. NoSocketLeak'
  BY DEF IInv, Sharing, TypeOK, NoSocketLeak, ExclusiveOwner, NoUseAfterClose, HoldInv, HoldingPC, ReleaseClose, Goto, Free, poolVars, socketVars, clientVars
<1> QED BY <1>1, <1>2, <1>3, <1>4, <1>5, <1>6, <1>7, <1>8, <1>9 DEF IInv, Sharing

(* A parked receiver gets the connection. *)
LEMMA ReturnHandOffStep ==
    ASSUME IInv, NEW c \in Clients, ReturnHandOff(c)
    PROVE  IInv'
<1> DEFINE d == Head(parked)
<1>0. /\ d \in Clients
      /\ Tail(parked) \in Seq(Clients)
      /\ d \in Range(parked)
      /\ Range(parked) = Range(Tail(parked)) \cup {d}
      /\ IsInjective(parked) => IsInjective(Tail(parked)) /\ d \notin Range(Tail(parked))
  BY TailRange DEF IInv, TypeOK, ReturnHandOff
<1>1. TypeOK'
  BY <1>0 DEF IInv, Sharing, TypeOK, ClientPC, MainPC, ReturnHandOff, Free, poolVars, socketVars, clientVars
<1>2. HoldInv'
  BY <1>0 DEF IInv, Sharing, TypeOK, HoldInv, HoldingPC, ReturnHandOff, Free, poolVars, socketVars, clientVars
<1>3. MutexInv' /\ MutexHeld'
  BY <1>0 DEF IInv, Sharing, TypeOK, MutexInv, MutexHeld, Free, ReturnHandOff, Free, poolVars, socketVars, clientVars
<1>4. ParkInv'
  BY <1>0 DEF IInv, Sharing, TypeOK, ParkInv, ReturnHandOff, Free, poolVars, socketVars, clientVars
<1>5. CloseInv'
  BY <1>0 DEF IInv, Sharing, TypeOK, CloseInv, ReturnHandOff, Free, poolVars, socketVars, clientVars
<1>6. WaitInv'
  BY <1>0 DEF IInv, Sharing, TypeOK, WaitInv, ParkInv, ReturnHandOff, Free, poolVars, socketVars, clientVars
<1>7. ExclusiveOwner'
  <2>1. c # d /\ conn[d] = NoConn /\ conn[c] # NoConn
    BY <1>0 DEF IInv, HoldInv, ParkInv, HoldingPC, ReturnHandOff
  <2>2. \A e \in Clients : conn'[e] = IF e = d THEN conn[c]
                                      ELSE IF e = c THEN NoConn ELSE conn[e]
    BY <1>0, <2>1 DEF IInv, TypeOK, ReturnHandOff
  <2>3. idle' = idle
    BY DEF ReturnHandOff
  <2>4. NoConn \notin Range(idle)
    BY DEF IInv, Sharing, NoUseAfterClose, TypeOK
  <2> QED BY <2>1, <2>2, <2>3, <2>4 DEF IInv, Sharing, ExclusiveOwner
<1>8. NoUseAfterClose'
  BY <1>0 DEF IInv, Sharing, TypeOK, NoUseAfterClose, ExclusiveOwner, HoldInv, HoldingPC, ReturnHandOff, Free, poolVars, socketVars, clientVars
<1>9. NoSocketLeak'
  <2>1. c # d /\ conn[d] = NoConn
    BY <1>0 DEF IInv, HoldInv, ParkInv, HoldingPC, ReturnHandOff
  <2>2. conn'[d] = conn[c] /\ \A e \in Clients \ {c, d} : conn'[e] = conn[e]
    BY <1>0, <2>1 DEF IInv, TypeOK, ReturnHandOff
  <2>3. open \subseteq Conns /\ NoConn \notin Conns
    BY DEF IInv, TypeOK
  <2>4. idle' = idle /\ open' = open
    BY DEF ReturnHandOff, socketVars
  <2> QED BY <1>0, <2>1, <2>2, <2>3, <2>4 DEF IInv, Sharing, NoSocketLeak
<1> QED BY <1>1, <1>2, <1>3, <1>4, <1>5, <1>6, <1>7, <1>8, <1>9 DEF IInv, Sharing

(* The connection goes into the channel. *)
LEMMA ReturnIdleStep ==
    ASSUME IInv, NEW c \in Clients, ReturnIdle(c)
    PROVE  IInv'
<1> DEFINE k == conn[c]
<1>0. /\ k \in Conns
      /\ Append(idle, k) \in Seq(Conns)
      /\ Append(idle, k) # <<>>
      /\ Range(Append(idle, k)) = Range(idle) \cup {k}
      /\ IsInjective(idle) /\ k \notin Range(idle) => IsInjective(Append(idle, k))
  BY AppendRange DEF IInv, TypeOK, HoldInv, HoldingPC, ReturnIdle, Goto
<1>1. TypeOK'
  BY <1>0 DEF IInv, Sharing, TypeOK, ClientPC, MainPC, ReturnIdle, Goto, Free, poolVars, socketVars, clientVars
<1>2. HoldInv'
  BY <1>0 DEF IInv, Sharing, TypeOK, HoldInv, HoldingPC, ReturnIdle, Goto, Free, poolVars, socketVars, clientVars
<1>3. MutexInv' /\ MutexHeld'
  BY <1>0 DEF IInv, Sharing, TypeOK, MutexInv, MutexHeld, Free, ReturnIdle, Goto, Free, poolVars, socketVars, clientVars
<1>4. ParkInv'
  BY <1>0 DEF IInv, Sharing, TypeOK, ParkInv, ReturnIdle, Goto, Free, poolVars, socketVars, clientVars
<1>5. CloseInv'
  BY <1>0 DEF IInv, Sharing, TypeOK, CloseInv, ReturnIdle, Goto, Free, poolVars, socketVars, clientVars
<1>6. WaitInv'
  BY <1>0 DEF IInv, Sharing, TypeOK, WaitInv, ParkInv, ReturnIdle, Goto, Free, poolVars, socketVars, clientVars
<1>7. ExclusiveOwner'
  BY <1>0 DEF IInv, Sharing, TypeOK, ExclusiveOwner, NoUseAfterClose, HoldInv, HoldingPC, ReturnIdle, Goto, Free, poolVars, socketVars, clientVars
<1>8. NoUseAfterClose'
  BY <1>0 DEF IInv, Sharing, TypeOK, NoUseAfterClose, ExclusiveOwner, HoldInv, HoldingPC, ReturnIdle, Goto, Free, poolVars, socketVars, clientVars
<1>9. NoSocketLeak'
  BY <1>0 DEF IInv, Sharing, TypeOK, NoSocketLeak, ExclusiveOwner, NoUseAfterClose, HoldInv, HoldingPC, ReturnIdle, Goto, Free, poolVars, socketVars, clientVars
<1> QED BY <1>1, <1>2, <1>3, <1>4, <1>5, <1>6, <1>7, <1>8, <1>9 DEF IInv, Sharing

(* The channel is full. *)
LEMMA ReturnExcessStep ==
    ASSUME IInv, NEW c \in Clients, ReturnExcess(c)
    PROVE  IInv'
<1>1. TypeOK'
  BY DEF IInv, Sharing, TypeOK, ClientPC, MainPC, ReturnExcess, Goto, poolVars, socketVars, clientVars
<1>2. HoldInv'
  BY DEF IInv, Sharing, TypeOK, HoldInv, HoldingPC, ReturnExcess, Goto, poolVars, socketVars, clientVars
<1>3. MutexInv' /\ MutexHeld'
  BY DEF IInv, Sharing, TypeOK, MutexInv, MutexHeld, Free, ReturnExcess, Goto, poolVars, socketVars, clientVars
<1>4. ParkInv'
  BY DEF IInv, Sharing, TypeOK, ParkInv, ReturnExcess, Goto, poolVars, socketVars, clientVars
<1>5. CloseInv'
  BY DEF IInv, Sharing, TypeOK, CloseInv, ReturnExcess, Goto, poolVars, socketVars, clientVars
<1>6. WaitInv'
  BY DEF IInv, Sharing, TypeOK, WaitInv, ParkInv, ReturnExcess, Goto, poolVars, socketVars, clientVars
<1>7. ExclusiveOwner'
  BY DEF IInv, Sharing, TypeOK, ExclusiveOwner, NoUseAfterClose, HoldInv, HoldingPC, ReturnExcess, Goto, poolVars, socketVars, clientVars
<1>8. NoUseAfterClose'
  BY DEF IInv, Sharing, TypeOK, NoUseAfterClose, ExclusiveOwner, HoldInv, HoldingPC, ReturnExcess, Goto, poolVars, socketVars, clientVars
<1>9. NoSocketLeak'
  BY DEF IInv, Sharing, TypeOK, NoSocketLeak, ExclusiveOwner, NoUseAfterClose, HoldInv, HoldingPC, ReturnExcess, Goto, poolVars, socketVars, clientVars
<1> QED BY <1>1, <1>2, <1>3, <1>4, <1>5, <1>6, <1>7, <1>8, <1>9 DEF IInv, Sharing

(* NewPool puts a connection into the channel. *)
LEMMA FillStep ==
    ASSUME IInv, Fill
    PROVE  IInv'
<1>1. PICK k \in Conns \ open : open' = open \cup {k} /\ idle' = Append(idle, k)
  BY DEF Fill
<1>2. k \notin Range(idle) /\ \A c \in Clients : conn[c] # k
  BY DEF IInv, TypeOK, Sharing, NoUseAfterClose
<1>3. /\ idle' \in Seq(Conns)
      /\ idle' # <<>>
      /\ Range(idle') = Range(idle) \cup {k}
      /\ IsInjective(idle')
  BY <1>1, <1>2, AppendRange DEF IInv, TypeOK, Sharing, ExclusiveOwner
<1>4. /\ main' = main /\ main = "fill"
      /\ UNCHANGED <<parked, chanClosed, closed, mu, broken, birdUp, pc, conn, retries>>
  BY DEF Fill, clientVars
<1>5. TypeOK'
  BY <1>1, <1>3, <1>4 DEF IInv, TypeOK
<1>6. HoldInv' /\ MutexInv' /\ MutexHeld'
  BY <1>4 DEF IInv, HoldInv, MutexInv, MutexHeld
<1>7. ParkInv'
  <2>1. \A c \in Clients : c \notin Range(parked)
    BY <1>4 DEF IInv, CloseInv, ParkInv
  <2>2. Range(parked) \subseteq Clients
    BY RangeOfSeq DEF IInv, TypeOK
  <2>3. parked = <<>>
    BY <2>1, <2>2, EmptyIfNoRange DEF IInv, TypeOK
  <2> QED BY <1>4, <2>3 DEF IInv, ParkInv
<1>8. CloseInv' /\ WaitInv'
  BY <1>3, <1>4 DEF IInv, CloseInv, WaitInv
<1>9. Sharing'
  BY <1>1, <1>2, <1>3, <1>4 DEF IInv, Sharing, ExclusiveOwner, NoUseAfterClose, NoSocketLeak
<1> QED BY <1>5, <1>6, <1>7, <1>8, <1>9 DEF IInv

(* NewPool gives up. *)
LEMMA FillFailsStep ==
    ASSUME IInv, FillFails
    PROVE  IInv'
<1>p. parked = <<>>
  <2>1. Range(parked) = {}
    <3>1. \A c \in Clients : c \notin Range(parked)
      BY DEF IInv, CloseInv, ParkInv, FillFails
    <3>2. Range(parked) \subseteq Clients
      BY RangeOfSeq DEF IInv, TypeOK
    <3> QED BY <3>1, <3>2
  <2> QED BY <2>1, EmptyIfNoRange DEF IInv, TypeOK
<1>1. TypeOK'
  BY EmptySeq DEF IInv, TypeOK, ClientPC, MainPC, FillFails, clientVars
<1>2. HoldInv'
  BY EmptyRange DEF IInv, Sharing, TypeOK, HoldInv, HoldingPC, FillFails, poolVars, socketVars, clientVars
<1>3. MutexInv' /\ MutexHeld'
  BY EmptyRange DEF IInv, Sharing, TypeOK, MutexInv, MutexHeld, Free, FillFails, poolVars, socketVars, clientVars
<1>4. ParkInv'
  BY <1>p DEF IInv, ParkInv, FillFails, clientVars
<1>5. CloseInv'
  BY EmptyRange DEF IInv, Sharing, TypeOK, CloseInv, FillFails, poolVars, socketVars, clientVars
<1>6. WaitInv'
  BY EmptyRange DEF IInv, Sharing, TypeOK, WaitInv, ParkInv, FillFails, poolVars, socketVars, clientVars
<1>7. ExclusiveOwner'
  BY EmptyRange DEF IInv, Sharing, TypeOK, ExclusiveOwner, NoUseAfterClose, HoldInv, HoldingPC, FillFails, poolVars, socketVars, clientVars
<1>8. NoUseAfterClose'
  BY EmptyRange DEF IInv, Sharing, TypeOK, NoUseAfterClose, ExclusiveOwner, HoldInv, HoldingPC, FillFails, poolVars, socketVars, clientVars
<1>9. NoSocketLeak'
  BY EmptyRange DEF IInv, Sharing, TypeOK, NoSocketLeak, ExclusiveOwner, NoUseAfterClose, HoldInv, HoldingPC, FillFails, poolVars, socketVars, clientVars
<1> QED BY <1>1, <1>2, <1>3, <1>4, <1>5, <1>6, <1>7, <1>8, <1>9 DEF IInv, Sharing

(* NewPool returns. *)
LEMMA FilledStep ==
    ASSUME IInv, Filled
    PROVE  IInv'
<1>1. TypeOK'
  BY DEF IInv, Sharing, TypeOK, ClientPC, MainPC, Filled, poolVars, socketVars, clientVars
<1>2. HoldInv'
  BY DEF IInv, Sharing, TypeOK, HoldInv, HoldingPC, Filled, poolVars, socketVars, clientVars
<1>3. MutexInv' /\ MutexHeld'
  BY DEF IInv, Sharing, TypeOK, MutexInv, MutexHeld, Free, Filled, poolVars, socketVars, clientVars
<1>4. ParkInv'
  BY DEF IInv, Sharing, TypeOK, ParkInv, Filled, poolVars, socketVars, clientVars
<1>5. CloseInv'
  BY DEF IInv, Sharing, TypeOK, CloseInv, Filled, poolVars, socketVars, clientVars
<1>6. WaitInv'
  BY DEF IInv, Sharing, TypeOK, WaitInv, ParkInv, Filled, poolVars, socketVars, clientVars
<1>7. ExclusiveOwner'
  BY DEF IInv, Sharing, TypeOK, ExclusiveOwner, NoUseAfterClose, HoldInv, HoldingPC, Filled, poolVars, socketVars, clientVars
<1>8. NoUseAfterClose'
  BY DEF IInv, Sharing, TypeOK, NoUseAfterClose, ExclusiveOwner, HoldInv, HoldingPC, Filled, poolVars, socketVars, clientVars
<1>9. NoSocketLeak'
  BY DEF IInv, Sharing, TypeOK, NoSocketLeak, ExclusiveOwner, NoUseAfterClose, HoldInv, HoldingPC, Filled, poolVars, socketVars, clientVars
<1> QED BY <1>1, <1>2, <1>3, <1>4, <1>5, <1>6, <1>7, <1>8, <1>9 DEF IInv, Sharing

(* Close takes p.mu, which no client is between test and send of. *)
LEMMA SetClosedStep ==
    ASSUME IInv, SetClosed
    PROVE  IInv'
<1>1. TypeOK'
  BY DEF IInv, Sharing, TypeOK, ClientPC, MainPC, SetClosed, poolVars, socketVars, clientVars
<1>2. HoldInv'
  BY DEF IInv, Sharing, TypeOK, HoldInv, HoldingPC, SetClosed, poolVars, socketVars, clientVars
<1>3. MutexInv' /\ MutexHeld'
  BY DEF IInv, Sharing, TypeOK, MutexInv, MutexHeld, Free, SetClosed, poolVars, socketVars, clientVars
<1>4. ParkInv'
  BY DEF IInv, Sharing, TypeOK, ParkInv, SetClosed, poolVars, socketVars, clientVars
<1>5. CloseInv'
  BY DEF IInv, TypeOK, MutexHeld, Free, CloseInv, SetClosed, clientVars
<1>6. WaitInv'
  BY DEF IInv, Sharing, TypeOK, WaitInv, ParkInv, SetClosed, poolVars, socketVars, clientVars
<1>7. ExclusiveOwner'
  BY DEF IInv, Sharing, TypeOK, ExclusiveOwner, NoUseAfterClose, HoldInv, HoldingPC, SetClosed, poolVars, socketVars, clientVars
<1>8. NoUseAfterClose'
  BY DEF IInv, Sharing, TypeOK, NoUseAfterClose, ExclusiveOwner, HoldInv, HoldingPC, SetClosed, poolVars, socketVars, clientVars
<1>9. NoSocketLeak'
  BY DEF IInv, Sharing, TypeOK, NoSocketLeak, ExclusiveOwner, NoUseAfterClose, HoldInv, HoldingPC, SetClosed, poolVars, socketVars, clientVars
<1> QED BY <1>1, <1>2, <1>3, <1>4, <1>5, <1>6, <1>7, <1>8, <1>9 DEF IInv, Sharing

(* Close wakes the parked receivers. *)
LEMMA CloseChanStep ==
    ASSUME IInv, CloseChan
    PROVE  IInv'
<1>1. TypeOK'
  BY EmptyRange DEF IInv, Sharing, TypeOK, ClientPC, MainPC, CloseChan, poolVars, socketVars, clientVars
<1>2. HoldInv'
  BY EmptyRange DEF IInv, Sharing, TypeOK, HoldInv, HoldingPC, CloseChan, poolVars, socketVars, clientVars
<1>3. MutexInv' /\ MutexHeld'
  BY DEF IInv, TypeOK, ParkInv, MutexInv, MutexHeld, Free, CloseChan
<1>4. ParkInv'
  BY EmptyRange DEF IInv, Sharing, TypeOK, ParkInv, CloseChan, poolVars, socketVars, clientVars
<1>5. CloseInv'
  BY EmptyRange DEF IInv, Sharing, TypeOK, CloseInv, CloseChan, poolVars, socketVars, clientVars
<1>6. WaitInv'
  BY EmptyRange DEF IInv, Sharing, TypeOK, WaitInv, ParkInv, CloseChan, poolVars, socketVars, clientVars
<1>7. ExclusiveOwner'
  BY EmptyRange DEF IInv, Sharing, TypeOK, ExclusiveOwner, NoUseAfterClose, HoldInv, HoldingPC, CloseChan, poolVars, socketVars, clientVars
<1>8. NoUseAfterClose'
  BY EmptyRange DEF IInv, Sharing, TypeOK, NoUseAfterClose, ExclusiveOwner, HoldInv, HoldingPC, CloseChan, poolVars, socketVars, clientVars
<1>9. NoSocketLeak'
  BY EmptyRange DEF IInv, Sharing, TypeOK, NoSocketLeak, ExclusiveOwner, NoUseAfterClose, HoldInv, HoldingPC, CloseChan, poolVars, socketVars, clientVars
<1> QED BY <1>1, <1>2, <1>3, <1>4, <1>5, <1>6, <1>7, <1>8, <1>9 DEF IInv, Sharing

(* Close drains the channel. *)
LEMMA DrainStep ==
    ASSUME IInv, Drain
    PROVE  IInv'
<1>1. CASE idle = <<>>
  BY <1>1 DEF IInv, TypeOK, MainPC, HoldInv, MutexInv, MutexHeld, ParkInv, CloseInv, WaitInv,
     Sharing, ExclusiveOwner, NoUseAfterClose, NoSocketLeak, Drain, clientVars
<1>2. CASE idle # <<>>
  <2>1. PICK k \in Range(idle) :
           /\ open' = open \ {k}
           /\ broken' = broken \ {k}
           /\ idle' \in Seq(Conns)
           /\ IsInjective(idle')
           /\ Range(idle') = Range(idle) \ {k}
    <3>1. /\ Tail(idle) \in Seq(Conns)
          /\ Head(idle) \in Range(idle)
          /\ IsInjective(Tail(idle))
          /\ Range(Tail(idle)) = Range(idle) \ {Head(idle)}
      BY <1>2, TailRange DEF IInv, TypeOK, Sharing, ExclusiveOwner
    <3> QED BY <1>2, <3>1 DEF Drain
  <2>2. /\ main' = main /\ main = "drain"
        /\ UNCHANGED <<parked, chanClosed, closed, mu, birdUp, pc, conn, retries>>
    BY <1>2 DEF Drain, clientVars
  <2>3. TypeOK'
    BY <2>1, <2>2 DEF IInv, TypeOK
  <2>4. HoldInv' /\ MutexInv' /\ MutexHeld'
    BY <2>2 DEF IInv, HoldInv, MutexInv, MutexHeld
  <2>5. CloseInv' /\ WaitInv'
    BY <2>2 DEF IInv, CloseInv, WaitInv
  <2>6. ParkInv'
    BY <2>2 DEF IInv, CloseInv, ParkInv
  <2>7. Sharing'
    BY <2>1, <2>2 DEF IInv, Sharing, ExclusiveOwner, NoUseAfterClose, NoSocketLeak
  <2> QED BY <2>3, <2>4, <2>5, <2>6, <2>7 DEF IInv
<1> QED BY <1>1, <1>2

(* BIRD drops its connections. *)
LEMMA BirdStopsStep ==
    ASSUME IInv, BirdStops
    PROVE  IInv'
<1>1. TypeOK'
  BY DEF IInv, Sharing, TypeOK, ClientPC, MainPC, BirdStops, poolVars, socketVars, clientVars
<1>2. HoldInv'
  BY DEF IInv, Sharing, TypeOK, HoldInv, HoldingPC, BirdStops, poolVars, socketVars, clientVars
<1>3. MutexInv' /\ MutexHeld'
  BY DEF IInv, Sharing, TypeOK, MutexInv, MutexHeld, Free, BirdStops, poolVars, socketVars, clientVars
<1>4. ParkInv'
  BY DEF IInv, Sharing, TypeOK, ParkInv, BirdStops, poolVars, socketVars, clientVars
<1>5. CloseInv'
  BY DEF IInv, Sharing, TypeOK, CloseInv, BirdStops, poolVars, socketVars, clientVars
<1>6. WaitInv'
  BY DEF IInv, Sharing, TypeOK, WaitInv, ParkInv, BirdStops, poolVars, socketVars, clientVars
<1>7. ExclusiveOwner'
  BY DEF IInv, Sharing, TypeOK, ExclusiveOwner, NoUseAfterClose, HoldInv, HoldingPC, BirdStops, poolVars, socketVars, clientVars
<1>8. NoUseAfterClose'
  BY DEF IInv, Sharing, TypeOK, NoUseAfterClose, ExclusiveOwner, HoldInv, HoldingPC, BirdStops, poolVars, socketVars, clientVars
<1>9. NoSocketLeak'
  BY DEF IInv, Sharing, TypeOK, NoSocketLeak, ExclusiveOwner, NoUseAfterClose, HoldInv, HoldingPC, BirdStops, poolVars, socketVars, clientVars
<1> QED BY <1>1, <1>2, <1>3, <1>4, <1>5, <1>6, <1>7, <1>8, <1>9 DEF IInv, Sharing

(* BIRD is back. *)
LEMMA BirdStartsStep ==
    ASSUME IInv, BirdStarts
    PROVE  IInv'
<1>1. TypeOK'
  BY DEF IInv, Sharing, TypeOK, ClientPC, MainPC, BirdStarts, poolVars, socketVars, clientVars
<1>2. HoldInv'
  BY DEF IInv, Sharing, TypeOK, HoldInv, HoldingPC, BirdStarts, poolVars, socketVars, clientVars
<1>3. MutexInv' /\ MutexHeld'
  BY DEF IInv, Sharing, TypeOK, MutexInv, MutexHeld, Free, BirdStarts, poolVars, socketVars, clientVars
<1>4. ParkInv'
  BY DEF IInv, Sharing, TypeOK, ParkInv, BirdStarts, poolVars, socketVars, clientVars
<1>5. CloseInv'
  BY DEF IInv, Sharing, TypeOK, CloseInv, BirdStarts, poolVars, socketVars, clientVars
<1>6. WaitInv'
  BY DEF IInv, Sharing, TypeOK, WaitInv, ParkInv, BirdStarts, poolVars, socketVars, clientVars
<1>7. ExclusiveOwner'
  BY DEF IInv, Sharing, TypeOK, ExclusiveOwner, NoUseAfterClose, HoldInv, HoldingPC, BirdStarts, poolVars, socketVars, clientVars
<1>8. NoUseAfterClose'
  BY DEF IInv, Sharing, TypeOK, NoUseAfterClose, ExclusiveOwner, HoldInv, HoldingPC, BirdStarts, poolVars, socketVars, clientVars
<1>9. NoSocketLeak'
  BY DEF IInv, Sharing, TypeOK, NoSocketLeak, ExclusiveOwner, NoUseAfterClose, HoldInv, HoldingPC, BirdStarts, poolVars, socketVars, clientVars
<1> QED BY <1>1, <1>2, <1>3, <1>4, <1>5, <1>6, <1>7, <1>8, <1>9 DEF IInv, Sharing

(* Every step of the specification preserves IInv.                          *)
LEMMA NextIInv == IInv /\ [Next]_vars => IInv'
<1> SUFFICES ASSUME IInv, [Next]_vars PROVE IInv'
  OBVIOUS
<1>1. CASE MainStep
  BY <1>1, FillStep, FillFailsStep, FilledStep, SetClosedStep, CloseChanStep, DrainStep
     DEF MainStep
<1>2. ASSUME NEW c \in Clients, Call(c) PROVE IInv'
  BY <1>2, CallStep
<1>3. ASSUME NEW c \in Clients, ClientStep(c) PROVE IInv'
  BY <1>3, AcquireIdleStep, AcquireMissStep, CheckRoomStep, RecvNowStep, ParkStep,
     DialStep, DialFailsStep, SendStep, SendOnNilStep, ReadStep, ExchangeFailsStep,
     ReleaseLockStep, ReleaseCloseStep, ReturnHandOffStep, ReturnIdleStep, ReturnExcessStep
     DEF ClientStep
<1>4. CASE BirdStops \/ BirdStarts
  BY <1>4, BirdStopsStep, BirdStartsStep
<1>5. CASE UNCHANGED vars
  BY <1>5 DEF vars, poolVars, socketVars, clientVars, IInv, TypeOK, HoldInv, MutexInv, MutexHeld,
     ParkInv, CloseInv, WaitInv, Sharing, ExclusiveOwner, NoUseAfterClose, NoSocketLeak
<1> QED BY <1>1, <1>2, <1>3, <1>4, <1>5 DEF Next

(* The inductive invariant holds of every reachable state.                 *)
LEMMA Invariance == Spec => []IInv
BY InitIInv, NextIInv, PTL DEF Spec

-----------------------------------------------------------------------------
(* Theorems *)

(* Every variable of the pool keeps its type.                              *)
THEOREM TypeCorrect == Spec => []TypeOK
<1>1. IInv => TypeOK
  BY DEF IInv
<1> QED BY Invariance, <1>1, PTL

(* A socket is in the channel once or held by one client, however the       *)
(* clients, BIRD's failures and the shutdown interleave.                    *)
THEOREM OwnershipIsExclusive == Spec => []ExclusiveOwner
<1>1. IInv => ExclusiveOwner
  BY DEF IInv, Sharing
<1> QED BY Invariance, <1>1, PTL

(* Nothing in the channel or in a client's hands has been closed.          *)
THEOREM ClosedIsNotUsed == Spec => []NoUseAfterClose
<1>1. IInv => NoUseAfterClose
  BY DEF IInv, Sharing
<1> QED BY Invariance, <1>1, PTL

(* Every open socket is in the channel or held by a client.                *)
THEOREM SocketsDoNotLeak == Spec => []NoSocketLeak
<1>1. IInv => NoSocketLeak
  BY DEF IInv, Sharing
<1> QED BY Invariance, <1>1, PTL

(* release() never sends on the closed channel: p.closed is set under the   *)
(* mutex before the channel is closed.                                      *)
THEOREM SendsOnOpenChannel == Spec => []NoSendOnClosed
<1>1. IInv => NoSendOnClosed
  BY DEF IInv, CloseInv, NoSendOnClosed
<1> QED BY Invariance, <1>1, PTL

(* The clients are never all parked, whatever their number and MaxSize > 0. *)
THEOREM SomebodyIsAwake == Spec => []NeverAllParked
<1>1. IInv => NeverAllParked
  <2> SUFFICES ASSUME IInv, MaxSize > 0, Clients # {},
                      \A c \in Clients : pc[c] = "parked"
               PROVE  FALSE
    BY DEF NeverAllParked
  <2>1. idle # <<>> \/ chanClosed
    BY DEF IInv, WaitInv
  <2>2. parked # <<>>
    BY EmptyRange DEF IInv, ParkInv
  <2> QED BY <2>1, <2>2 DEF IInv, ParkInv
<1> QED BY Invariance, <1>1, PTL

(* After Close() only commands still in progress have a socket open.       *)
THEOREM CloseIsComplete == Spec => []ClosedLeavesNothing
<1>1. IInv => ClosedLeavesNothing
  BY EmptyRange DEF IInv, Sharing, CloseInv, HoldInv, HoldingPC, TypeOK, NoSocketLeak,
     ClosedLeavesNothing
<1> QED BY Invariance, <1>1, PTL

-----------------------------------------------------------------------------
(* The pool implements SocketOwnership                                     *)

(* The owner of a socket, read off the state instead of chosen.            *)
OwnersAreKnown ==
    /\ ownerOf = [k \in Conns |-> ownerOf[k]]
    /\ \A k \in Conns :
          /\ k \notin open => ownerOf[k] = NoConn
          /\ k \in Range(idle) => ownerOf[k] = Main
          /\ \A c \in Clients : conn[c] = k => ownerOf[k] = c
          /\ k \notin open \/ k \in Range(idle) \/ \E c \in Clients : conn[c] = k

LEMMA OwnerIs == IInv => OwnersAreKnown
<1> SUFFICES ASSUME IInv PROVE OwnersAreKnown
  OBVIOUS
<1>1. ownerOf = [k \in Conns |-> ownerOf[k]]
  BY DEF ownerOf
<1>2. ASSUME NEW k \in Conns
      PROVE  /\ k \notin open => ownerOf[k] = NoConn
             /\ k \in Range(idle) => ownerOf[k] = Main
             /\ \A c \in Clients : conn[c] = k => ownerOf[k] = c
             /\ k \notin open \/ k \in Range(idle) \/ \E c \in Clients : conn[c] = k
  <2>1. k \in Range(idle) => k \in open
    BY DEF IInv, Sharing, NoUseAfterClose
  <2>2. ASSUME NEW c \in Clients, conn[c] = k
        PROVE  k \in open /\ k \notin Range(idle) /\ \A d \in Clients : conn[d] = k => d = c
    BY <2>2 DEF IInv, Sharing, ExclusiveOwner, NoUseAfterClose
  <2>3. k \in open /\ k \notin Range(idle) => \E c \in Clients : conn[c] = k
    BY DEF IInv, Sharing, NoSocketLeak
  <2> QED
    BY <2>1, <2>2, <2>3, Zenon DEF ownerOf
<1> QED
  BY <1>1, <1>2 DEF OwnersAreKnown

LEMMA OwnerIsNext == IInv' => OwnersAreKnown'
BY OwnerIs, PTL

LEMMA EmptyHandedIs ==
    ASSUME OwnersAreKnown, NEW c \in Clients, conn[c] = NoConn
    PROVE  Sockets!EmptyHanded(c)
<1> SUFFICES ASSUME NEW k \in Conns, ownerOf[k] = c PROVE FALSE
  BY DEF Sockets!EmptyHanded
<1> QED
  BY DEF OwnersAreKnown

(* Where nothing happens to a socket, its owner stays.                     *)
LEMMA OwnerStays ==
    ASSUME OwnersAreKnown, OwnersAreKnown', NEW j \in Conns,
           j \in open' <=> j \in open,
           j \in Range(idle') <=> j \in Range(idle),
           \A c \in Clients : conn'[c] = j <=> conn[c] = j
    PROVE  ownerOf'[j] = ownerOf[j]
BY DEF OwnersAreKnown

(* Where something happens to one only, it changes hands.                  *)
LEMMA MoveIs ==
    ASSUME OwnersAreKnown, OwnersAreKnown', NEW k \in Conns, UNCHANGED closed,
           \A j \in Conns \ {k} :
              /\ j \in open' <=> j \in open
              /\ j \in Range(idle') <=> j \in Range(idle)
              /\ \A c \in Clients : conn'[c] = j <=> conn[c] = j
    PROVE  Sockets!Move(k, ownerOf[k], ownerOf'[k])
<1>1. \A j \in Conns \ {k} : ownerOf'[j] = ownerOf[j]
  BY OwnerStays
<1>2. ownerOf' = [ownerOf EXCEPT ![k] = ownerOf'[k]]
  BY <1>1 DEF OwnersAreKnown
<1> QED
  BY <1>2 DEF Sockets!Move

SameOwners == UNCHANGED <<open, idle, conn, closed>>

LEMMA SameOwnersStutter == SameOwners => UNCHANGED Sockets!vars
BY DEF SameOwners, ownerOf, Sockets!vars

(* What a client does moves one socket, or none.                           *)
LEMMA TakesSocket ==
    ASSUME IInv, IInv', NEW c \in Clients, AcquireIdle(c) \/ RecvNow(c)
    PROVE  SameOwners \/ \E k \in Conns : Sockets!Take(c, k)
<1>1. conn[c] = NoConn /\ Receive(c) /\ UNCHANGED <<open, closed>>
  BY DEF AcquireIdle, RecvNow, Goto, socketVars, IInv, HoldInv, HoldingPC
<1>2. CASE chanClosed /\ conn' = [conn EXCEPT ![c] = NoConn] /\ idle' = idle
  BY <1>1, <1>2 DEF IInv, TypeOK, SameOwners
<1>3. ASSUME NEW k \in Range(idle), k \in Conns, conn' = [conn EXCEPT ![c] = k],
             IsInjective(idle'), Range(idle') = Range(idle) \ {k}
      PROVE  Sockets!Take(c, k)
  <2>1. OwnersAreKnown /\ OwnersAreKnown'
    BY OwnerIs, OwnerIsNext
  <2>2. ownerOf[k] = Main /\ ownerOf'[k] = c
    BY <1>3, <2>1 DEF OwnersAreKnown, IInv, TypeOK
  <2>3. Sockets!Move(k, ownerOf[k], ownerOf'[k])
    BY <1>1, <1>3, <2>1, MoveIs, ZenonT(40) DEF IInv, TypeOK
  <2> QED
    BY <1>1, <2>1, <2>2, <2>3, EmptyHandedIs DEF Sockets!Take
<1> QED
  BY <1>1, <1>2, <1>3, ReceiveEffect

LEMMA OpensSocket ==
    ASSUME IInv, IInv', NEW c \in Clients, Dial(c)
    PROVE  \E k \in Conns : Sockets!Open(c, k)
<1>1. PICK k \in Conns \ open : open' = open \cup {k} /\ conn' = [conn EXCEPT ![c] = k]
  BY DEF Dial
<1>2. conn[c] = NoConn /\ UNCHANGED <<idle, closed>>
  BY DEF Dial, Goto, poolVars, IInv, HoldInv, HoldingPC
<1>3. OwnersAreKnown /\ OwnersAreKnown'
  BY OwnerIs, OwnerIsNext
<1>4. ownerOf[k] = NoConn /\ ownerOf'[k] = c
  BY <1>1, <1>3 DEF OwnersAreKnown, IInv, TypeOK
<1>5. Sockets!Move(k, ownerOf[k], ownerOf'[k])
  BY <1>1, <1>2, <1>3, MoveIs DEF IInv, TypeOK
<1> QED
  BY <1>2, <1>3, <1>4, <1>5, EmptyHandedIs DEF Sockets!Open

LEMMA DropsSocket ==
    ASSUME IInv, IInv', NEW c \in Clients, ExchangeFails(c) \/ ReleaseClose(c)
    PROVE  \E k \in Conns : Sockets!Drop(c, k)
<1>1. /\ conn[c] \in Conns
      /\ open' = open \ {conn[c]} /\ conn' = [conn EXCEPT ![c] = NoConn]
      /\ UNCHANGED <<idle, closed>>
  BY DEF ExchangeFails, DiscardAndRetry, ReleaseClose, Goto, poolVars, IInv, TypeOK, HoldInv, HoldingPC
<1>2. OwnersAreKnown /\ OwnersAreKnown'
  BY OwnerIs, OwnerIsNext
<1>3. ownerOf[conn[c]] = c /\ ownerOf'[conn[c]] = NoConn
  BY <1>1, <1>2 DEF OwnersAreKnown
<1>4. Sockets!Move(conn[c], ownerOf[conn[c]], ownerOf'[conn[c]])
  BY <1>1, <1>2, MoveIs DEF IInv, TypeOK
<1> QED
  BY <1>1, <1>3, <1>4 DEF Sockets!Drop

LEMMA ReturnsSocket ==
    ASSUME IInv, IInv', NEW c \in Clients, ReturnIdle(c)
    PROVE  \E k \in Conns : Sockets!Give(c, k)
<1>1. /\ conn[c] \in Conns /\ idle' = Append(idle, conn[c])
      /\ conn' = [conn EXCEPT ![c] = NoConn] /\ UNCHANGED <<open, closed>>
      /\ ~closed
  BY DEF ReturnIdle, Goto, socketVars, IInv, TypeOK, HoldInv, HoldingPC, CloseInv
<1>2. Range(idle') = Range(idle) \cup {conn[c]}
  BY <1>1, AppendRange DEF IInv, TypeOK
<1>3. OwnersAreKnown /\ OwnersAreKnown'
  BY OwnerIs, OwnerIsNext
<1>4. ownerOf[conn[c]] = c /\ ownerOf'[conn[c]] = Main
  BY <1>1, <1>2, <1>3 DEF OwnersAreKnown
<1>5. Sockets!Move(conn[c], ownerOf[conn[c]], ownerOf'[conn[c]])
  BY <1>1, <1>2, <1>3, MoveIs DEF IInv, TypeOK
<1> QED
  BY <1>1, <1>4, <1>5 DEF Sockets!Give

LEMMA HandsSocketOff ==
    ASSUME IInv, IInv', NEW c \in Clients, ReturnHandOff(c)
    PROVE  \E k \in Conns, d \in Clients \ {c} : Sockets!HandOff(c, d, k)
<1> DEFINE d == Head(parked)
<1>1. d \in Clients /\ pc[d] = "parked"
  BY TailRange DEF ReturnHandOff, IInv, TypeOK, ParkInv
<1>2. d # c /\ conn[d] = NoConn /\ conn[c] \in Conns /\ ~closed
  BY <1>1 DEF ReturnHandOff, IInv, TypeOK, HoldInv, HoldingPC, CloseInv
<1>3. /\ conn' = [conn EXCEPT ![c] = NoConn, ![d] = conn[c]]
      /\ UNCHANGED <<idle, open, closed>>
  BY DEF ReturnHandOff, socketVars
<1> HIDE DEF d
<1>4. /\ conn'[c] = NoConn /\ conn'[d] = conn[c]
      /\ \A e \in Clients \ {c, d} : conn'[e] = conn[e]
  BY <1>1, <1>2, <1>3 DEF IInv, TypeOK
<1>5. OwnersAreKnown /\ OwnersAreKnown'
  BY OwnerIs, OwnerIsNext
<1>6. ownerOf[conn[c]] = c /\ ownerOf'[conn[c]] = d
  BY <1>1, <1>2, <1>4, <1>5 DEF OwnersAreKnown
<1>7. Sockets!Move(conn[c], ownerOf[conn[c]], ownerOf'[conn[c]])
  BY <1>1, <1>2, <1>3, <1>4, <1>5, MoveIs, ZenonT(40)
<1> QED
  BY <1>1, <1>2, <1>5, <1>6, <1>7, EmptyHandedIs DEF Sockets!HandOff

(* Close() empties the pool bit by bit; NewPool fills it the same way, and  *)
(* empties it at once when it fails.                                        *)
LEMMA MainMovesSockets ==
    ASSUME IInv, IInv', MainStep
    PROVE  SameOwners \/ Sockets!Shut \/ \E k \in Conns : Sockets!Prefill(k) \/ Sockets!Evict(k)
<1>0. OwnersAreKnown /\ OwnersAreKnown'
  BY OwnerIs, OwnerIsNext
<1>1. CASE Fill
  <2>1. PICK k \in Conns \ open : open' = open \cup {k} /\ idle' = Append(idle, k)
    BY <1>1 DEF Fill
  <2>2. Range(idle') = Range(idle) \cup {k} /\ UNCHANGED <<closed, conn>> /\ ~closed
    BY <1>1, <2>1, AppendRange DEF Fill, clientVars, IInv, TypeOK, CloseInv
  <2>3. ownerOf[k] = NoConn /\ ownerOf'[k] = Main
    BY <1>0, <2>1, <2>2 DEF OwnersAreKnown
  <2>4. Sockets!Move(k, ownerOf[k], ownerOf'[k])
    BY <1>0, <2>1, <2>2, MoveIs
  <2> QED
    BY <2>2, <2>3, <2>4 DEF Sockets!Prefill
<1>2. CASE FillFails
  <2>1. /\ closed' = TRUE /\ ~closed /\ open' = open \ Range(idle) /\ Range(idle') = {}
        /\ UNCHANGED conn /\ Range(idle) \subseteq open
    BY <1>2, EmptyRange DEF FillFails, clientVars, IInv, CloseInv, Sharing, NoUseAfterClose
  <2>2. ASSUME NEW k \in Conns
        PROVE  ownerOf'[k] = IF ownerOf[k] = Main THEN NoConn ELSE ownerOf[k]
    <3>1. CASE k \in Range(idle)
      BY <1>0, <2>1, <3>1 DEF OwnersAreKnown
    <3>2. CASE k \notin Range(idle)
      <4>1. ownerOf'[k] = ownerOf[k]
        BY <1>0, <2>1, <3>2, OwnerStays
      <4>2. ownerOf[k] # Main
        BY <1>0, <3>2 DEF OwnersAreKnown
      <4> QED
        BY <4>1, <4>2
    <3> QED
      BY <3>1, <3>2
  <2>3. ownerOf' = [k \in Conns |-> IF ownerOf[k] = Main THEN NoConn ELSE ownerOf[k]]
    BY <1>0, <2>2 DEF OwnersAreKnown
  <2> QED
    BY <2>1, <2>3 DEF Sockets!Shut
<1>3. CASE SetClosed
  <2>1. ~closed /\ closed' = TRUE /\ UNCHANGED <<open, idle, conn>>
    BY <1>3 DEF SetClosed, clientVars, socketVars, IInv, CloseInv
  <2>2. UNCHANGED ownerOf
    BY <2>1 DEF ownerOf
  <2> QED
    BY <2>1, <2>2 DEF Sockets!Shut
<1>4. CASE Drain /\ idle # <<>>
  <2> DEFINE k == Head(idle)
  <2>1. /\ k \in Conns /\ k \in Range(idle)
        /\ open' = open \ {k} /\ Range(idle') = Range(idle) \ {k}
    <3>1. /\ Head(idle) \in Range(idle) /\ Head(idle) \in Conns
          /\ Range(Tail(idle)) = Range(idle) \ {Head(idle)}
      BY <1>4, TailRange DEF IInv, TypeOK, Sharing, ExclusiveOwner
    <3> QED BY <1>4, <3>1 DEF Drain
  <2>2. closed /\ UNCHANGED <<closed, conn>>
    BY <1>4 DEF Drain, clientVars, IInv, CloseInv
  <2> HIDE DEF k
  <2>3. ownerOf[k] = Main /\ ownerOf'[k] = NoConn
    BY <1>0, <2>1 DEF OwnersAreKnown
  <2>4. Sockets!Move(k, ownerOf[k], ownerOf'[k])
    BY <1>0, <2>1, <2>2, MoveIs
  <2> QED
    BY <2>1, <2>2, <2>3, <2>4 DEF Sockets!Evict
<1>5. CASE Filled \/ CloseChan \/ (Drain /\ idle = <<>>)
  BY <1>5 DEF Filled, CloseChan, Drain, SameOwners, poolVars, socketVars, clientVars
<1> QED
  BY <1>1, <1>2, <1>3, <1>4, <1>5 DEF MainStep

LEMMA StepMovesSockets ==
    ASSUME IInv, IInv', [Next]_vars PROVE [Sockets!Next]_Sockets!vars
<1>1. ASSUME NEW c \in Clients, AcquireIdle(c) \/ RecvNow(c) PROVE [Sockets!Next]_Sockets!vars
  BY <1>1, TakesSocket, SameOwnersStutter DEF Sockets!Next
<1>2. ASSUME NEW c \in Clients, Dial(c) \/ ExchangeFails(c) \/ ReleaseClose(c) \/ ReturnIdle(c)
      PROVE  Sockets!Next
  BY <1>2, OpensSocket, DropsSocket, ReturnsSocket DEF Sockets!Next
<1>3. ASSUME NEW c \in Clients, ReturnHandOff(c) PROVE Sockets!Next
  BY <1>3, HandsSocketOff DEF Sockets!Next
<1>4. CASE MainStep
  BY <1>4, MainMovesSockets, SameOwnersStutter DEF Sockets!Next
<1>5. ASSUME NEW c \in Clients,
             \/ Call(c) \/ AcquireMiss(c) \/ CheckRoom(c) \/ Park(c) \/ DialFails(c) \/ Send(c)
             \/ SendOnNil(c) \/ Read(c) \/ ReleaseLock(c) \/ ReturnExcess(c)
      PROVE  SameOwners
  BY <1>5 DEF Call, AcquireMiss, CheckRoom, Park, DialFails, Send, SendOnNil, Read, ReleaseLock,
              ReturnExcess, SameOwners, poolVars, socketVars
<1>6. ASSUME BirdStops \/ BirdStarts \/ UNCHANGED vars PROVE SameOwners
  BY <1>6 DEF BirdStops, BirdStarts, vars, SameOwners, poolVars, socketVars, clientVars
<1> QED
  BY <1>1, <1>2, <1>3, <1>4, <1>5, <1>6, SameOwnersStutter, Zenon DEF Next, ClientStep

(* The whole pool, with its channel, mutex and queue, implements the         *)
(* promise of SocketOwnership: every step moves at most one socket, from an  *)
(* owner to one who has none, and nothing enters the pool once it is shut.   *)
THEOREM OwnershipIsImplemented == Spec => ImplementsOwnership
<1>1. Init => Sockets!Init
  BY DEF Init, Sockets!Init, ownerOf
<1>2. IInv /\ IInv' /\ [Next]_vars => [Sockets!Next]_Sockets!vars
  BY StepMovesSockets
<1> QED
  BY <1>1, <1>2, Invariance, PTL DEF Spec, ImplementsOwnership, Sockets!Spec
====
