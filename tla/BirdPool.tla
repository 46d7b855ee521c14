------------------------------ MODULE BirdPool ------------------------------
(***************************************************************************)
(* The pool of connections to the BIRD control socket that every task of   *)
(* the agent shares: internal/bird/pool.go.  Goroutines ("clients") call   *)
(* Execute; the main goroutine fills the pool, and closes it on shutdown   *)
(* whether or not the clients have finished (cmd/moenet-agent/main.go      *)
(* waits 30 seconds at most, and one goroutine is not waited for at all).  *)
(*                                                                         *)
(* The buffered channel p.connections has Go's semantics: a receiver that  *)
(* finds it empty parks in a FIFO queue, a sender hands its value to the   *)
(* first parked receiver, and close() wakes all of them with a nil         *)
(* connection.  A step is one channel operation, one critical section of   *)
(* p.mu, or one exchange with BIRD; release() is split at the point where  *)
(* it has tested p.closed and not yet sent.                                *)
(***************************************************************************)
EXTENDS Naturals, Sequences, FiniteSets, Functions

CONSTANTS Clients,   \* goroutines that call Execute
          Conns,     \* identities of sockets; a closed one may be dialled again
          PoolSize,  \* connections NewPool dials
          MaxSize,   \* capacity of the channel
          NoConn,    \* the nil *Conn
          Main       \* the main goroutine

ASSUME PoolAssumption ==
    /\ PoolSize \in Nat
    /\ MaxSize \in Nat
    /\ PoolSize <= MaxSize       \* otherwise NewPool blocks on its own channel
    /\ NoConn \notin Conns \cup Clients \cup {Main}
    /\ Main \notin Clients

VARIABLES
    idle,        \* contents of the channel p.connections
    parked,      \* receivers parked on it, first come first
    chanClosed,  \* close(p.connections) has been executed
    closed,      \* p.closed
    mu,          \* holder of p.mu: a client, or Main when it is free
    open,        \* sockets the agent has open
    broken,      \* open sockets whose other end BIRD has dropped
    birdUp,      \* BIRD accepts connections
    pc,          \* control point of each client
    conn,        \* the connection each client holds
    retries,     \* retries left in executeWithRetry
    main         \* control point of the main goroutine

poolVars   == <<idle, parked, chanClosed, closed, mu>>
socketVars == <<open, broken, birdUp>>
clientVars == <<pc, conn, retries>>
vars == <<poolVars, socketVars, clientVars, main>>

Free == Main                              \* value of mu when nobody holds it

ClientPC == {"idle", "acquire", "check", "recv", "parked", "dial", "send",
             "read", "release", "return", "close", "panic"}
MainPC   == {"fill", "serve", "closeChan", "drain", "done", "failed"}

TypeOK ==
    /\ idle \in Seq(Conns)
    /\ parked \in Seq(Clients)
    /\ chanClosed \in BOOLEAN
    /\ closed \in BOOLEAN
    /\ mu \in Clients \cup {Free}
    /\ open \subseteq Conns
    /\ broken \subseteq Conns
    /\ birdUp \in BOOLEAN
    /\ pc \in [Clients -> ClientPC]
    /\ conn \in [Clients -> Conns \cup {NoConn}]
    /\ retries \in [Clients -> 0..1]
    /\ main \in MainPC

Init ==
    /\ idle = <<>>
    /\ parked = <<>>
    /\ chanClosed = FALSE
    /\ closed = FALSE
    /\ mu = Free
    /\ open = {}
    /\ broken = {}
    /\ birdUp \in BOOLEAN
    /\ pc = [c \in Clients |-> "idle"]
    /\ conn = [c \in Clients |-> NoConn]
    /\ retries = [c \in Clients |-> 1]
    /\ main = "fill"

-----------------------------------------------------------------------------
(* NewPool *)

(* One round of the filling loop: dial and put into the channel.  No client *)
(* exists yet.                                                              *)
Fill ==
    /\ main = "fill"
    /\ Len(idle) < PoolSize
    /\ birdUp
    /\ \E k \in Conns \ open :
          /\ open' = open \cup {k}
          /\ idle' = Append(idle, k)
    /\ UNCHANGED <<parked, chanClosed, closed, mu, broken, birdUp, clientVars, main>>

(* A dial fails: NewPool closes the pool, nobody else being there, and main *)
(* ends the process on the error.                                           *)
FillFails ==
    /\ main = "fill"
    /\ Len(idle) < PoolSize
    /\ ~birdUp
    /\ closed' = TRUE
    /\ chanClosed' = TRUE
    /\ open' = open \ Range(idle)
    /\ broken' = broken \ Range(idle)
    /\ idle' = <<>>
    /\ main' = "failed"
    /\ UNCHANGED <<parked, mu, birdUp, clientVars>>

Filled ==
    /\ main = "fill"
    /\ Len(idle) = PoolSize
    /\ main' = "serve"
    /\ UNCHANGED <<poolVars, socketVars, clientVars>>

-----------------------------------------------------------------------------
(* Execute and acquire *)

Goto(c, from, to) == pc[c] = from /\ pc' = [pc EXCEPT ![c] = to]

(* A goroutine calls Execute; pc "idle" is where it comes back to.          *)
Call(c) ==
    /\ main \notin {"fill", "failed"}
    /\ Goto(c, "idle", "acquire")
    /\ retries' = [retries EXCEPT ![c] = 1]
    /\ UNCHANGED <<poolVars, socketVars, conn, main>>

(* A receive that does not park: the head of the channel, or nil once it is *)
(* closed and drained.                                                      *)
Receive(c) ==
    \/ /\ idle # <<>>
       /\ conn' = [conn EXCEPT ![c] = Head(idle)]
       /\ idle' = Tail(idle)
    \/ /\ idle = <<>>
       /\ chanClosed
       /\ conn' = [conn EXCEPT ![c] = NoConn]
       /\ idle' = idle

(* select { case conn := <-p.connections *)
AcquireIdle(c) ==
    /\ Goto(c, "acquire", "send")
    /\ Receive(c)
    /\ UNCHANGED <<parked, chanClosed, closed, mu, socketVars, retries, main>>

(* default: of the same select *)
AcquireMiss(c) ==
    /\ idle = <<>>
    /\ ~chanClosed
    /\ Goto(c, "acquire", "check")
    /\ UNCHANGED <<poolVars, socketVars, conn, retries, main>>

(* Mutation: the comparison is turned around.                              *)
RoomTurnedAround == MaxSize < Len(idle)

(* len(p.connections) < p.maxSize, under p.mu.  len counts idle connections *)
(* only, so the test says nothing of the ones in use.                       *)
HasRoom == Len(idle) < MaxSize

CheckRoom(c) ==
    /\ mu = Free
    /\ Goto(c, "check", IF HasRoom THEN "dial" ELSE "recv")
    /\ UNCHANGED <<poolVars, socketVars, conn, retries, main>>

RecvNow(c) ==
    /\ Goto(c, "recv", "send")
    /\ Receive(c)
    /\ UNCHANGED <<parked, chanClosed, closed, mu, socketVars, retries, main>>

Park(c) ==
    /\ idle = <<>>
    /\ ~chanClosed
    /\ Goto(c, "recv", "parked")
    /\ parked' = Append(parked, c)
    /\ UNCHANGED <<idle, chanClosed, closed, mu, socketVars, conn, retries, main>>

(* newConn: dial and read the welcome message.                             *)
Dial(c) ==
    /\ Goto(c, "dial", "send")
    /\ birdUp
    /\ \E k \in Conns \ open :
          /\ open' = open \cup {k}
          /\ conn' = [conn EXCEPT ![c] = k]
    /\ UNCHANGED <<poolVars, broken, birdUp, retries, main>>

DialFails(c) ==
    /\ Goto(c, "dial", "idle")
    /\ ~birdUp
    /\ UNCHANGED <<poolVars, socketVars, conn, retries, main>>

-----------------------------------------------------------------------------
(* The exchange with BIRD *)

(* Mutations of the retry: it is not limited; the connection is released by *)
(* a deferred call although it has been closed; it is not closed.           *)
RetryForever(c) ==
    /\ open' = open \ {conn[c]}
    /\ broken' = broken \ {conn[c]}
    /\ conn' = [conn EXCEPT ![c] = NoConn]
    /\ retries' = [retries EXCEPT ![c] = @ - 1]
    /\ pc' = [pc EXCEPT ![c] = "acquire"]
    /\ UNCHANGED <<poolVars, birdUp, main>>

DiscardAndRelease(c) ==
    /\ open' = open \ {conn[c]}
    /\ broken' = broken \ {conn[c]}
    /\ idle' = Append(idle, conn[c])
    /\ conn' = [conn EXCEPT ![c] = NoConn]
    /\ retries' = [retries EXCEPT ![c] = 0]
    /\ pc' = [pc EXCEPT ![c] = IF retries[c] > 0 THEN "acquire" ELSE "idle"]
    /\ UNCHANGED <<parked, chanClosed, closed, mu, birdUp, main>>

RetryWithoutDiscard(c) ==
    /\ conn' = [conn EXCEPT ![c] = NoConn]
    /\ retries' = [retries EXCEPT ![c] = 0]
    /\ pc' = [pc EXCEPT ![c] = IF retries[c] > 0 THEN "acquire" ELSE "idle"]
    /\ UNCHANGED <<poolVars, socketVars, main>>

(* discard, then one more attempt if any is left.                          *)
DiscardAndRetry(c) ==
    /\ open' = open \ {conn[c]}
    /\ broken' = broken \ {conn[c]}
    /\ conn' = [conn EXCEPT ![c] = NoConn]
    /\ retries' = [retries EXCEPT ![c] = 0]
    /\ pc' = [pc EXCEPT ![c] = IF retries[c] > 0 THEN "acquire" ELSE "idle"]
    /\ UNCHANGED <<poolVars, birdUp, main>>

Send(c) ==
    /\ conn[c] \in Conns \ broken
    /\ Goto(c, "send", "read")
    /\ UNCHANGED <<poolVars, socketVars, conn, retries, main>>

(* conn.conn of a nil *Conn: the goroutine panics.                         *)
SendOnNil(c) ==
    /\ conn[c] = NoConn
    /\ Goto(c, "send", "panic")
    /\ UNCHANGED <<poolVars, socketVars, conn, retries, main>>

Read(c) ==
    /\ conn[c] \notin broken
    /\ Goto(c, "read", "release")
    /\ UNCHANGED <<poolVars, socketVars, conn, retries, main>>

ExchangeFails(c) ==
    /\ pc[c] \in {"send", "read"}
    /\ conn[c] \in broken
    /\ DiscardAndRetry(c)

-----------------------------------------------------------------------------
(* release *)

(* Mutation: p.closed is not tested.                                       *)
ReleaseUntested(c) ==
    /\ mu = Free
    /\ Goto(c, "release", "return")
    /\ mu' = c
    /\ UNCHANGED <<idle, parked, chanClosed, closed, socketVars, conn, retries, main>>

(* Lock p.mu and test p.closed.                                            *)
ReleaseLock(c) ==
    /\ mu = Free
    /\ Goto(c, "release", IF closed THEN "close" ELSE "return")
    /\ mu' = c
    /\ UNCHANGED <<idle, parked, chanClosed, closed, socketVars, conn, retries, main>>

(* The connection is closed, the mutex unlocked, Execute returns.          *)
ReleaseClose(c) ==
    /\ Goto(c, "close", "idle")
    /\ open' = open \ {conn[c]}
    /\ broken' = broken \ {conn[c]}
    /\ conn' = [conn EXCEPT ![c] = NoConn]
    /\ mu' = Free
    /\ UNCHANGED <<idle, parked, chanClosed, closed, birdUp, retries, main>>

(* p.connections <- conn, with a parked receiver, with room in the buffer,  *)
(* and with neither.  Go panics on a closed channel: NoSendOnClosed.        *)
ReturnHandOff(c) ==
    /\ parked # <<>>
    /\ pc[c] = "return"
    /\ pc' = [pc EXCEPT ![c] = "idle", ![Head(parked)] = "send"]
    /\ conn' = [conn EXCEPT ![c] = NoConn, ![Head(parked)] = conn[c]]
    /\ parked' = Tail(parked)
    /\ mu' = Free
    /\ UNCHANGED <<idle, chanClosed, closed, socketVars, retries, main>>

(* Mutation: a deferred release() besides the one at the end.              *)
ReturnTwice(c) ==
    /\ parked = <<>>
    /\ Len(idle) < MaxSize
    /\ Goto(c, "return", "idle")
    /\ idle' = idle \o <<conn[c], conn[c]>>
    /\ conn' = [conn EXCEPT ![c] = NoConn]
    /\ mu' = Free
    /\ UNCHANGED <<parked, chanClosed, closed, socketVars, retries, main>>

ReturnIdle(c) ==
    /\ parked = <<>>
    /\ Len(idle) < MaxSize
    /\ Goto(c, "return", "idle")
    /\ idle' = Append(idle, conn[c])
    /\ conn' = [conn EXCEPT ![c] = NoConn]
    /\ mu' = Free
    /\ UNCHANGED <<parked, chanClosed, closed, socketVars, retries, main>>

ReturnExcess(c) ==
    /\ parked = <<>>
    /\ Len(idle) >= MaxSize
    /\ Goto(c, "return", "close")
    /\ UNCHANGED <<poolVars, socketVars, conn, retries, main>>

-----------------------------------------------------------------------------
(* Close *)

SetClosed ==
    /\ main = "serve"
    /\ mu = Free
    /\ closed' = TRUE
    /\ main' = "closeChan"
    /\ UNCHANGED <<idle, parked, chanClosed, mu, socketVars, clientVars>>

(* Mutations: the channel is not closed; it is closed and not drained.     *)
LeaveChanOpen ==
    /\ main = "closeChan"
    /\ main' = "drain"
    /\ UNCHANGED <<poolVars, socketVars, clientVars>>

DrainNothing ==
    /\ main = "drain"
    /\ main' = "done"
    /\ UNCHANGED <<poolVars, socketVars, clientVars>>

(* close(p.connections): every parked receiver wakes with nil.             *)
CloseChan ==
    /\ main = "closeChan"
    /\ chanClosed' = TRUE
    /\ parked' = <<>>
    /\ pc' = [c \in Clients |-> IF c \in Range(parked) THEN "send" ELSE pc[c]]
    /\ main' = "drain"
    /\ UNCHANGED <<idle, closed, mu, socketVars, conn, retries>>

(* for conn := range p.connections { conn.conn.Close() }                   *)
Drain ==
    /\ main = "drain"
    /\ IF idle = <<>>
         THEN /\ main' = "done"
              /\ UNCHANGED <<idle, open, broken>>
         ELSE /\ open' = open \ {Head(idle)}
              /\ broken' = broken \ {Head(idle)}
              /\ idle' = Tail(idle)
              /\ main' = main
    /\ UNCHANGED <<parked, chanClosed, closed, mu, birdUp, clientVars>>

-----------------------------------------------------------------------------
(* BIRD stops, dropping every connection, and starts again.                *)
BirdStops ==
    /\ birdUp
    /\ birdUp' = FALSE
    /\ broken' = open
    /\ UNCHANGED <<poolVars, open, clientVars, main>>

BirdStarts ==
    /\ ~birdUp
    /\ birdUp' = TRUE
    /\ UNCHANGED <<poolVars, open, broken, clientVars, main>>

-----------------------------------------------------------------------------
MainStep == Fill \/ FillFails \/ Filled \/ SetClosed \/ CloseChan \/ Drain

(* Every step of a client but the call itself.                             *)
ClientStep(c) ==
    \/ AcquireIdle(c) \/ AcquireMiss(c) \/ CheckRoom(c)
    \/ RecvNow(c) \/ Park(c)
    \/ Dial(c) \/ DialFails(c)
    \/ Send(c) \/ SendOnNil(c) \/ Read(c) \/ ExchangeFails(c)
    \/ ReleaseLock(c) \/ ReleaseClose(c)
    \/ ReturnHandOff(c) \/ ReturnIdle(c) \/ ReturnExcess(c)

Next ==
    \/ MainStep
    \/ \E c \in Clients : Call(c) \/ ClientStep(c)
    \/ BirdStops
    \/ BirdStarts

Spec == Init /\ [][Next]_vars

(* Goroutines are scheduled fairly, BIRD answers what it has received (an   *)
(* exchange has no deadline), and the periodic tasks keep calling.  A       *)
(* sync.Mutex goes to whoever has waited for it long enough (its starvation *)
(* mode), hence SF where p.mu is locked.  Neither BIRD's failures nor the   *)
(* shutdown have to happen.                                                 *)
Fairness ==
    /\ \A c \in Clients :
          /\ WF_vars(ClientStep(c))
          /\ WF_vars(Call(c))
          /\ SF_vars(CheckRoom(c) \/ ReleaseLock(c))
    /\ WF_vars(Fill \/ FillFails \/ Filled \/ CloseChan \/ Drain)

LiveSpec == Spec /\ Fairness

-----------------------------------------------------------------------------
(* Properties *)

(* A connection is in the channel once, or held by one client, never both   *)
(* and never twice: two goroutines cannot interleave commands on a socket,  *)
(* whatever the order of hand-offs, retries, excess releases and shutdown.  *)
ExclusiveOwner ==
    /\ IsInjective(idle)
    /\ \A c \in Clients : conn[c] \notin Range(idle)
    /\ \A c, d \in Clients : conn[c] = conn[d] /\ conn[c] # NoConn => c = d

(* What the channel offers and what a client works with is open: nothing    *)
(* discarded, closed as excess, or drained by Close() is used again.        *)
NoUseAfterClose ==
    /\ Range(idle) \subseteq open
    /\ \A c \in Clients : conn[c] \in open \cup {NoConn}

(* Every open socket is still in reach of somebody who will return or close *)
(* it: the retry, excess and shutdown paths drop no connection unclosed.    *)
NoSocketLeak ==
    \A k \in open : k \in Range(idle) \/ \E c \in Clients : conn[c] = k

(* release() never sends on the closed channel although Close() closes it   *)
(* outside p.mu: what p.closed says under the mutex is enough.              *)
NoSendOnClosed ==
    \A c \in Clients : pc[c] = "return" => ~chanClosed

(* With room for one connection, the clients never all wait for each other: *)
(* as long as the pool is not closed somebody is left to give a connection  *)
(* back, or to dial one, and to wake the parked.                            *)
NeverAllParked ==
    MaxSize > 0 /\ Clients # {} => \E c \in Clients : pc[c] # "parked"

(* After Close() has returned, a client that is back from Execute has left  *)
(* no socket behind: what is still open is held by a command in progress.   *)
ClosedLeavesNothing ==
    main \in {"done", "failed"} => \A k \in open : \E c \in Clients : conn[c] = k /\ pc[c] # "idle"

(* Once BIRD stays up every Execute comes back (or dies on the nil          *)
(* connection a shutdown hands it), the parked ones included.               *)
ExecuteReturns ==
    <>[]birdUp => \A c \in Clients : pc[c] # "idle" ~> pc[c] \in {"idle", "panic"}

(* The pool implements SocketOwnership: the owner of a socket is who can    *)
(* reach it, and shut is p.closed.                                          *)
ownerOf ==
    [k \in Conns |-> IF k \notin open THEN NoConn
                     ELSE IF k \in Range(idle) THEN Main
                     ELSE CHOOSE c \in Clients : conn[c] = k]

Sockets == INSTANCE SocketOwnership
              WITH owner <- ownerOf, shut <- closed, Pool <- Main, Closed <- NoConn

ImplementsOwnership == Sockets!Spec

(* ARCHITECTURE.md:240 gives NewPool's third argument as "Max pool size".   *)
AtMostMaxSizeOpen == Cardinality(open) <= MaxSize
=============================================================================
