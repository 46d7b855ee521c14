----------------------------- MODULE HandlerProofs -----------------------------
(***************************************************************************)
(* Proofs about what the HTTP handlers do with BIRD: that the lines a      *)
(* command returns are its own reply (BirdReply), that no interleaving of  *)
(* restarts leaves a peer disabled (PeerRestart), and that the maintenance *)
(* mode reported is the one in force (Maintenance).                        *)
(***************************************************************************)
EXTENDS PeerRestart, Maintenance, SequenceTheorems, TLAPS

USE ReplyAssumption, RestartAssumption, MaintenanceAssumption

-----------------------------------------------------------------------------
(* BirdReply: types *)

Tagged == Lines \X (1..MaxCalls)

LEMMA ReplyIsTagged ==
    ASSUME NEW r \in Seq(Lines), NEW n \in 1..MaxCalls
    PROVE  /\ [i \in DOMAIN r |-> <<r[i], n>>] \in Seq(Tagged)
           /\ Len([i \in DOMAIN r |-> <<r[i], n>>]) = Len(r)
<1>1. Len(r) \in Nat /\ DOMAIN r = 1..Len(r) /\ \A i \in 1..Len(r) : r[i] \in Lines
  BY LenProperties, ElementOfSeq
<1>2. \A i \in 1..Len(r) : <<r[i], n>> \in Tagged
  BY <1>1 DEF Tagged
<1>3. [i \in 1..Len(r) |-> <<r[i], n>>] \in [1..Len(r) -> Tagged]
  BY <1>2
<1>4. [i \in 1..Len(r) |-> <<r[i], n>>] \in Seq(Tagged)
  BY <1>1, <1>3, SeqDef
<1> QED
  BY <1>1, <1>4, LenProperties

(* A client that exchanges lines has a connection of its own, which is not  *)
(* in the pool.                                                             *)
Exchanging(c) == pc[c] \in {"send", "read"}

Connections ==
    /\ \A c \in Clients : Exchanging(c) => conn[c] \in Conns /\ conn[c] \notin idle
    /\ \A c, d \in Clients : c # d /\ Exchanging(c) /\ Exchanging(d) => conn[c] # conn[d]

LEMMA ConnectionsStep ==
    ASSUME TypeOK, Connections, [Next]_vars PROVE Connections'
<1> USE DEF TypeOK, ClientPC, Goto, Connections, Exchanging
<1>1. ASSUME NEW c \in Clients, (\E command \in Commands : Call(c, command)) \/ AcquireFails(c) \/ Send(c)
      PROVE  Connections'
  <2>1. /\ UNCHANGED <<idle, conn>>
        /\ \A d \in Clients : Exchanging(d)' => Exchanging(d)
    BY <1>1 DEF Call, AcquireFails, Send
  <2> QED
    BY <2>1
<1>2. ASSUME NEW c \in Clients, Acquire(c) PROVE Connections'
  BY <1>2 DEF Acquire
<1>3. ASSUME NEW c \in Clients, ReadLine(c) PROVE Connections'
  BY <1>3 DEF ReadLine
<1>4. ASSUME NEW c \in Clients, ExchangeFails(c) PROVE Connections'
  <2>1. /\ Exchanging(c) /\ ~Exchanging(c)'
        /\ idle' = idle \cup {conn[c]}
        /\ \A d \in Clients \ {c} : pc'[d] = pc[d] /\ conn'[d] = conn[d]
    BY <1>4 DEF ExchangeFails
  <2> QED
    BY <2>1
<1>5. CASE UNCHANGED <<idle, conn, pc>>
  BY <1>5
<1> QED
  BY <1>1, <1>2, <1>3, <1>4, <1>5 DEF Next, Drops, vars

LEMMA NoneSent == 0 \in 0..MaxCalls
OBVIOUS

LEMMA StepIsTyped ==
    ASSUME TypeOK, Connections, [Next]_vars PROVE TypeOK'
<1> USE DEF TypeOK, ClientPC, Goto
<1>0. <<>> \in Seq(Lines \X (1..MaxCalls)) /\ <<>> \in Seq(Lines)
  BY EmptySeq
<1>1. ASSUME NEW c \in Clients, NEW command \in Commands, Call(c, command) PROVE TypeOK'
  <2>1. /\ got' \in [Clients -> Seq(Lines \X (1..MaxCalls))] /\ reply' \in [Clients -> Seq(Lines)]
        /\ sent' \in [Clients -> 0..MaxCalls] /\ astray' \subseteq Clients
    BY <1>0, <1>1, NoneSent DEF Call, Forget
  <2>2. pc' = [pc EXCEPT ![c] = "acquire"] /\ cmd' = [cmd EXCEPT ![c] = command]
    BY <1>1 DEF Call
  <2>4. retries' = [retries EXCEPT ![c] = 1]
    BY <1>1 DEF Call
  <2>3. UNCHANGED <<unread, broken, idle, conn, calls>>
    BY <1>1 DEF Call
  <2> QED
    BY <2>1, <2>2, <2>3, <2>4, SMTT(30)
<1>2. ASSUME NEW c \in Clients, Acquire(c) \/ AcquireFails(c) PROVE TypeOK'
  BY <1>2 DEF Acquire, AcquireFails
<1>3. ASSUME NEW c \in Clients, Send(c) PROVE TypeOK'
  <2>1. PICK r \in Replies[cmd[c]] :
          /\ reply' = [reply EXCEPT ![c] = r]
          /\ unread' = [unread EXCEPT ![conn[c]] = @ \o [i \in DOMAIN r |-> <<r[i], calls'>>]]
    BY <1>3 DEF Send
  <2>2. r \in Seq(Lines) /\ calls' \in 1..MaxCalls
    BY <1>3 DEF Send
  <2>3. ASSUME conn[c] \in Conns
        PROVE  unread[conn[c]] \o [i \in DOMAIN r |-> <<r[i], calls'>>] \in Seq(Tagged)
    <3>1. [i \in DOMAIN r |-> <<r[i], calls'>>] \in Seq(Tagged)
      BY <2>2, ReplyIsTagged
    <3>2. unread[conn[c]] \in Seq(Tagged)
      BY <2>3 DEF Tagged
    <3> QED
      BY <3>1, <3>2, ConcatProperties
  <2>4. unread' \in [Conns -> Seq(Tagged)]
    BY <2>1, <2>3 DEF Tagged
  <2>5. astray' \subseteq Clients
    BY <1>3 DEF Send
  <2> QED
    BY <1>3, <2>1, <2>2, <2>4, <2>5, SMTT(30) DEF Send, Tagged
<1>4. ASSUME NEW c \in Clients, ReadLine(c) PROVE TypeOK'
  <2>1. conn[c] \in Conns
    BY <1>4 DEF ReadLine, Connections, Exchanging
  <2>2. Head(unread[conn[c]]) \in Tagged /\ Tail(unread[conn[c]]) \in Seq(Tagged)
    BY <1>4, <2>1, HeadTailProperties DEF ReadLine, Tagged
  <2>3. Append(got[c], Head(unread[conn[c]])) \in Seq(Tagged)
    BY <2>2, AppendProperties DEF Tagged
  <2> QED
    BY <1>4, <2>1, <2>2, <2>3 DEF ReadLine, Tagged
<1>5. ASSUME NEW c \in Clients, ExchangeFails(c) PROVE TypeOK'
  BY <1>0, <1>5, NoneSent DEF ExchangeFails, Forget
<1>6. ASSUME NEW k \in Conns, Drops(k) PROVE TypeOK'
  <2>1. PICK n \in 0..Len(unread[k]) : unread' = [unread EXCEPT ![k] = SubSeq(@, 1, n)]
    BY <1>6 DEF Drops
  <2>2. SubSeq(unread[k], 1, n) \in Seq(Tagged)
    BY <2>1, SubSeqProperties, LenProperties, ElementOfSeq DEF Tagged
  <2> QED
    BY <1>6, <2>1, <2>2 DEF Drops, Tagged
<1>7. CASE UNCHANGED vars
  BY <1>7 DEF vars
<1> QED
  BY <1>1, <1>2, <1>3, <1>4, <1>5, <1>6, <1>7 DEF Next

LEMMA NextTypes == RestartSpec => [](TypeOK /\ Connections)
<1>1. RestartInit => TypeOK /\ Connections
  BY EmptySeq DEF RestartInit, Init, TypeOK, Connections, Exchanging, ClientPC
<1>2. [RestartNext]_restartVars => [Next]_vars
  BY DEF RestartNext, restartVars, OtherCommand, Disable, Enable, Answer, CarriedOut, Fails, Next
<1> QED
  BY <1>1, <1>2, ConnectionsStep, StepIsTyped, PTL DEF RestartSpec

-----------------------------------------------------------------------------
(* BirdReply: whose lines they are *)

LEMMA SomeReply ==
    ASSUME NEW command \in Commands, NEW r \in Replies[command]
    PROVE  /\ r \in Seq(Lines) /\ Len(r) \in Nat \ {0} /\ DOMAIN r = 1..Len(r)
           /\ EndsReply(r[Len(r)])
<1>1. r \in Seq(Lines) /\ r # <<>> /\ r[Len(r)] \in LastLines
  BY LastLineAssumption
<1> QED
  BY <1>1, LenProperties, EmptySeq DEF EndsReply

Own(c, i) == <<reply[c][i], sent[c]>>

(* What a client has read is the first lines of the reply to its command.  *)
HasRead(c) == \A i \in 1..Len(got[c]) : got[c][i] = Own(c, i)

(* What it has not read is the next ones.                                  *)
Reading(c) ==
    /\ Len(got[c]) + Len(unread[conn[c]]) <= Len(reply[c])
    /\ HasRead(c)
    /\ \A i \in 1..Len(got[c]) : ~EndsReply(reply[c][i])
    /\ \A i \in 1..Len(unread[conn[c]]) : unread[conn[c]][i] = Own(c, Len(got[c]) + i)

Whole(c) ==
    /\ Len(got[c]) \in 1..Len(reply[c])
    /\ HasRead(c)
    /\ \A i \in 1..Len(got[c]) : EndsReply(reply[c][i]) <=> i = Len(got[c])

(* A client that has not gone astray reads its own reply.                  *)
InFrame(c) ==
    /\ pc[c] \in {"acquire", "send"} => got[c] = <<>>
    /\ pc[c] \in {"read", "returned"} => reply[c] \in Replies[cmd[c]]
    /\ pc[c] = "read" /\ c \notin astray => Reading(c)
    /\ pc[c] = "returned" /\ c \notin astray => Whole(c)

Framed == \A c \in Clients : InFrame(c)

(* A step of one client on its connection leaves the others' as they are.   *)
LEMMA OthersFramed ==
    ASSUME TypeOK, Connections, Framed, NEW c \in Clients,
           \A k \in Conns : (Exchanging(c) /\ k = conn[c]) \/ unread'[k] = unread[k],
           \A d \in Clients \ {c} : /\ pc'[d] = pc[d] /\ conn'[d] = conn[d] /\ got'[d] = got[d]
                                    /\ reply'[d] = reply[d] /\ sent'[d] = sent[d]
                                    /\ cmd'[d] = cmd[d] /\ (d \in astray' <=> d \in astray)
    PROVE  \A d \in Clients \ {c} : InFrame(d)'
<1> TAKE d \in Clients \ {c}
<1>1. Exchanging(d) => unread'[conn[d]] = unread[conn[d]]
  BY DEF Connections
<1>2. /\ pc'[d] = pc[d] /\ conn'[d] = conn[d] /\ got'[d] = got[d] /\ cmd'[d] = cmd[d]
      /\ reply'[d] = reply[d] /\ sent'[d] = sent[d] /\ (d \in astray' <=> d \in astray)
  OBVIOUS
<1>3. ASSUME pc[d] = "read", d \notin astray PROVE Reading(d)'
  <2>1. Reading(d) /\ unread'[conn'[d]] = unread[conn[d]]
    BY <1>1, <1>2, <1>3 DEF Framed, InFrame, Exchanging
  <2> QED
    BY <1>2, <2>1, Zenon DEF Reading, HasRead, Own
<1>4. ASSUME pc[d] = "returned", d \notin astray PROVE Whole(d)'
  <2>1. Whole(d)
    BY <1>4 DEF Framed, InFrame
  <2> QED
    BY <1>2, <2>1 DEF Whole, HasRead, Own
<1> QED
  BY <1>2, <1>3, <1>4 DEF Framed, InFrame

LEMMA SendFramed ==
    ASSUME TypeOK, Connections, Framed, NEW c \in Clients, Send(c)
    PROVE  Framed'
<1>1. PICK r \in Replies[cmd[c]] :
        /\ reply' = [reply EXCEPT ![c] = r]
        /\ unread' = [unread EXCEPT ![conn[c]] = @ \o [i \in DOMAIN r |-> <<r[i], calls'>>]]
  BY DEF Send
<1>2. /\ pc[c] = "send" /\ conn[c] \in Conns /\ got[c] = <<>>
  BY DEF Send, Goto, Framed, InFrame, Connections, Exchanging
<1>3. /\ r \in Seq(Lines) /\ calls' \in 1..MaxCalls /\ Len(r) \in Nat \ {0} /\ DOMAIN r = 1..Len(r)
  BY SomeReply, SMTT(30) DEF TypeOK, Send
<1>4. /\ reply'[c] = r /\ sent'[c] = calls' /\ got'[c] = <<>> /\ conn'[c] = conn[c]
      /\ pc'[c] = "read" /\ cmd'[c] = cmd[c] /\ UNCHANGED <<cmd, conn, got>>
  BY <1>1, <1>2 DEF Send, Goto, TypeOK
<1>5. ASSUME c \notin astray' PROVE Reading(c)'
  <2>1. unread[conn[c]] = <<>>
    BY <1>5 DEF Send
  <2>2. unread'[conn[c]] = [i \in DOMAIN r |-> <<r[i], calls'>>]
    <3>1. [i \in DOMAIN r |-> <<r[i], calls'>>] \in Seq(Tagged)
      BY <1>3, ReplyIsTagged
    <3>2. unread'[conn[c]] = <<>> \o [i \in DOMAIN r |-> <<r[i], calls'>>]
      BY <1>1, <1>2, <2>1 DEF TypeOK
    <3> QED
      BY <3>1, <3>2, ConcatEmptySeq
  <2>3. Len(unread'[conn[c]]) = Len(r) /\ \A i \in 1..Len(r) : unread'[conn[c]][i] = <<r[i], calls'>>
    BY <1>3, <2>2, ReplyIsTagged
  <2>4. Len(got'[c]) = 0
    BY <1>4
  <2> QED
    BY <1>3, <1>4, <2>3, <2>4 DEF Reading, HasRead, Own
<1>6. \A d \in Clients \ {c} : /\ pc'[d] = pc[d] /\ conn'[d] = conn[d] /\ got'[d] = got[d]
                               /\ reply'[d] = reply[d] /\ sent'[d] = sent[d]
                               /\ cmd'[d] = cmd[d] /\ (d \in astray' <=> d \in astray)
  BY <1>1 DEF Send, Goto, TypeOK
<1>7. \A k \in Conns : (Exchanging(c) /\ k = conn[c]) \/ unread'[k] = unread[k]
  BY <1>1, <1>2 DEF TypeOK, Exchanging
<1>8. InFrame(c)'
  BY <1>4, <1>5 DEF InFrame
<1> QED
  BY <1>6, <1>7, <1>8, OthersFramed DEF Framed

(* A client that has read g of l lines, with u more of them to be read, reads *)
(* one.                                                                     *)
LEMMA OneMoreLine ==
    ASSUME NEW g \in Nat, NEW u \in Nat \ {0}, NEW l \in Nat, g + u <= l
    PROVE  /\ g + 1 \in 1..l
           /\ (g + 1) + (u - 1) <= l
           /\ \A i \in 1..(u - 1) : g + (i + 1) = (g + 1) + i /\ i + 1 \in 1..u
           /\ \A i \in 1..(g + 1) : i = g + 1 \/ i \in 1..g
           /\ \A i \in 1..g : i # g + 1
OBVIOUS

(* The line a step reads, and what it leaves.                              *)
LEMMA LineRead ==
    ASSUME TypeOK, Connections, NEW c \in Clients, ReadLine(c)
    PROVE  /\ pc[c] = "read" /\ conn[c] \in Conns /\ UNCHANGED <<sent, reply, cmd, astray, broken>>
           /\ Len(unread[conn[c]]) \in Nat \ {0} /\ Len(got[c]) \in Nat /\ Len(reply[c]) \in Nat
           /\ Len(got'[c]) = Len(got[c]) + 1
           /\ \A i \in 1..Len(got[c]) : got'[c][i] = got[c][i]
           /\ got'[c][Len(got[c]) + 1] = unread[conn[c]][1]
           /\ Len(unread'[conn[c]]) = Len(unread[conn[c]]) - 1
           /\ \A i \in 1..(Len(unread[conn[c]]) - 1) : unread'[conn[c]][i] = unread[conn[c]][i + 1]
           /\ IF EndsReply(unread[conn[c]][1][1]) THEN pc'[c] = "returned"
                                                  ELSE pc'[c] = "read" /\ conn'[c] = conn[c]
           /\ \A d \in Clients \ {c} : pc'[d] = pc[d] /\ conn'[d] = conn[d] /\ got'[d] = got[d]
           /\ \A k \in Conns \ {conn[c]} : unread'[k] = unread[k]
<1> DEFINE k == conn[c]
           line == Head(unread[k])
<1>1. pc[c] = "read" /\ k \in Conns /\ unread[k] # <<>> /\ UNCHANGED <<sent, reply, cmd, astray, broken>>
  BY DEF ReadLine, Connections, Exchanging
<1>2. /\ got' = [got EXCEPT ![c] = Append(@, line)]
      /\ unread' = [unread EXCEPT ![k] = Tail(@)]
      /\ pc' = IF EndsReply(line[1]) THEN [pc EXCEPT ![c] = "returned"] ELSE pc
      /\ conn' = IF EndsReply(line[1]) THEN [conn EXCEPT ![c] = 0] ELSE conn
  BY DEF ReadLine
<1>3. /\ unread[k] \in Seq(Tagged) /\ got[c] \in Seq(Tagged)
      /\ Len(unread[k]) \in Nat \ {0} /\ Len(got[c]) \in Nat /\ Len(reply[c]) \in Nat
  BY <1>1, LenProperties, EmptySeq DEF TypeOK, Tagged
<1>4. /\ line = unread[k][1] /\ line \in Tagged
      /\ Len(Tail(unread[k])) = Len(unread[k]) - 1
      /\ \A i \in 1..Len(Tail(unread[k])) : Tail(unread[k])[i] = unread[k][i + 1]
  BY <1>1, <1>3, HeadTailProperties
<1>5. unread'[k] = Tail(unread[k]) /\ got'[c] = Append(got[c], line)
  BY <1>1, <1>2 DEF TypeOK
<1>6. /\ Len(got'[c]) = Len(got[c]) + 1
      /\ \A i \in 1..Len(got[c]) : got'[c][i] = got[c][i]
      /\ got'[c][Len(got[c]) + 1] = line
  BY <1>3, <1>4, <1>5, AppendProperties
<1>7. /\ \A d \in Clients \ {c} : pc'[d] = pc[d] /\ conn'[d] = conn[d] /\ got'[d] = got[d]
      /\ \A j \in Conns \ {k} : unread'[j] = unread[j]
      /\ IF EndsReply(line[1]) THEN pc'[c] = "returned" ELSE pc'[c] = "read" /\ conn'[c] = conn[c]
  BY <1>1, <1>2 DEF TypeOK
<1> QED
  BY <1>1, <1>3, <1>4, <1>5, <1>6, <1>7

LEMMA ReadLineFramed ==
    ASSUME TypeOK, Connections, Framed, NEW c \in Clients, ReadLine(c)
    PROVE  Framed'
<1> DEFINE k == conn[c]
<1>1. /\ pc[c] = "read" /\ k \in Conns /\ UNCHANGED <<sent, reply, cmd, astray>>
      /\ Len(unread[k]) \in Nat \ {0} /\ Len(got[c]) \in Nat /\ Len(reply[c]) \in Nat
      /\ Len(got'[c]) = Len(got[c]) + 1
      /\ \A i \in 1..Len(got[c]) : got'[c][i] = got[c][i]
      /\ got'[c][Len(got[c]) + 1] = unread[k][1]
      /\ Len(unread'[k]) = Len(unread[k]) - 1
      /\ \A i \in 1..(Len(unread[k]) - 1) : unread'[k][i] = unread[k][i + 1]
      /\ IF EndsReply(unread[k][1][1]) THEN pc'[c] = "returned"
                                       ELSE pc'[c] = "read" /\ conn'[c] = conn[c]
  BY LineRead
<1>2. ASSUME c \notin astray'
      PROVE  /\ pc'[c] = "read" => Reading(c)'
             /\ pc'[c] = "returned" => Whole(c)'
  <2>1. Reading(c)
    BY <1>1, <1>2 DEF Framed, InFrame
  <2>2. /\ Len(got[c]) + 1 \in 1..Len(reply[c])
        /\ (Len(got[c]) + 1) + (Len(unread[k]) - 1) <= Len(reply[c])
        /\ \A i \in 1..(Len(unread[k]) - 1) :
              Len(got[c]) + (i + 1) = (Len(got[c]) + 1) + i /\ i + 1 \in 1..Len(unread[k])
        /\ \A i \in 1..(Len(got[c]) + 1) : i = Len(got[c]) + 1 \/ i \in 1..Len(got[c])
        /\ \A i \in 1..Len(got[c]) : i # Len(got[c]) + 1
    BY <1>1, <2>1, OneMoreLine DEF Reading
  <2>3. unread[k][1] = Own(c, Len(got[c]) + 1)
    <3>1. 1 \in 1..Len(unread[k])
      BY <1>1
    <3> QED
      BY <2>1, <3>1 DEF Reading
  <2>4. HasRead(c)'
    <3>1. ASSUME NEW i \in 1..(Len(got[c]) + 1) PROVE got'[c][i] = Own(c, i)
      BY <1>1, <2>1, <2>2, <2>3, <3>1 DEF Reading, HasRead
    <3> QED
      BY <1>1, <3>1 DEF HasRead, Own
  <2>5. unread[k][1][1] = reply[c][Len(got[c]) + 1]
    BY <2>3 DEF Own
  <2>6. ASSUME EndsReply(unread[k][1][1]) PROVE Whole(c)'
    <3>1. \A i \in 1..(Len(got[c]) + 1) : EndsReply(reply[c][i]) <=> i = Len(got[c]) + 1
      BY <2>1, <2>2, <2>5, <2>6 DEF Reading
    <3> QED
      BY <1>1, <2>2, <2>4, <3>1 DEF Whole
  <2>7. ASSUME ~EndsReply(unread[k][1][1]) PROVE Reading(c)'
    <3>1. \A i \in 1..(Len(got[c]) + 1) : ~EndsReply(reply[c][i])
      BY <2>1, <2>2, <2>5, <2>7 DEF Reading
    <3>2. \A i \in 1..(Len(unread[k]) - 1) :
             unread'[k][i] = <<reply[c][(Len(got[c]) + 1) + i], sent[c]>>
      <4> TAKE i \in 1..(Len(unread[k]) - 1)
      <4>1. unread[k][i + 1] = Own(c, Len(got[c]) + (i + 1))
        BY <2>1, <2>2 DEF Reading
      <4>2. Len(got[c]) + (i + 1) = (Len(got[c]) + 1) + i /\ unread'[k][i] = unread[k][i + 1]
        BY <1>1, <2>2
      <4> QED
        BY <4>1, <4>2 DEF Own
    <3>3. conn'[c] = k
      BY <1>1, <2>7
    <3> QED
      BY <1>1, <2>2, <2>4, <3>1, <3>2, <3>3 DEF Reading, Own
  <2> QED
    BY <1>1, <2>6, <2>7
<1>3. InFrame(c)'
  BY <1>1, <1>2 DEF InFrame, Framed
<1>4. /\ \A d \in Clients \ {c} : /\ pc'[d] = pc[d] /\ conn'[d] = conn[d] /\ got'[d] = got[d]
                                  /\ reply'[d] = reply[d] /\ sent'[d] = sent[d]
                                  /\ cmd'[d] = cmd[d] /\ (d \in astray' <=> d \in astray)
      /\ \A j \in Conns : (Exchanging(c) /\ j = conn[c]) \/ unread'[j] = unread[j]
  BY <1>1, LineRead DEF Exchanging
<1> QED
  BY <1>3, <1>4, OthersFramed DEF Framed

LEMMA PoolFramed ==
    ASSUME TypeOK, Connections, Framed, NEW c \in Clients,
           \/ \E command \in Commands : Call(c, command)
           \/ Acquire(c) \/ AcquireFails(c) \/ ExchangeFails(c)
    PROVE  Framed'
<1> USE DEF Goto, Forget
<1>1. \A d \in Clients \ {c} : /\ pc'[d] = pc[d] /\ conn'[d] = conn[d] /\ got'[d] = got[d]
                               /\ reply'[d] = reply[d] /\ sent'[d] = sent[d]
                               /\ cmd'[d] = cmd[d] /\ (d \in astray' <=> d \in astray)
  BY DEF Call, Acquire, AcquireFails, ExchangeFails, TypeOK
<1>2. \A k \in Conns : (Exchanging(c) /\ k = conn[c]) \/ unread'[k] = unread[k]
  BY DEF Call, Acquire, AcquireFails, ExchangeFails, TypeOK, Exchanging
<1>3. /\ pc'[c] \in {"acquire", "send"} => got'[c] = <<>>
      /\ pc'[c] \notin {"read", "returned"}
  <2>1. CASE \E command \in Commands : Call(c, command)
    BY <2>1 DEF Call, TypeOK
  <2>2. CASE Acquire(c) \/ AcquireFails(c)
    BY <2>2 DEF Acquire, AcquireFails, TypeOK, Framed, InFrame
  <2>3. CASE ExchangeFails(c)
    BY <2>3 DEF ExchangeFails, TypeOK
  <2> QED
    BY <2>1, <2>2, <2>3
<1>4. InFrame(c)'
  BY <1>3 DEF InFrame
<1> QED
  BY <1>1, <1>2, <1>4, OthersFramed DEF Framed

LEMMA FewerLines ==
    ASSUME NEW g \in Nat, NEW u \in Nat, NEW l \in Nat, g + u <= l, NEW n \in 0..u
    PROVE  n <= u /\ g + n <= l
OBVIOUS

(* What is left of a connection's lines when it is dropped.                *)
LEMMA LinesLeft ==
    ASSUME TypeOK, NEW k \in Conns, Drops(k)
    PROVE  /\ \E n \in 0..Len(unread[k]) :
                 Len(unread'[k]) = n /\ \A i \in 1..n : unread'[k][i] = unread[k][i]
           /\ \A j \in Conns \ {k} : unread'[j] = unread[j]
           /\ Len(unread[k]) \in Nat
<1>1. PICK n \in 0..Len(unread[k]) : unread' = [unread EXCEPT ![k] = SubSeq(@, 1, n)]
  BY DEF Drops
<1>2. unread[k] \in Seq(Tagged) /\ Len(unread[k]) \in Nat
  BY LenProperties DEF TypeOK, Tagged
<1>3. /\ Len(SubSeq(unread[k], 1, n)) = IF 1 <= n THEN n - 1 + 1 ELSE 0
      /\ \A i \in 1..(n - 1 + 1) : SubSeq(unread[k], 1, n)[i] = unread[k][1 + i - 1]
  BY <1>2, SubSeqProperties, ElementOfSeq
<1>4. Len(SubSeq(unread[k], 1, n)) = n /\ \A i \in 1..n : SubSeq(unread[k], 1, n)[i] = unread[k][i]
  BY <1>2, <1>3
<1> QED
  BY <1>1, <1>2, <1>4 DEF TypeOK

LEMMA DropsFramed ==
    ASSUME TypeOK, Connections, Framed, NEW k \in Conns, Drops(k)
    PROVE  Framed'
<1>1. PICK n \in 0..Len(unread[k]) :
        Len(unread'[k]) = n /\ \A i \in 1..n : unread'[k][i] = unread[k][i]
  BY LinesLeft
<1>2. UNCHANGED <<conn, pc, cmd, sent, reply, got, astray>>
  BY DEF Drops
<1>3. ASSUME NEW c \in Clients, pc[c] = "read", c \notin astray PROVE Reading(c)'
  <2>1. Reading(c)
    BY <1>3 DEF Framed, InFrame
  <2>2. CASE conn[c] = k
    <3>1. Len(got[c]) \in Nat /\ Len(reply[c]) \in Nat /\ Len(unread[k]) \in Nat
      BY LenProperties, LinesLeft DEF TypeOK
    <3>2. Len(got[c]) + Len(unread[k]) <= Len(reply[c])
      BY <2>1, <2>2 DEF Reading
    <3>3. n <= Len(unread[k]) /\ Len(got[c]) + n <= Len(reply[c])
      BY <3>1, <3>2, FewerLines
    <3>4. \A i \in 1..n : unread'[k][i] = Own(c, Len(got[c]) + i)
      <4> TAKE i \in 1..n
      <4>1. i \in 1..Len(unread[k])
        BY <3>1, <3>3
      <4> QED
        BY <1>1, <2>1, <2>2, <4>1 DEF Reading
    <3> QED
      BY <1>1, <1>2, <2>1, <2>2, <3>3, <3>4 DEF Reading, HasRead, Own
  <2>3. CASE conn[c] # k
    <3>1. unread'[conn[c]] = unread[conn[c]]
      BY <1>3, <2>3, LinesLeft DEF Connections, Exchanging
    <3> QED
      BY <1>2, <2>1, <3>1 DEF Reading, HasRead, Own
  <2> QED
    BY <2>2, <2>3
<1>4. \A c \in Clients : pc[c] = "returned" /\ c \notin astray => Whole(c)'
  BY <1>2 DEF Framed, InFrame, Whole, HasRead, Own
<1> QED
  BY <1>2, <1>3, <1>4 DEF Framed, InFrame

LEMMA StepFramed ==
    ASSUME TypeOK, Connections, Framed, [Next]_vars PROVE Framed'
<1>1. CASE UNCHANGED vars
  <2>1. UNCHANGED <<unread, conn, pc, cmd, sent, reply, got, astray>>
    BY <1>1 DEF vars
  <2>2. ASSUME NEW c \in Clients PROVE InFrame(c)'
    <3>1. InFrame(c)
      BY DEF Framed
    <3>2. Reading(c) => Reading(c)'
      BY <2>1, Zenon DEF Reading, HasRead, Own
    <3>3. Whole(c) => Whole(c)'
      BY <2>1, Zenon DEF Whole, HasRead, Own
    <3> QED
      BY <2>1, <3>1, <3>2, <3>3 DEF InFrame
  <2> QED
    BY <2>2 DEF Framed
<1> QED
  BY <1>1, SendFramed, ReadLineFramed, PoolFramed, DropsFramed DEF Next

-----------------------------------------------------------------------------
(* BirdReply: no mixture *)

(* Where the lines of two replies meet on a connection, the first of them   *)
(* ends with a line that readResponse() stops at; so do the lines of a       *)
(* connection that BIRD has not dropped.                                    *)
Seams(k) ==
    /\ \A i \in 1..(Len(unread[k]) - 1) :
          unread[k][i][2] # unread[k][i + 1][2] => EndsReply(unread[k][i][1])
    /\ k \notin broken /\ unread[k] # <<>> => EndsReply(unread[k][Len(unread[k])][1])

(* The next line is of the reply being read.                               *)
Unmixed(c) ==
    /\ \A i, j \in 1..Len(got[c]) : got[c][i][2] = got[c][j][2]
    /\ pc[c] = "read" /\ Len(got[c]) > 0 /\ Len(unread[conn[c]]) > 0
           => unread[conn[c]][1][2] = got[c][1][2]

Seamless == (\A k \in Conns : Seams(k)) /\ \A c \in Clients : Unmixed(c)

LEMMA SeamsAdded ==
    ASSUME NEW l \in Nat, NEW n \in Nat \ {0}
    PROVE  /\ \A i \in 1..(l + n - 1) : \/ i \in 1..(l - 1) /\ i \in 1..l /\ i + 1 \in 1..l
                                        \/ i = l /\ l \in 1..l
                                        \/ i \notin 1..l /\ i \in 1..(l + n) /\ i + 1 \notin 1..l
                                             /\ i + 1 \in 1..(l + n)
           /\ l + n \in 1..(l + n) /\ l + n \notin 1..l
           /\ (l + n) - l = n
OBVIOUS

LEMMA SendSeamless ==
    ASSUME TypeOK, Connections, Framed, Seamless, NEW c \in Clients, Send(c)
    PROVE  Seamless'
<1>0. PICK k \in Conns : k = conn[c]
  BY DEF Send, Goto, Connections, Exchanging
<1> DEFINE l == Len(unread[k])
<1>1. PICK r \in Replies[cmd[c]] : unread' = [unread EXCEPT ![k] = @ \o [i \in DOMAIN r |-> <<r[i], calls'>>]]
  BY <1>0 DEF Send
<1>2. /\ pc[c] = "send" /\ conn[c] = k /\ k \notin broken /\ Len(got[c]) = 0
      /\ UNCHANGED <<broken, conn, got>> /\ pc'[c] = "read"
      /\ \A d \in Clients \ {c} : pc'[d] = pc[d]
  <2>1. Len(<<>>) = 0
    OBVIOUS
  <2>2. got[c] = <<>>
    BY DEF Send, Goto, Framed, InFrame
  <2> QED
    BY <1>0, <2>1, <2>2 DEF Send, Goto, TypeOK
<1>3. /\ r \in Seq(Lines) /\ calls' \in 1..MaxCalls /\ Len(r) \in Nat \ {0} /\ DOMAIN r = 1..Len(r)
      /\ EndsReply(r[Len(r)])
  <2>1. cmd[c] \in Commands /\ calls' \in 1..MaxCalls
    BY DEF TypeOK, Send
  <2> QED
    BY <2>1, SomeReply
<1>4. unread[k] \in Seq(Tagged) /\ l \in Nat
  BY <1>2, LenProperties DEF TypeOK, Tagged
<1>5. /\ unread'[k] = unread[k] \o [i \in DOMAIN r |-> <<r[i], calls'>>]
      /\ \A j \in Conns \ {k} : unread'[j] = unread[j]
  BY <1>1, <1>2 DEF TypeOK
<1>6. /\ Len(unread'[k]) = l + Len(r)
      /\ \A i \in 1..l : unread'[k][i] = unread[k][i]
      /\ \A i \in 1..(l + Len(r)) : i \notin 1..l => unread'[k][i] = <<r[i - l], calls'>>
  <2> DEFINE t == [i \in DOMAIN r |-> <<r[i], calls'>>]
  <2>1. t \in Seq(Tagged) /\ Len(t) = Len(r) /\ \A i \in 1..Len(r) : t[i] = <<r[i], calls'>>
    BY <1>3, ReplyIsTagged
  <2>2. unread'[k] = unread[k] \o t
    BY <1>5
  <2> HIDE DEF t
  <2>3. /\ Len(unread'[k]) = l + Len(r)
        /\ \A i \in 1..(l + Len(r)) : unread'[k][i] = IF i <= l THEN unread[k][i] ELSE t[i - l]
    <3>1. /\ Len(unread[k] \o t) = Len(unread[k]) + Len(t)
          /\ \A i \in 1..(Len(unread[k]) + Len(t)) :
                (unread[k] \o t)[i] = IF i <= Len(unread[k]) THEN unread[k][i] ELSE t[i - Len(unread[k])]
      BY <1>4, <2>1, ConcatProperties, ZenonT(40)
    <3>2. Len(t) = Len(r)
      BY <2>1
    <3> QED
      BY <2>2, <3>1, <3>2
  <2>4. \A i \in 1..(l + Len(r)) : i \notin 1..l => i > l /\ i - l \in 1..Len(r)
    BY <1>3, <1>4
  <2>5. \A i \in 1..l : i \in 1..(l + Len(r)) /\ i <= l
    BY <1>3, <1>4
  <2>6. \A i \in 1..(l + Len(r)) : i > l => ~(i <= l)
    BY <1>4
  <2> QED
    BY <2>1, <2>3, <2>4, <2>5, <2>6
<1>7. \A i \in 1..(l + Len(r) - 1) : \/ i \in 1..(l - 1) /\ i \in 1..l /\ i + 1 \in 1..l
                                     \/ i = l /\ l \in 1..l
                                     \/ i \notin 1..l /\ i \in 1..(l + Len(r)) /\ i + 1 \notin 1..l
                                          /\ i + 1 \in 1..(l + Len(r))
  BY <1>3, <1>4, SeamsAdded
<1>8. Seams(k)'
  <2>1. ASSUME NEW i \in 1..(l + Len(r) - 1), unread'[k][i][2] # unread'[k][i + 1][2]
        PROVE  EndsReply(unread'[k][i][1])
    <3>1. CASE i \in 1..(l - 1) /\ i \in 1..l /\ i + 1 \in 1..l
      BY <1>2, <1>6, <2>1, <3>1, SMTT(30) DEF Seamless, Seams
    <3>2. CASE i = l /\ l \in 1..l
      <4>1. unread[k] # <<>>
        BY <1>4, <3>2, EmptySeq
      <4> QED
        BY <1>2, <1>6, <3>2, <4>1 DEF Seamless, Seams
    <3>3. CASE i \notin 1..l /\ i \in 1..(l + Len(r)) /\ i + 1 \notin 1..l /\ i + 1 \in 1..(l + Len(r))
      BY <1>6, <2>1, <3>3, SMTT(30)
    <3> QED
      BY <1>7, <3>1, <3>2, <3>3
  <2>2. EndsReply(unread'[k][l + Len(r)][1])
    <3>1. l + Len(r) \in 1..(l + Len(r)) /\ l + Len(r) \notin 1..l /\ (l + Len(r)) - l = Len(r)
      BY <1>3, <1>4, SeamsAdded
    <3>2. unread'[k][l + Len(r)] = <<r[Len(r)], calls'>>
      BY <1>6, <3>1
    <3> QED
      BY <1>3, <3>2
  <2> QED
    BY <1>6, <2>1, <2>2 DEF Seams
<1>9. \A j \in Conns \ {k} : Seams(j)'
  BY <1>2, <1>5 DEF Seamless, Seams
<1>10. Unmixed(c)'
  BY <1>2 DEF Unmixed
<1>11. ASSUME NEW d \in Clients \ {c} PROVE Unmixed(d)'
  <2>1. pc[d] = "read" => unread'[conn[d]] = unread[conn[d]]
    BY <1>2, <1>5 DEF Connections, Exchanging
  <2> QED
    BY <1>2, <2>1 DEF Seamless, Unmixed
<1> QED
  BY <1>8, <1>9, <1>10, <1>11 DEF Seamless

LEMMA OneLineLess ==
    ASSUME NEW u \in Nat \ {0}, NEW g \in Nat
    PROVE  /\ \A i \in 1..(u - 1 - 1) : i \in 1..(u - 1) /\ i + 1 \in 1..(u - 1)
           /\ u - 1 > 0 => u - 1 \in 1..(u - 1) /\ (u - 1) + 1 = u /\ 1 \in 1..(u - 1)
           /\ \A i \in 1..(g + 1) : i = g + 1 \/ i \in 1..g
           /\ \A i \in 1..g : g > 0 /\ 1 \in 1..g
           /\ g = 0 \/ 1 \in 1..g
           /\ g + 1 > 0
OBVIOUS

LEMMA ReadLineSeamless ==
    ASSUME TypeOK, Connections, Seamless, NEW c \in Clients, ReadLine(c)
    PROVE  Seamless'
<1>0. PICK k \in Conns : k = conn[c]
  BY LineRead
<1> DEFINE u == Len(unread[k])
           g == Len(got[c])
<1>1. /\ pc[c] = "read" /\ conn[c] = k /\ broken' = broken
      /\ u \in Nat \ {0} /\ g \in Nat
      /\ Len(got'[c]) = g + 1
      /\ \A i \in 1..g : got'[c][i] = got[c][i]
      /\ got'[c][g + 1] = unread[k][1]
      /\ Len(unread'[k]) = u - 1
      /\ \A i \in 1..(u - 1) : unread'[k][i] = unread[k][i + 1]
      /\ IF EndsReply(unread[k][1][1]) THEN pc'[c] = "returned" ELSE pc'[c] = "read" /\ conn'[c] = k
      /\ \A d \in Clients \ {c} : pc'[d] = pc[d] /\ conn'[d] = conn[d] /\ got'[d] = got[d]
      /\ \A j \in Conns \ {k} : unread'[j] = unread[j]
  BY <1>0, LineRead
<1>2. /\ \A i \in 1..(u - 1 - 1) : i \in 1..(u - 1) /\ i + 1 \in 1..(u - 1)
      /\ u - 1 > 0 => u - 1 \in 1..(u - 1) /\ (u - 1) + 1 = u /\ 1 \in 1..(u - 1)
      /\ \A i \in 1..(g + 1) : i = g + 1 \/ i \in 1..g
      /\ \A i \in 1..g : g > 0 /\ 1 \in 1..g
      /\ g = 0 \/ 1 \in 1..g
  BY <1>1, OneLineLess
<1>3. Seams(k) /\ Unmixed(c)
  BY <1>1 DEF Seamless
<1>4. Seams(k)'
  <2>1. \A i \in 1..(Len(unread'[k]) - 1) :
           unread'[k][i][2] # unread'[k][i + 1][2] => EndsReply(unread'[k][i][1])
    <3> TAKE i \in 1..(Len(unread'[k]) - 1)
    <3>1. i \in 1..(u - 1) /\ i + 1 \in 1..(u - 1)
      BY <1>1, <1>2
    <3>2. unread'[k][i] = unread[k][i + 1] /\ unread'[k][i + 1] = unread[k][(i + 1) + 1]
      BY <1>1, <3>1
    <3>3. unread[k][i + 1][2] # unread[k][(i + 1) + 1][2] => EndsReply(unread[k][i + 1][1])
      BY <1>3, <3>1 DEF Seams
    <3> QED
      BY <3>2, <3>3
  <2>2. ASSUME k \notin broken', unread'[k] # <<>> PROVE EndsReply(unread'[k][Len(unread'[k])][1])
    <3>1. unread'[k] \in Seq(Tagged)
      BY <1>1, StepIsTyped DEF TypeOK, Tagged, Next
    <3>2. Len(unread'[k]) > 0 /\ unread[k] # <<>>
      BY <1>1, <2>2, <3>1, EmptySeq, LenProperties
    <3>3. EndsReply(unread[k][u][1])
      BY <1>1, <1>3, <2>2, <3>2 DEF Seams
    <3>4. u - 1 > 0 /\ u - 1 \in 1..(u - 1) /\ (u - 1) + 1 = u
      BY <1>1, <1>2, <3>2
    <3>5. unread'[k][u - 1] = unread[k][(u - 1) + 1]
      BY <1>1, <3>4
    <3>6. unread'[k][u - 1] = unread[k][u]
      BY <3>4, <3>5
    <3>7. Len(unread'[k]) = u - 1
      BY <1>1
    <3> QED
      BY <3>3, <3>6, <3>7
  <2> QED
    BY <2>1, <2>2 DEF Seams
<1>5. \A j \in Conns \ {k} : Seams(j)'
  <2>1. broken' = broken /\ \A j \in Conns \ {k} : unread'[j] = unread[j]
    BY <1>1
  <2> QED
    BY <2>1 DEF Seamless, Seams
<1>6. \A i \in 1..g : got[c][i][2] = unread[k][1][2]
  BY <1>1, <1>2, <1>3 DEF Unmixed
<1>7. ASSUME NEW i \in 1..(g + 1) PROVE got'[c][i][2] = unread[k][1][2]
  <2>1. CASE i = g + 1
    BY <1>1, <2>1
  <2>2. CASE i \in 1..g
    BY <1>1, <1>6, <2>2
  <2> QED
    BY <1>2, <2>1, <2>2
<1>8. ASSUME pc'[c] = "read", Len(unread'[conn'[c]]) > 0
      PROVE  unread'[conn'[c]][1][2] = got'[c][1][2]
  <2>1. conn'[c] = k /\ ~EndsReply(unread[k][1][1])
    BY <1>1, <1>8
  <2>2. 1 \in 1..(u - 1) /\ 1 \in 1..(g + 1)
    BY <1>1, <1>2, <1>8, <2>1
  <2>3. unread[k][1][2] = unread[k][1 + 1][2] /\ unread'[k][1] = unread[k][1 + 1]
    BY <1>1, <1>3, <2>1, <2>2 DEF Seams
  <2> QED
    BY <1>7, <2>1, <2>2, <2>3
<1>9. Unmixed(c)'
  BY <1>1, <1>7, <1>8 DEF Unmixed
<1>10. ASSUME NEW d \in Clients \ {c} PROVE Unmixed(d)'
  <2>1. pc[d] = "read" => unread'[conn[d]] = unread[conn[d]]
    BY <1>1 DEF Connections, Exchanging
  <2>2. pc'[d] = pc[d] /\ conn'[d] = conn[d] /\ got'[d] = got[d] /\ Unmixed(d)
    BY <1>1 DEF Seamless
  <2> QED
    BY <2>1, <2>2 DEF Unmixed
<1> QED
  BY <1>4, <1>5, <1>9, <1>10 DEF Seamless

LEMMA PoolSeamless ==
    ASSUME TypeOK, Connections, Seamless, NEW c \in Clients,
           \/ \E command \in Commands : Call(c, command)
           \/ Acquire(c) \/ AcquireFails(c) \/ ExchangeFails(c)
    PROVE  Seamless'
<1> USE DEF Goto, Forget
<1>0. Len(<<>>) = 0
  OBVIOUS
<1>1. ASSUME NEW k \in Conns PROVE Seams(k)'
  <2>1. \/ unread'[k] = unread[k] /\ (k \in broken' <=> k \in broken)
        \/ unread'[k] = <<>>
    BY DEF Call, Acquire, AcquireFails, ExchangeFails, TypeOK
  <2> QED
    BY <1>0, <2>1 DEF Seamless, Seams
<1>2. /\ pc'[c] # "read"
      /\ got'[c] = got[c] \/ got'[c] = <<>>
      /\ \A d \in Clients \ {c} : /\ pc'[d] = pc[d] /\ conn'[d] = conn[d] /\ got'[d] = got[d]
                                  /\ pc[d] = "read" => unread'[conn[d]] = unread[conn[d]]
  BY DEF Call, Acquire, AcquireFails, ExchangeFails, TypeOK, Connections, Exchanging
<1>3. Unmixed(c)'
  BY <1>0, <1>2 DEF Seamless, Unmixed
<1>4. ASSUME NEW d \in Clients \ {c} PROVE Unmixed(d)'
  <2>1. pc'[d] = pc[d] /\ conn'[d] = conn[d] /\ got'[d] = got[d]
    BY <1>2
  <2>2. pc[d] = "read" => unread'[conn[d]] = unread[conn[d]]
    BY <1>2
  <2>3. Unmixed(d)
    BY DEF Seamless
  <2> QED
    BY <2>1, <2>2, <2>3 DEF Unmixed
<1> QED
  BY <1>1, <1>3, <1>4 DEF Seamless

LEMMA PrefixSeams ==
    ASSUME NEW u \in Nat, NEW n \in 0..u
    PROVE  \A i \in 1..(n - 1) : i \in 1..n /\ i + 1 \in 1..n /\ i \in 1..(u - 1)
OBVIOUS

LEMMA DropsSeamless ==
    ASSUME TypeOK, Connections, Seamless, NEW k \in Conns, Drops(k)
    PROVE  Seamless'
<1>1. PICK n \in 0..Len(unread[k]) :
        Len(unread'[k]) = n /\ \A i \in 1..n : unread'[k][i] = unread[k][i]
  BY LinesLeft
<1>2. /\ UNCHANGED <<conn, pc, got>> /\ broken' = broken \cup {k} /\ Len(unread[k]) \in Nat
      /\ \A j \in Conns \ {k} : unread'[j] = unread[j]
  BY LinesLeft DEF Drops
<1>3. Seams(k)'
  <2>1. \A i \in 1..(n - 1) : i \in 1..n /\ i + 1 \in 1..n /\ i \in 1..(Len(unread[k]) - 1)
    BY <1>2, PrefixSeams
  <2> QED
    BY <1>1, <1>2, <2>1 DEF Seamless, Seams
<1>4. \A j \in Conns \ {k} : Seams(j)'
  BY <1>2 DEF Seamless, Seams
<1>5. ASSUME NEW c \in Clients PROVE Unmixed(c)'
  <2>1. ASSUME Len(unread'[conn[c]]) > 0, pc[c] = "read"
        PROVE  unread'[conn[c]][1] = unread[conn[c]][1] /\ Len(unread[conn[c]]) > 0
    <3>1. CASE conn[c] = k
      <4>1. 1 \in 1..n /\ Len(unread[k]) > 0
        BY <1>1, <1>2, <2>1, <3>1
      <4> QED
        BY <1>1, <3>1, <4>1
    <3>2. CASE conn[c] # k
      BY <1>2, <2>1, <3>2 DEF Connections, Exchanging
    <3> QED
      BY <3>1, <3>2
  <2> QED
    BY <1>2, <2>1 DEF Seamless, Unmixed
<1> QED
  BY <1>3, <1>4, <1>5 DEF Seamless

LEMMA StepSeamless ==
    ASSUME TypeOK, Connections, Framed, Seamless, [Next]_vars PROVE Seamless'
<1>1. CASE UNCHANGED vars
  BY <1>1 DEF vars, Seamless, Seams, Unmixed
<1> QED
  BY <1>1, SendSeamless, ReadLineSeamless, PoolSeamless, DropsSeamless DEF Next

LEMMA FramingHolds == RestartSpec => [](TypeOK /\ Framed /\ Seamless)
<1>1. RestartInit => Framed
  BY DEF RestartInit, Init, Framed, InFrame
<1>2. RestartInit => Seamless
  <2>1. Len(<<>>) = 0
    OBVIOUS
  <2> QED
    BY <2>1 DEF RestartInit, Init, Seamless, Seams, Unmixed
<1>3. [RestartNext]_restartVars => [Next]_vars
  BY DEF RestartNext, restartVars, OtherCommand, Disable, Enable, Answer, CarriedOut, Fails, Next
<1>4. TypeOK /\ Connections /\ Framed /\ Seamless /\ [Next]_vars => Framed' /\ Seamless'
  BY StepFramed, StepSeamless
<1> QED
  BY <1>1, <1>2, <1>3, <1>4, NextTypes, PTL DEF RestartSpec

(* For any number of clients and connections and any replies, indented lines *)
(* and exchanges that break off among them: Execute() never returns a        *)
(* mixture of replies, and on a connection on which nothing was left it       *)
(* returns the reply to its own command, from its beginning to the first     *)
(* line that looks like its end.                                             *)
THEOREM RepliesAreOwn == RestartSpec => []OwnReply
<1>1. TypeOK /\ Framed /\ Seamless => OwnReply
  <2> SUFFICES ASSUME TypeOK, Framed, Seamless, NEW c \in Clients, pc[c] = "returned"
               PROVE  /\ \A i, j \in DOMAIN got[c] : got[c][i][2] = got[c][j][2]
                      /\ c \notin astray =>
                            /\ Len(got[c]) \in DOMAIN reply[c]
                            /\ \A i \in DOMAIN got[c] :
                                  /\ got[c][i] = <<reply[c][i], sent[c]>>
                                  /\ EndsReply(reply[c][i]) <=> i = Len(got[c])
    BY DEF OwnReply
  <2>1. DOMAIN got[c] = 1..Len(got[c]) /\ DOMAIN reply[c] = 1..Len(reply[c])
    BY LenProperties DEF TypeOK
  <2>2. Unmixed(c) /\ (c \notin astray => Whole(c))
    BY DEF Framed, InFrame, Seamless
  <2> QED
    BY <2>1, <2>2 DEF Unmixed, Whole, HasRead, Own
<1> QED
  BY <1>1, FramingHolds, PTL

(* BIRD's replies to "configure" have no indented lines.                   *)
PlainConfigure ==
    \A r \in Replies["configure"] : \A i \in 1..Len(r) : EndsReply(r[i]) => i = Len(r)

(* Whatever the replies to other commands look like, on a connection on which *)
(* nothing was left Configure() only returns an error for a reply in which    *)
(* BIRD did not accept the configuration.                                    *)
THEOREM AlarmsAreReal ==
    ASSUME PlainConfigure PROVE RestartSpec => []AlarmIsReal
<1>1. TypeOK /\ Framed => AlarmIsReal
  <2> SUFFICES ASSUME TypeOK, Framed, NEW c \in Clients \ astray, pc[c] = "returned",
                      cmd[c] = "configure", Accepted(c)
               PROVE  Said(c, "done")
    BY DEF AlarmIsReal, ConfigureOK
  <2>1. Whole(c) /\ reply[c] \in Replies["configure"]
    BY DEF Framed, InFrame
  <2>2. Len(got[c]) = Len(reply[c]) /\ Len(got[c]) \in 1..Len(got[c]) /\ DOMAIN got[c] = 1..Len(got[c])
    <3>1. DOMAIN got[c] = 1..Len(got[c]) /\ Len(got[c]) \in Nat /\ Len(reply[c]) \in Nat
      BY LenProperties DEF TypeOK
    <3>2. Len(got[c]) \in 1..Len(got[c])
      BY <2>1, <3>1 DEF Whole
    <3>3. EndsReply(reply[c][Len(got[c])])
      BY <2>1, <3>2 DEF Whole
    <3> QED
      BY <2>1, <3>1, <3>2, <3>3 DEF PlainConfigure, Whole
  <2>3. got[c][Len(got[c])][1] = reply[c][Len(reply[c])]
    BY <2>1, <2>2 DEF Whole, HasRead, Own
  <2> QED
    BY <2>2, <2>3 DEF Accepted, Said, Last
<1> QED
  BY <1>1, FramingHolds, PTL

-----------------------------------------------------------------------------
(* PeerRestart: peers come back *)

Waiting == {"acquire", "send", "read"}

RestartTypes ==
    /\ pc \in [Clients -> ClientPC]
    /\ cmd \in [Clients -> Commands]
    /\ retries \in [Clients -> Nat]
    /\ handling \in [Clients -> {"no", "disable", "enable"}]

(* The command a client is waiting for is that of its handler's step.      *)
OwnCommand ==
    \A c \in Clients :
        /\ handling[c] # "no" => cmd[c] = handling[c]
        /\ pc[c] \in Waiting /\ handling[c] = "no" => cmd[c] \notin {"disable", "enable"}

(* An enable is still to be carried out.                                   *)
WillEnable(c) ==
    \/ handling[c] = "disable"
    \/ handling[c] = "enable" /\ pc[c] \in {"acquire", "send"}

DownIsTransient == down => stranded \/ \E c \in Clients : WillEnable(c)

RestartIInv == RestartTypes /\ OwnCommand /\ DownIsTransient

LEMMA InitRestartIInv ==
    ASSUME RestartInit PROVE RestartIInv
BY DEF RestartInit, Init, RestartIInv, RestartTypes, OwnCommand, DownIsTransient, Waiting,
       ClientPC

(* The commands' own steps, up to the connection that breaks.              *)
LEMMA HandlerIInv ==
    ASSUME RestartIInv, NEW c \in Clients,
           OtherCommand(c) \/ Disable(c) \/ Enable(c) \/ Answer(c)
    PROVE  RestartIInv'
<1> USE DEF RestartIInv, RestartTypes, ClientPC, Handle, Call, Goto, Over
<1>1. CASE OtherCommand(c)
  BY <1>1 DEF OtherCommand, OwnCommand, DownIsTransient, WillEnable, Waiting
<1>2. CASE Disable(c)
  BY <1>2 DEF Disable, OwnCommand, DownIsTransient, WillEnable, Waiting
<1>3. CASE Enable(c)
  BY <1>3 DEF Enable, OwnCommand, DownIsTransient, WillEnable, Waiting
<1>4. CASE Answer(c)
  BY <1>4 DEF Answer, vars, OwnCommand, DownIsTransient, WillEnable, Waiting
<1> QED
  BY <1>1, <1>2, <1>3, <1>4

LEMMA ExchangeIInv ==
    ASSUME RestartIInv, NEW c \in Clients,
           \/ CarriedOut(c) \/ Fails(c)
           \/ (Acquire(c) \/ ReadLine(c)) /\ UNCHANGED <<handling, down, stranded>>
    PROVE  RestartIInv'
<1> USE DEF RestartIInv, RestartTypes, ClientPC, Goto
<1>1. CASE CarriedOut(c)
  <2>1. pc[c] = "send" /\ pc' = [pc EXCEPT ![c] = "read"] /\ UNCHANGED <<cmd, retries, handling>>
    BY <1>1 DEF CarriedOut, Send
  <2>2. cmd[c] = "disable" => handling[c] = "disable"
    BY <2>1 DEF OwnCommand, Waiting
  <2>3. DownIsTransient'
    BY <1>1, <2>1, <2>2 DEF CarriedOut, OwnCommand, DownIsTransient, WillEnable
  <2> QED
    BY <2>1, <2>3 DEF OwnCommand, Waiting
<1>2. CASE Fails(c)
  <2>1. /\ pc[c] \in Waiting /\ UNCHANGED <<cmd, handling, down>>
        /\ retries' = [retries EXCEPT ![c] = 0] \/ UNCHANGED retries
        /\ \/ pc' = [pc EXCEPT ![c] = "acquire"]
           \/ pc' = [pc EXCEPT ![c] = "failed"]
    BY <1>2 DEF Fails, AcquireFails, ExchangeFails, Waiting
  <2>2. stranded \/ (cmd[c] = "enable" /\ pc'[c] = "failed") => stranded'
    BY <1>2 DEF Fails
  <2>3. DownIsTransient'
    BY <2>1, <2>2 DEF OwnCommand, DownIsTransient, WillEnable
  <2> QED
    BY <2>1, <2>3 DEF OwnCommand, DownIsTransient, WillEnable, Waiting
<1>3. CASE (Acquire(c) \/ ReadLine(c)) /\ UNCHANGED <<handling, down, stranded>>
  <2>1. /\ UNCHANGED <<cmd, retries, handling, down, stranded>>
        /\ \/ pc[c] = "acquire" /\ pc' = [pc EXCEPT ![c] = "send"]
           \/ pc[c] = "read" /\ pc' = [pc EXCEPT ![c] = "returned"]
           \/ UNCHANGED pc
    BY <1>3 DEF Acquire, ReadLine
  <2> QED
    BY <2>1 DEF OwnCommand, DownIsTransient, WillEnable, Waiting
<1> QED
  BY <1>1, <1>2, <1>3

LEMMA StepRestartIInv ==
    ASSUME RestartIInv, [RestartNext]_restartVars PROVE RestartIInv'
<1>1. CASE UNCHANGED <<pc, cmd, retries, handling, down, stranded>>
  BY <1>1 DEF RestartIInv, RestartTypes, OwnCommand, DownIsTransient, WillEnable
<1>2. CASE (\E k \in Conns : Drops(k)) /\ UNCHANGED <<handling, down, stranded>>
  BY <1>1, <1>2 DEF Drops
<1> QED
  BY <1>1, <1>2, HandlerIInv, ExchangeIInv DEF RestartNext, restartVars, vars

Flags == down \in BOOLEAN /\ stranded \in BOOLEAN

(* Every variable of a handler and of the connections it uses keeps to its  *)
(* domain.                                                                  *)
THEOREM RestartTypeCorrect == RestartSpec => []RestartTypeOK
<1>1. RestartInit => RestartIInv /\ Flags
  BY InitRestartIInv DEF RestartInit, Flags
<1>2. Flags /\ [RestartNext]_restartVars => Flags'
  BY Zenon DEF Flags, RestartNext, restartVars, OtherCommand, Disable, Enable, Handle, Answer,
               CarriedOut, Fails
<1>3. TypeOK /\ RestartIInv /\ Flags => RestartTypeOK
  BY DEF RestartTypeOK, RestartIInv, RestartTypes, Flags
<1>4. RestartIInv /\ [RestartNext]_restartVars => RestartIInv'
  BY StepRestartIInv
<1> QED
  BY <1>1, <1>2, <1>3, <1>4, NextTypes, PTL DEF RestartSpec

(* For any number of handlers, clients and connections: a disabled peer is  *)
(* about to be enabled by some handler, or an enable could not be delivered. *)
THEOREM PeersComeBack == RestartSpec => []PeerComesBack
<1>1. RestartInit => RestartIInv
  BY InitRestartIInv
<1>2. RestartIInv /\ [RestartNext]_restartVars => RestartIInv'
  BY StepRestartIInv
<1>3. RestartIInv => PeerComesBack
  BY DEF RestartIInv, DownIsTransient, WillEnable, PeerComesBack, Over
<1> QED
  BY <1>1, <1>2, <1>3, PTL DEF RestartSpec

-----------------------------------------------------------------------------
(* Maintenance: the mode reported is the mode in force *)

(* Every variable keeps to its domain, whatever fails.                     *)
THEOREM ModeTypeCorrect == ModeSpec => []ModeTypeOK
<1>1. ModeInit => ModeTypeOK
  <2> SUFFICES ASSUME ModeInit PROVE ModeTypeOK
    OBVIOUS
  <2>1. /\ file \in {"true", "false", "blank"} /\ faults \subseteq Faults /\ stage = "idle"
        /\ requests \in 0..MaxRequests
    BY DEF ModeInit
  <2>2. enabled \in BOOLEAN /\ bird \in BOOLEAN /\ due \in BOOLEAN /\ missed \in BOOLEAN
    BY Zenon DEF ModeInit
  <2> QED
    BY <2>1, <2>2 DEF ModeTypeOK
<1>2. ModeTypeOK /\ [ModeNext]_modeVars => ModeTypeOK'
  <2> SUFFICES ASSUME ModeTypeOK, [ModeNext]_modeVars PROVE ModeTypeOK'
    OBVIOUS
  <2> USE DEF ModeTypeOK, ModeNext, HandlerStep, FaultStep, modeVars, Enter, Entered, EnterRefused,
              EnterFails, Rollback, RollbackFails, Exit, Exited, ExitedAnyway, WriteFails, Crash,
              Torn, Start, OtherReload, OtherReloadFails, ReloadFails, ReloadRefused
  <2>1. /\ file' \in {"true", "false", "blank"} /\ faults' \subseteq Faults
        /\ stage' \in {"idle", "entering", "rollback", "exiting"} /\ requests' \in 0..MaxRequests
    BY DEF Request, Moves, Fault, NoFault
  <2>2. Reload => bird' \in BOOLEAN /\ missed' \in BOOLEAN
    BY Zenon DEF Reload
  <2>3. /\ enabled' \in BOOLEAN /\ bird' \in BOOLEAN /\ due' \in BOOLEAN
        /\ missed' \in BOOLEAN
    BY <2>2, Zenon
  <2> QED
    BY <2>1, <2>3
<1> QED
  BY <1>1, <1>2, PTL DEF ModeSpec

(* What the holder of the mutex has done so far.                           *)
InProgress ==
    /\ stage \in {"entering", "rollback"} => ~enabled /\ file = "true"
    /\ stage = "exiting" => enabled /\ file = "false"

(* An agent that says it is in maintenance mode has the file to show for    *)
(* it, or lost it; and BIRD is in the mode too, unless it is to be reloaded *)
(* or a reload of it has come to nothing.                                   *)
Shown == stage = "idle" /\ enabled => file # "false" /\ (bird \/ due \/ missed)

ModeIInv == InProgress /\ Shown

LEMMA ModeStep ==
    ASSUME ModeTypeOK, ModeIInv, [ModeNext]_modeVars PROVE ModeIInv'
<1> USE DEF ModeTypeOK, ModeIInv, InProgress, Shown, Request, Moves, Reload, ReloadFails, ReloadRefused
<1>1. CASE Enter \/ EnterFails
  BY <1>1 DEF Enter, EnterFails
<1>2. CASE Entered \/ EnterRefused
  BY <1>2 DEF Entered, EnterRefused
<1>3. CASE Rollback \/ RollbackFails
  BY <1>3 DEF Rollback, RollbackFails
<1>4. CASE Exit \/ Exited \/ ExitedAnyway
  BY <1>4 DEF Exit, Exited, ExitedAnyway
<1>5. CASE WriteFails
  BY <1>5 DEF WriteFails
<1>6. CASE Crash \/ Torn
  BY <1>6 DEF Crash, Torn, Start
<1>7. CASE OtherReload \/ OtherReloadFails
  BY <1>7 DEF OtherReload, OtherReloadFails
<1>8. CASE UNCHANGED modeVars
  BY <1>8 DEF modeVars
<1> QED
  BY <1>1, <1>2, <1>3, <1>4, <1>5, <1>6, <1>7, <1>8 DEF ModeNext, HandlerStep, FaultStep

(* For any number of requests and any faults, a configuration that BIRD       *)
(* refuses behind a nil among them: an agent at rest that answers "maintenance *)
(* mode is on" has BIRD in it, or is about to reload BIRD at its start, or the *)
(* last reload came to nothing without the handlers being told.               *)
THEOREM ReportedModeIsActive == ModeSpec => []ReportedIsActive
<1>1. ModeInit => ModeIInv
  BY DEF ModeInit, ModeIInv, InProgress, Shown
<1>2. ModeIInv => ReportedIsActive
  BY DEF ModeIInv, Shown, ReportedIsActive
<1> QED
  BY <1>1, <1>2, ModeStep, ModeTypeCorrect, PTL DEF ModeSpec
=============================================================================
