------------------------------ MODULE BirdReply ------------------------------
(***************************************************************************)
(* What travels over the pooled connections of internal/bird/pool.go: the  *)
(* lines BIRD answers with, where readResponse() believes an answer ends,  *)
(* and what Configure() makes of the one it gets.                          *)
(*                                                                         *)
(* A connection goes back to the pool with whatever was not read from it,  *)
(* so the next command on it, by whichever goroutine, starts reading       *)
(* there.  Who owns a connection is the subject of BirdPool; here it is    *)
(* taken from a set of idle ones.                                          *)
(***************************************************************************)
EXTENDS Naturals, Sequences, FiniteSets, SequencesExt

CONSTANTS Clients,   \* goroutines that call Execute
          Conns,     \* connections
          Replies,   \* command |-> the replies BIRD may give, sequences of lines
          MaxCalls   \* bound on the commands sent

(* Lines, by what the code looks at: "0002-...", "0003 ...", "8...", a last *)
(* line with another code, a line whose fifth character is not a space and  *)
(* an indented one whose fifth character is.                                *)
Lines == {"info", "done", "error", "last", "text", "indented"}

LastLines == {"done", "error", "last"}

Commands == DOMAIN Replies

ASSUME ReplyAssumption ==
    /\ "configure" \in Commands
    /\ \A command \in Commands : Replies[command] \subseteq Seq(Lines)
    /\ MaxCalls \in Nat

(* What BIRD sends is whole: the code relies on there being a last line.   *)
ASSUME LastLineAssumption ==
    \A command \in Commands : \A r \in Replies[command] : r # <<>> /\ r[Len(r)] \in LastLines

VARIABLES
    unread,    \* lines on each connection that nobody has read, with the
               \* number of the command they answer
    broken,    \* connections BIRD has dropped
    idle,      \* connections in the pool
    conn,      \* the connection of each client that has one
    pc, cmd, retries,
    sent,      \* number of the command each client waits for
    reply,     \* what BIRD replied to it
    got,       \* what the client has read
    astray,    \* history: clients whose command went out on a connection that
               \* still had lines of an earlier reply to be read
    calls      \* commands sent so far

vars == <<unread, broken, idle, conn, pc, cmd, retries, sent, reply, got, astray, calls>>

ClientPC == {"idle", "acquire", "send", "read", "returned", "failed"}

TypeOK ==
    /\ unread \in [Conns -> Seq(Lines \X (1..MaxCalls))]
    /\ broken \subseteq Conns
    /\ idle \subseteq Conns
    /\ conn \in [Clients -> Conns \cup {0}]
    /\ pc \in [Clients -> ClientPC]
    /\ cmd \in [Clients -> Commands]
    /\ retries \in [Clients -> 0..1]
    /\ sent \in [Clients -> 0..MaxCalls]
    /\ reply \in [Clients -> Seq(Lines)]
    /\ got \in [Clients -> Seq(Lines \X (1..MaxCalls))]
    /\ astray \subseteq Clients
    /\ calls \in 0..MaxCalls

Init ==
    /\ unread = [k \in Conns |-> <<>>]
    /\ broken = {}
    /\ idle = Conns
    /\ conn = [c \in Clients |-> 0]
    /\ pc = [c \in Clients |-> "idle"]
    /\ cmd = [c \in Clients |-> "configure"]
    /\ retries = [c \in Clients |-> 1]
    /\ sent = [c \in Clients |-> 0]
    /\ reply = [c \in Clients |-> <<>>]
    /\ got = [c \in Clients |-> <<>>]
    /\ astray = {}
    /\ calls = 0

Goto(c, from, to) == pc[c] = from /\ pc' = [pc EXCEPT ![c] = to]

Forget(c) ==
    /\ sent' = [sent EXCEPT ![c] = 0]
    /\ reply' = [reply EXCEPT ![c] = <<>>]
    /\ got' = [got EXCEPT ![c] = <<>>]
    /\ astray' = astray \ {c}

Call(c, command) ==
    /\ \/ Goto(c, "idle", "acquire")
       \/ Goto(c, "returned", "acquire")
       \/ Goto(c, "failed", "acquire")
    /\ cmd' = [cmd EXCEPT ![c] = command]
    /\ retries' = [retries EXCEPT ![c] = 1]
    /\ Forget(c)
    /\ UNCHANGED <<unread, broken, idle, conn, calls>>

Acquire(c) ==
    /\ Goto(c, "acquire", "send")
    /\ \E k \in idle :
          /\ conn' = [conn EXCEPT ![c] = k]
          /\ idle' = idle \ {k}
    /\ UNCHANGED <<unread, broken, cmd, retries, sent, reply, got, astray, calls>>

(* No idle connection, and none to be had: BIRD does not answer the dial.   *)
AcquireFails(c) ==
    /\ Goto(c, "acquire", "failed")
    /\ UNCHANGED <<unread, broken, idle, conn, cmd, retries, sent, reply, got, astray, calls>>

(* The command reaches BIRD, which carries it out and replies.             *)
Send(c) ==
    /\ conn[c] \notin broken
    /\ calls < MaxCalls
    /\ Goto(c, "send", "read")
    /\ calls' = calls + 1
    /\ sent' = [sent EXCEPT ![c] = calls']
    /\ astray' = IF unread[conn[c]] = <<>> THEN astray ELSE astray \cup {c}
    /\ \E r \in Replies[cmd[c]] :
          /\ reply' = [reply EXCEPT ![c] = r]
          /\ unread' = [unread EXCEPT ![conn[c]] =
                           @ \o [i \in DOMAIN r |-> <<r[i], calls'>>]]
    /\ UNCHANGED <<broken, idle, conn, cmd, retries, got>>

(* readResponse's test for the end of a reply: len(line) >= 5 && line[4] == ' '. *)
EndsReply(line) == line \in LastLines \cup {"indented"}

(* One line is read.  At what looks like the end of the reply the connection *)
(* is released, with the lines that may follow still on it.                 *)
ReadLine(c) ==
    /\ pc[c] = "read"
    /\ unread[conn[c]] # <<>>
    /\ LET line == Head(unread[conn[c]])
           ends == EndsReply(line[1])
       IN /\ got' = [got EXCEPT ![c] = Append(@, line)]
          /\ unread' = [unread EXCEPT ![conn[c]] = Tail(@)]
          /\ pc' = IF ends THEN [pc EXCEPT ![c] = "returned"] ELSE pc
          /\ idle' = IF ends THEN idle \cup {conn[c]} ELSE idle
          /\ conn' = IF ends THEN [conn EXCEPT ![c] = 0] ELSE conn
    /\ UNCHANGED <<broken, cmd, retries, sent, reply, astray, calls>>

(* Mutation: what was read of the reply stays in the result of the next    *)
(* attempt.                                                                *)
ExchangeFailsKeeping(c) ==
    /\ conn[c] \in broken
    /\ unread[conn[c]] = <<>>
    /\ broken' = broken \ {conn[c]}
    /\ idle' = idle \cup {conn[c]}
    /\ conn' = [conn EXCEPT ![c] = 0]
    /\ retries' = [retries EXCEPT ![c] = 0]
    /\ pc' = [pc EXCEPT ![c] = IF retries[c] > 0 THEN "acquire" ELSE "failed"]
    /\ UNCHANGED <<unread, got, cmd, sent, reply, astray, calls>>

(* The write or the read fails: the connection is discarded, what was read  *)
(* of the reply is dropped with it, and another connection, which stands    *)
(* here for one newly dialled in its place, gets the command again, once.   *)
ExchangeFails(c) ==
    /\ conn[c] \in broken
    /\ \/ pc[c] = "send"
       \/ pc[c] = "read" /\ unread[conn[c]] = <<>>
    /\ unread' = [unread EXCEPT ![conn[c]] = <<>>]
    /\ broken' = broken \ {conn[c]}
    /\ idle' = idle \cup {conn[c]}
    /\ conn' = [conn EXCEPT ![c] = 0]
    /\ Forget(c)
    /\ retries' = [retries EXCEPT ![c] = 0]
    /\ pc' = [pc EXCEPT ![c] = IF retries[c] > 0 THEN "acquire" ELSE "failed"]
    /\ UNCHANGED <<cmd, calls>>

(* BIRD drops a connection; what has not arrived of a reply never does.    *)
Drops(k) ==
    /\ k \notin broken
    /\ broken' = broken \cup {k}
    /\ \E n \in 0..Len(unread[k]) : unread' = [unread EXCEPT ![k] = SubSeq(@, 1, n)]
    /\ UNCHANGED <<idle, conn, pc, cmd, retries, sent, reply, got, astray, calls>>

Next ==
    \/ \E c \in Clients :
          \/ \E command \in Commands : Call(c, command)
          \/ Acquire(c) \/ AcquireFails(c) \/ Send(c) \/ ReadLine(c) \/ ExchangeFails(c)
    \/ \E k \in Conns : Drops(k)

Spec == Init /\ [][Next]_vars

-----------------------------------------------------------------------------
(* Configure's reading of the reply: a line that speaks of success anywhere *)
(* settles it, then a line that starts with 8 or 9, then success again.     *)
Said(c, line) == \E i \in DOMAIN got[c] : got[c][i][1] = line

(* Mutation: only the first line is looked at.                             *)
FirstLineOK(c) == got[c][1][1] = "done"

ConfigureOK(c) == Said(c, "done") \/ Said(c, "info") \/ ~Said(c, "error")

Accepted(c) == Last(reply[c]) = "done"

-----------------------------------------------------------------------------
(* Properties *)

(* Execute never returns a mixture of replies, whoever used the connection  *)
(* before and however often the exchange broke off; and what it returns is   *)
(* the reply to its own command, up to the first line that looks like the    *)
(* end of one (pool.go:216), unless the caller before it on that connection  *)
(* has left lines behind such a line: those it is given instead.             *)
OwnReply ==
    \A c \in Clients : pc[c] = "returned" =>
        /\ \A i, j \in DOMAIN got[c] : got[c][i][2] = got[c][j][2]
        /\ c \notin astray =>
              /\ Len(got[c]) \in DOMAIN reply[c]
              /\ \A i \in DOMAIN got[c] :
                    /\ got[c][i] = <<reply[c][i], sent[c]>>
                    /\ EndsReply(reply[c][i]) <=> i = Len(got[c])

(* Configure reports an error only for a configuration BIRD has refused     *)
(* (maintenance mode rolls back on the strength of that), unless it is given *)
(* the lines a caller before it has left.                                   *)
AlarmIsReal ==
    \A c \in Clients \ astray :
        pc[c] = "returned" /\ cmd[c] = "configure" /\ ~ConfigureOK(c) => ~Accepted(c)

(* pool.go:209: "readResponse reads a complete BIRD response".  Refuted, as  *)
(* is AlarmIsReal without its exception, by an indented line of somebody's   *)
(* earlier reply.                                                           *)
WholeReply ==
    \A c \in Clients : pc[c] = "returned" =>
        got[c] = [i \in DOMAIN reply[c] |-> <<reply[c][i], sent[c]>>]

(* pool.go:177 and 186: Configure fails on explicit error codes.           *)
RefusalIsNoticed ==
    \A c \in Clients :
        pc[c] = "returned" /\ cmd[c] = "configure" /\ ConfigureOK(c) => Accepted(c)
=============================================================================
