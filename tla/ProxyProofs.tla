----------------------------- MODULE ProxyProofs -----------------------------
(***************************************************************************)
(* For any number of connections, descriptors, requests and replies: the   *)
(* state of the proxy has the types of TypeOK, the log is written by one   *)
(* thread at a time, and until a thread closes a socket of another one no  *)
(* descriptor is open that its thread will not close, each connection      *)
(* carries what its own two peers have sent, in order and nothing twice,   *)
(* and the log has the size of what the client was given.  When one        *)
(* connection is served at a time no thread ever closes another's socket.  *)
(*                                                                         *)
(* Three things make the invariant inductive: the mutex is free exactly    *)
(* when no thread is between P and V; every open descriptor is remembered  *)
(* by the one thread whose place in the program still leads to its close;  *)
(* and the items of a stream are in the three places where the proxy has   *)
(* them: in the socket, in the thread's buffer, and in the line that has   *)
(* been read and is still to be written (Flow).                            *)
(***************************************************************************)
EXTENDS Proxy, TLAPS, WellFoundedInduction, FiniteSetTheorems

Critical == {"print", "signal"}
ServerPcs == {"send request", "header", "send header", "body", "send body", "reply",
              "send reply", "send crlf", "content", "send content", "finish", "abort"}
ClientPcs == {"failed", "request", "connect", "peername", "wait", "print", "signal",
              "close"} \cup ServerPcs

MutexInv ==
    /\ \A c \in Conn : th[c].pc \in Critical => mutex = 0
    /\ \A c, d \in Conn : th[c].pc \in Critical /\ th[d].pc \in Critical => c = d

DescInv ==
    ~clobbered => \A f \in FD : \A c \in Conn :
        /\ fds[f] = <<"client", c>> => th[c].cfd = f /\ th[c].pc \in ClientPcs
        /\ fds[f] = <<"server", c>> => th[c].sfd = f /\ th[c].pc \in ServerPcs

(* The descriptor variables a thread uses have been assigned.              *)
HeldInv ==
    \A c \in Conn : /\ th[c].pc # "none" => th[c].cfd \in FD
                    /\ th[c].pc \in ServerPcs => th[c].sfd \in FD

ProxyInv == TypeOK /\ HeldInv /\ MutexInv /\ DescInv

(* A step of c's thread that changes neither the descriptors nor the       *)
(* mutex, and does not cross the borders between the sets above.           *)
Moves(c) ==
    /\ fds' = fds /\ clobbered' = clobbered /\ mutex' = mutex
    /\ log' \in Seq([conn : Conn, size : Nat])
    /\ sock' \in [Sock -> Streams] /\ fails' = fails /\ alive' \in BOOLEAN
    /\ \E r \in Threads :
         /\ th' = [th EXCEPT ![c] = r]
         /\ r.cfd = th[c].cfd /\ r.sfd = th[c].sfd
         /\ th[c].pc \in ClientPcs /\ r.pc \in ClientPcs
         /\ r.pc \in ServerPcs <=> th[c].pc \in ServerPcs
         /\ r.pc \in Critical <=> th[c].pc \in Critical

-----------------------------------------------------------------------------
(* Types of what the system calls return and leave behind. *)

LEMMA GotType ==
    ASSUME TypeOK, NEW fd \in FD, NEW buf \in Seq(Items)
    PROVE  /\ Got(fd, buf) \in Seq(Items)
           /\ Result(fd, buf) = "data" => Got(fd, buf) # <<>>
           /\ Result(fd, buf) \in {"data", "eof", "error"}
<1>1. fds[fd] # None => sock[fds[fd]].in \in Seq(Items)
  BY DEF TypeOK, Streams
<1>2. <<>> \in Seq(Items)
  OBVIOUS
<1> QED BY <1>1, <1>2 DEF Got, Arrived, Result

LEMMA DrainType ==
    ASSUME TypeOK, NEW fd \in FD, NEW buf, Drain(fd, buf)
    PROVE  sock' \in [Sock -> Streams]
<1>1. CASE buf = <<>> /\ fds[fd] # None
  <2>1. fds[fd] \in Sock /\ sock[fds[fd]] \in Streams
    BY <1>1 DEF TypeOK
  <2> DEFINE st == sock[fds[fd]]
  <2>2. PICK pr : pr = IF Result(fd, buf) = "error" THEN "broken" ELSE st.peer
    OBVIOUS
  <2>3. sock' = [sock EXCEPT ![fds[fd]] = [st EXCEPT !.in = <<>>, !.peer = pr]]
    BY <1>1, <2>1, <2>2 DEF Drain, TypeOK, Streams
  <2>4. st \in Streams /\ <<>> \in Seq(Items)
    BY <2>1
  <2>5. [st EXCEPT !.in = <<>>, !.peer = pr] \in Streams
    BY <2>2, <2>4 DEF Streams
  <2> QED BY <2>1, <2>3, <2>5 DEF TypeOK
<1>2. CASE ~(buf = <<>> /\ fds[fd] # None)
  BY <1>2 DEF Drain, TypeOK
<1> QED BY <1>1, <1>2

LEMMA WriteType ==
    ASSUME TypeOK, NEW fd \in FD, NEW x \in Items, Write(fd, x)
    PROVE  sock' \in [Sock -> Streams] /\ alive' \in BOOLEAN
<1>1. CASE CanWrite(fd)
  <2>1. fds[fd] \in Sock /\ sock[fds[fd]] \in Streams
    BY <1>1 DEF TypeOK, CanWrite
  <2> DEFINE st == sock[fds[fd]]
  <2>2. PICK pr : pr = IF st.peer = "closed" THEN "broken" ELSE st.peer
    OBVIOUS
  <2>3. sock' = [sock EXCEPT ![fds[fd]] = [st EXCEPT !.out = Append(st.out, x), !.peer = pr]]
    BY <1>1, <2>1, <2>2 DEF Write, TypeOK, Streams
  <2>4. Append(st.out, x) \in Seq(Items)
    BY <2>1 DEF Streams
  <2>5. [st EXCEPT !.out = Append(st.out, x), !.peer = pr] \in Streams
    BY <2>1, <2>2, <2>4 DEF Streams
  <2> QED BY <2>1, <2>3, <2>5 DEF TypeOK, Write
<1>2. CASE ~CanWrite(fd) /\ fds[fd] # None
  <2>1. fds[fd] \in Sock /\ sock[fds[fd]] \in Streams
    BY <1>2 DEF TypeOK
  <2> DEFINE st == sock[fds[fd]]
  <2>2. sock' = [sock EXCEPT ![fds[fd]] = [st EXCEPT !.peer = "broken"]]
    BY <1>2, <2>1 DEF Write, TypeOK, Streams
  <2>3. [st EXCEPT !.peer = "broken"] \in Streams
    BY <2>1 DEF Streams
  <2> QED BY <2>1, <2>2, <2>3 DEF TypeOK, Write
<1>3. CASE ~CanWrite(fd) /\ fds[fd] = None
  BY <1>3 DEF Write, TypeOK
<1> QED BY <1>1, <1>2, <1>3

(* What a thread becomes by reading or sending, ...                        *)
Becomes(c, pcs) ==
    /\ fds' = fds /\ clobbered' = clobbered /\ mutex' = mutex
    /\ log' = log /\ fails' = fails
    /\ sock' \in [Sock -> Streams] /\ alive' \in BOOLEAN
    /\ \E r \in Threads :
         /\ th' = [th EXCEPT ![c] = r]
         /\ r.cfd = th[c].cfd /\ r.sfd = th[c].sfd /\ r.pc \in pcs

LEMMA ReadEffect ==
    ASSUME TypeOK, NEW c \in Conn, NEW fd, NEW buf,
           \/ fd = "cfd" /\ buf = "cbuf"
           \/ fd = "sfd" /\ buf = "sbuf",
           th[c][fd] \in FD,
           NEW data \in Pcs, NEW eof \in Pcs, NEW error \in Pcs,
           Read(c, fd, buf, data, eof, error)
    PROVE  Becomes(c, {data, eof, error})
<1>1. th[c] \in Threads /\ th \in [Conn -> Threads]
  BY DEF TypeOK
<1>2. th[c][buf] \in Seq(Items)
  BY <1>1 DEF Threads
<1> DEFINE got == Got(th[c][fd], th[c][buf])
           result == Result(th[c][fd], th[c][buf])
<1>3. /\ got \in Seq(Items)
      /\ result = "data" => got # <<>>
      /\ result \in {"data", "eof", "error"}
  BY <1>2, GotType
<1>4. sock' \in [Sock -> Streams]
  BY DrainType DEF Read
<1>5. /\ fds' = fds /\ clobbered' = clobbered /\ mutex' = mutex
      /\ log' = log /\ fails' = fails /\ alive' \in BOOLEAN
  BY DEF Read, TypeOK
<1>6. \E r \in Threads :
         /\ th' = [th EXCEPT ![c] = r]
         /\ r.cfd = th[c].cfd /\ r.sfd = th[c].sfd /\ r.pc \in {data, eof, error}
  <2>0. th' = [th EXCEPT ![c] =
                 CASE result = "data" -> [th[c] EXCEPT !.pc = data, !.line = Head(got),
                                                       ![buf] = Tail(got)]
                   [] result = "eof"   -> [th[c] EXCEPT !.pc = eof]
                   [] result = "error" -> [th[c] EXCEPT !.pc = error]]
    BY <1>1 DEF Read
  <2> HIDE DEF got, result
  <2>1. CASE result = "data"
    <3> DEFINE r == [th[c] EXCEPT !.pc = data, !.line = Head(got), ![buf] = Tail(got)]
    <3>1. Head(got) \in Items /\ Tail(got) \in Seq(Items)
      BY <1>3, <2>1
    <3>2. r \in Threads /\ r.cfd = th[c].cfd /\ r.sfd = th[c].sfd /\ r.pc = data
      BY <1>1, <3>1 DEF Threads
    <3>3. th' = [th EXCEPT ![c] = r]
      BY <2>0, <2>1
    <3> QED BY <3>2, <3>3
  <2>2. CASE result = "eof"
    <3> DEFINE r == [th[c] EXCEPT !.pc = eof]
    <3>1. r \in Threads /\ r.cfd = th[c].cfd /\ r.sfd = th[c].sfd /\ r.pc = eof
      BY <1>1 DEF Threads
    <3>2. th' = [th EXCEPT ![c] = r]
      BY <2>0, <2>2
    <3> QED BY <3>1, <3>2
  <2>3. CASE result = "error"
    <3> DEFINE r == [th[c] EXCEPT !.pc = error]
    <3>1. r \in Threads /\ r.cfd = th[c].cfd /\ r.sfd = th[c].sfd /\ r.pc = error
      BY <1>1 DEF Threads
    <3>2. th' = [th EXCEPT ![c] = r]
      BY <2>0, <2>3
    <3> QED BY <3>1, <3>2
  <2> QED BY <1>3, <2>1, <2>2, <2>3 DEF result
<1> QED BY <1>4, <1>5, <1>6 DEF Becomes

LEMMA SendEffect ==
    ASSUME TypeOK, NEW c \in Conn, NEW fd, th[c][fd] \in FD, NEW x \in Items,
           NEW next \in Threads, next.cfd = th[c].cfd, next.sfd = th[c].sfd,
           Send(c, fd, x, next) \/ SendUnchecked(c, fd, x, next)
    PROVE  Becomes(c, {next.pc, "abort"})
<1>1. th[c] \in Threads /\ th \in [Conn -> Threads]
  BY DEF TypeOK
<1>2. Write(th[c][fd], x)
  BY DEF Send, SendUnchecked
<1>3. sock' \in [Sock -> Streams] /\ alive' \in BOOLEAN
  BY <1>2, WriteType
<1>4. /\ fds' = fds /\ clobbered' = clobbered /\ mutex' = mutex
      /\ log' = log /\ fails' = fails
  BY DEF Send, SendUnchecked
<1> DEFINE a == [th[c] EXCEPT !.pc = "abort"]
<1>5. a \in Threads /\ a.cfd = th[c].cfd /\ a.sfd = th[c].sfd /\ a.pc = "abort"
  BY <1>1 DEF Threads, Pcs
<1>6. th' = [th EXCEPT ![c] = next] \/ th' = [th EXCEPT ![c] = a]
  BY DEF Send, SendUnchecked
<1> QED BY <1>3, <1>4, <1>5, <1>6 DEF Becomes

LEMMA GotoEffect ==
    ASSUME TypeOK, NEW c \in Conn, NEW pc \in Pcs, Goto(c, pc)
    PROVE  \E r \in Threads :
             /\ th' = [th EXCEPT ![c] = r]
             /\ r.cfd = th[c].cfd /\ r.sfd = th[c].sfd /\ r.pc = pc
<1>1. th[c] \in Threads /\ th \in [Conn -> Threads]
  BY DEF TypeOK
<1> DEFINE r == [th[c] EXCEPT !.pc = pc]
<1>2. r \in Threads /\ r.cfd = th[c].cfd /\ r.sfd = th[c].sfd /\ r.pc = pc
  BY <1>1 DEF Threads
<1>3. th' = [th EXCEPT ![c] = r]
  BY <1>1 DEF Goto, Threads
<1> QED BY <1>2, <1>3

LEMMA AfterHeaderEffect ==
    ASSUME NEW t \in Threads, NEW len, len = "reqLen" \/ len = "resLen",
           NEW pAgain \in Pcs, NEW pBody \in Pcs, NEW pEnd \in Pcs
    PROVE  /\ AfterHeader(t, len, pAgain, pBody, pEnd) \in Threads
           /\ AfterHeader(t, len, pAgain, pBody, pEnd).cfd = t.cfd
           /\ AfterHeader(t, len, pAgain, pBody, pEnd).sfd = t.sfd
           /\ AfterHeader(t, len, pAgain, pBody, pEnd).pc \in {pAgain, pBody, pEnd}
<1>1. PICK n : n = IF Kind(t.line) = "length" THEN 1 ELSE t[len]
  OBVIOUS
<1>2. n \in 0 .. 1
  BY <1>1 DEF Threads
<1>3. PICK pc \in {pAgain, pBody, pEnd} :
         pc = IF Kind(t.line) # "blank" THEN pAgain ELSE IF n > 0 THEN pBody ELSE pEnd
  OBVIOUS
<1>4. AfterHeader(t, len, pAgain, pBody, pEnd) = [t EXCEPT ![len] = n, !.pc = pc]
  BY <1>1, <1>3 DEF AfterHeader
<1>5. CASE len = "reqLen"
  BY <1>2, <1>3, <1>4, <1>5 DEF Threads
<1>6. CASE len = "resLen"
  BY <1>2, <1>3, <1>4, <1>6 DEF Threads
<1> QED BY <1>5, <1>6

LEMMA BecomesMoves ==
    ASSUME TypeOK, NEW c \in Conn, NEW pcs, Becomes(c, pcs),
           th[c].pc \in ClientPcs \ Critical, pcs \subseteq ClientPcs \ Critical,
           \/ th[c].pc \in ServerPcs /\ pcs \subseteq ServerPcs
           \/ th[c].pc \notin ServerPcs /\ pcs \cap ServerPcs = {}
    PROVE  Moves(c)
<1>1. log' \in Seq([conn : Conn, size : Nat])
  BY DEF Becomes, TypeOK
<1>2. PICK r \in Threads :
         /\ th' = [th EXCEPT ![c] = r]
         /\ r.cfd = th[c].cfd /\ r.sfd = th[c].sfd /\ r.pc \in pcs
  BY DEF Becomes
<1> HIDE DEF ClientPcs, ServerPcs, Critical
<1>3. /\ r.pc \in ClientPcs
      /\ r.pc \in ServerPcs <=> th[c].pc \in ServerPcs
      /\ r.pc \in Critical <=> th[c].pc \in Critical
  BY <1>2
<1> QED BY <1>1, <1>2, <1>3 DEF Becomes, Moves

-----------------------------------------------------------------------------
(* The actions of a thread that only read and send. *)

LEMMA ReadMoves ==
    ASSUME ProxyInv, NEW c \in Conn,
           \/ GetRequest(c) \/ ReadHeader(c) \/ ReadBody(c) \/ ReadReply(c) \/ ReadContent(c)
    PROVE  Moves(c)
<1>1. TypeOK /\ HeldInv
  BY DEF ProxyInv
<1>2. CASE GetRequest(c)
  <2>1. th[c].pc = "request" /\ th[c]["cfd"] \in FD
    BY <1>1, <1>2 DEF GetRequest, At, HeldInv, ServerPcs
  <2>2. Read(c, "cfd", "cbuf", "connect", "close", "close")
    BY <1>2 DEF GetRequest
  <2>3. "connect" \in Pcs /\ "close" \in Pcs /\ "close" \in Pcs
    BY DEF Pcs
  <2>4. Becomes(c, {"connect", "close", "close"})
    BY <1>1, <2>1, <2>2, <2>3, ReadEffect
  <2> QED BY <1>1, <2>1, <2>4, BecomesMoves DEF ClientPcs, ServerPcs, Critical
<1>3. CASE ReadHeader(c)
  <2>1. th[c].pc = "header" /\ th[c]["cfd"] \in FD
    BY <1>1, <1>3 DEF ReadHeader, At, HeldInv, ServerPcs
  <2>2. Read(c, "cfd", "cbuf", "send header", "send header", "abort")
    BY <1>3 DEF ReadHeader
  <2>3. "send header" \in Pcs /\ "send header" \in Pcs /\ "abort" \in Pcs
    BY DEF Pcs
  <2>4. Becomes(c, {"send header", "send header", "abort"})
    BY <1>1, <2>1, <2>2, <2>3, ReadEffect
  <2> QED BY <1>1, <2>1, <2>4, BecomesMoves DEF ClientPcs, ServerPcs, Critical
<1>4. CASE ReadBody(c)
  <2>1. th[c].pc = "body" /\ th[c]["cfd"] \in FD
    BY <1>1, <1>4 DEF ReadBody, At, HeldInv, ServerPcs
  <2>2. Read(c, "cfd", "cbuf", "send body", "reply", "abort")
    BY <1>4 DEF ReadBody
  <2>3. "send body" \in Pcs /\ "reply" \in Pcs /\ "abort" \in Pcs
    BY DEF Pcs
  <2>4. Becomes(c, {"send body", "reply", "abort"})
    BY <1>1, <2>1, <2>2, <2>3, ReadEffect
  <2> QED BY <1>1, <2>1, <2>4, BecomesMoves DEF ClientPcs, ServerPcs, Critical
<1>5. CASE ReadReply(c)
  <2>1. th[c].pc = "reply" /\ th[c]["sfd"] \in FD
    BY <1>1, <1>5 DEF ReadReply, At, HeldInv, ServerPcs
  <2>2. Read(c, "sfd", "sbuf", "send reply", "send crlf", "abort")
    BY <1>5 DEF ReadReply
  <2>3. "send reply" \in Pcs /\ "send crlf" \in Pcs /\ "abort" \in Pcs
    BY DEF Pcs
  <2>4. Becomes(c, {"send reply", "send crlf", "abort"})
    BY <1>1, <2>1, <2>2, <2>3, ReadEffect
  <2> QED BY <1>1, <2>1, <2>4, BecomesMoves DEF ClientPcs, ServerPcs, Critical
<1>6. CASE ReadContent(c)
  <2>1. th[c].pc = "content" /\ th[c]["sfd"] \in FD
    BY <1>1, <1>6 DEF ReadContent, At, HeldInv, ServerPcs
  <2>2. Read(c, "sfd", "sbuf", "send content", "finish", "abort")
    BY <1>6 DEF ReadContent
  <2>3. "send content" \in Pcs /\ "finish" \in Pcs /\ "abort" \in Pcs
    BY DEF Pcs
  <2>4. Becomes(c, {"send content", "finish", "abort"})
    BY <1>1, <2>1, <2>2, <2>3, ReadEffect
  <2> QED BY <1>1, <2>1, <2>4, BecomesMoves DEF ClientPcs, ServerPcs, Critical
<1> QED BY <1>2, <1>3, <1>4, <1>5, <1>6

LEMMA SendMoves ==
    ASSUME ProxyInv, NEW c \in Conn,
           \/ SendRequest(c) \/ SendHeader(c) \/ SendBody(c) \/ SendReply(c)
           \/ SendCrlf(c) \/ SendContent(c)
    PROVE  Moves(c)
<1>1. TypeOK /\ HeldInv
  BY DEF ProxyInv
<1>2. th[c] \in Threads /\ th[c].tot + 1 \in Nat /\ th[c].line \in Items /\ NoItem \in Items
  <2>1. th[c] \in Threads
    BY <1>1 DEF TypeOK
  <2>2. NoItem \in Items
    BY DEF Items, NoItem, Item
  <2> QED BY <2>1, <2>2 DEF Threads
<1>3. th[c].pc \in ServerPcs => th[c]["cfd"] \in FD /\ th[c]["sfd"] \in FD
  BY <1>1 DEF HeldInv, ServerPcs
<1>4. CASE SendRequest(c)
  <2>1. th[c].pc = "send request"
    BY <1>4 DEF SendRequest, At
  <2> DEFINE next == [th[c] EXCEPT !.pc = "header"]
  <2>2. next \in Threads /\ next.cfd = th[c].cfd /\ next.sfd = th[c].sfd /\ next.pc = "header"
    BY <1>2 DEF Threads, Pcs
  <2>3. Becomes(c, {next.pc, "abort"})
    BY <1>1, <1>2, <1>3, <1>4, <2>1, <2>2, SendEffect DEF SendRequest, ServerPcs
  <2> QED BY <1>1, <2>1, <2>2, <2>3, BecomesMoves DEF ClientPcs, ServerPcs, Critical
<1>5. CASE SendHeader(c)
  <2>1. th[c].pc = "send header"
    BY <1>5 DEF SendHeader, At
  <2> DEFINE t == th[c]
             next == AfterHeader(t, "reqLen", "header", "body", "reply")
  <2>2. /\ next \in Threads /\ next.cfd = th[c].cfd /\ next.sfd = th[c].sfd
        /\ next.pc \in {"header", "body", "reply"}
    <3>1. "header" \in Pcs /\ "body" \in Pcs /\ "reply" \in Pcs
      BY DEF Pcs
    <3>2. t \in Threads /\ t.cfd = th[c].cfd /\ t.sfd = th[c].sfd
      BY <1>2
    <3> HIDE DEF t
    <3>3. /\ next \in Threads /\ next.cfd = t.cfd /\ next.sfd = t.sfd
          /\ next.pc \in {"header", "body", "reply"}
      BY ONLY <3>1, <3>2, AfterHeaderEffect
    <3> QED BY <3>2, <3>3
  <2> HIDE DEF next
  <2>3. Becomes(c, {next.pc, "abort"})
    BY <1>1, <1>2, <1>3, <1>5, <2>1, <2>2, SendEffect DEF SendHeader, ServerPcs, next
  <2> QED BY <1>1, <2>1, <2>2, <2>3, BecomesMoves DEF ClientPcs, ServerPcs, Critical
<1>6. CASE SendBody(c)
  <2>1. th[c].pc = "send body"
    BY <1>6 DEF SendBody, At
  <2> DEFINE next == [th[c] EXCEPT !.pc = "reply"]
  <2>2. next \in Threads /\ next.cfd = th[c].cfd /\ next.sfd = th[c].sfd /\ next.pc = "reply"
    BY <1>2 DEF Threads, Pcs
  <2>3. Becomes(c, {next.pc, "abort"})
    BY <1>1, <1>2, <1>3, <1>6, <2>1, <2>2, SendEffect DEF SendBody, ServerPcs
  <2> QED BY <1>1, <2>1, <2>2, <2>3, BecomesMoves DEF ClientPcs, ServerPcs, Critical
<1>7. CASE SendReply(c)
  <2>1. th[c].pc = "send reply"
    BY <1>7 DEF SendReply, At
  <2>0. PICK n \in Nat : n = th[c].tot + 1
    BY <1>2
  <2> DEFINE t == [th[c] EXCEPT !.tot = n]
             next == AfterHeader(t, "resLen", "reply", "content", "finish")
  <2>2. t \in Threads /\ t.cfd = th[c].cfd /\ t.sfd = th[c].sfd
    BY <1>2 DEF Threads, Pcs
  <2>3. /\ next \in Threads /\ next.cfd = th[c].cfd /\ next.sfd = th[c].sfd
        /\ next.pc \in {"reply", "content", "finish"}
    <3>1. "reply" \in Pcs /\ "content" \in Pcs /\ "finish" \in Pcs
      BY DEF Pcs
    <3> HIDE DEF t
    <3> QED BY <2>2, <3>1, AfterHeaderEffect
  <2>4. Send(c, "cfd", th[c].line, next)
    BY <1>7, <2>0 DEF SendReply
  <2> HIDE DEF t, next
  <2>5. Becomes(c, {next.pc, "abort"})
    BY <1>1, <1>2, <1>3, <2>1, <2>3, <2>4, SendEffect DEF ServerPcs
  <2> QED BY <1>1, <2>1, <2>3, <2>5, BecomesMoves DEF ClientPcs, ServerPcs, Critical
<1>8. CASE SendCrlf(c)
  <2>1. th[c].pc = "send crlf"
    BY <1>8 DEF SendCrlf, At
  <2> DEFINE next == [th[c] EXCEPT !.pc = IF th[c].resLen > 0 THEN "content" ELSE "finish"]
  <2>2. /\ next \in Threads /\ next.cfd = th[c].cfd /\ next.sfd = th[c].sfd
        /\ next.pc \in {"content", "finish"}
    BY <1>2 DEF Threads, Pcs
  <2>3. Becomes(c, {next.pc, "abort"})
    BY <1>1, <1>2, <1>3, <1>8, <2>1, <2>2, SendEffect DEF SendCrlf, ServerPcs
  <2> QED BY <1>1, <2>1, <2>2, <2>3, BecomesMoves DEF ClientPcs, ServerPcs, Critical
<1>9. CASE SendContent(c)
  <2>1. th[c].pc = "send content"
    BY <1>9 DEF SendContent, At
  <2>0. PICK n \in Nat : n = th[c].tot + 1
    BY <1>2
  <2> DEFINE next == [th[c] EXCEPT !.pc = "finish", !.tot = n]
  <2>2. next \in Threads /\ next.cfd = th[c].cfd /\ next.sfd = th[c].sfd /\ next.pc = "finish"
    BY <1>2 DEF Threads, Pcs
  <2>3. SendUnchecked(c, "cfd", th[c].line, next)
    BY <1>9, <2>0 DEF SendContent
  <2> HIDE DEF next
  <2>4. Becomes(c, {next.pc, "abort"})
    BY <1>1, <1>2, <1>3, <2>1, <2>2, <2>3, SendEffect DEF ServerPcs
  <2> QED BY <1>1, <2>1, <2>2, <2>4, BecomesMoves DEF ClientPcs, ServerPcs, Critical
<1> QED BY <1>4, <1>5, <1>6, <1>7, <1>8, <1>9
-----------------------------------------------------------------------------
(* The other actions of a thread, and main. *)

LEMMA MovesPreserve ==
    ASSUME ProxyInv, NEW c \in Conn, Moves(c)
    PROVE  ProxyInv'
<1> USE DEF Moves
<1>1. TypeOK /\ HeldInv /\ MutexInv /\ DescInv
  BY DEF ProxyInv
<1>2. PICK r \in Threads :
        /\ th' = [th EXCEPT ![c] = r]
        /\ r.cfd = th[c].cfd /\ r.sfd = th[c].sfd
        /\ th[c].pc \in ClientPcs /\ r.pc \in ClientPcs
        /\ r.pc \in ServerPcs <=> th[c].pc \in ServerPcs
        /\ r.pc \in Critical <=> th[c].pc \in Critical
  OBVIOUS
<1>3. th'[c] = r /\ \A d \in Conn \ {c} : th'[d] = th[d]
  BY <1>1, <1>2 DEF TypeOK
<1>4. TypeOK'
  BY <1>1, <1>2 DEF TypeOK
<1>5. th[c].pc # "none"
  BY <1>2 DEF ClientPcs, ServerPcs
<1>6. HeldInv'
  BY <1>1, <1>2, <1>3, <1>5 DEF HeldInv
<1>7. MutexInv'
  BY <1>1, <1>2, <1>3 DEF MutexInv
<1>8. DescInv'
  BY <1>1, <1>2, <1>3 DEF DescInv
<1> QED BY <1>4, <1>6, <1>7, <1>8 DEF ProxyInv

LEMMA LeastNat ==
    ASSUME NEW T \in SUBSET Nat, T # {}
    PROVE  \E x \in T : \A y \in T : x <= y
<1>1. IsWellFoundedOn(OpToRel(<, Nat), Nat)
  BY NatLessThanWellFounded
<1>2. PICK x \in T : \A y \in T : <<y, x>> \notin OpToRel(<, Nat)
  BY <1>1, WFMin
<1>3. \A y \in T : ~(y < x)
  BY <1>2 DEF OpToRel
<1> QED BY <1>3

LEMMA LowestIsFree ==
    ASSUME FreeFd # {}
    PROVE  Lowest \in FD /\ fds[Lowest] = None
<1>1. FreeFd \in SUBSET Nat
  BY ProxyAssumption DEF FreeFd
<1>2. \E f \in FreeFd : \A g \in FreeFd : f <= g
  BY <1>1, LeastNat
<1>3. Lowest \in FreeFd
  BY <1>2 DEF Lowest
<1> QED BY <1>3 DEF FreeFd

(* A step to r that opens, closes and locks nothing else than it says.     *)
LEMMA StepTypes ==
    ASSUME TypeOK, NEW c \in Conn, NEW r \in Threads, th' = [th EXCEPT ![c] = r]
    PROVE  /\ th' \in [Conn -> Threads] /\ th'[c] = r
           /\ \A d \in Conn \ {c} : th'[d] = th[d]
BY DEF TypeOK

LEMMA AcceptPreserves ==
    ASSUME ProxyInv, NEW c \in Conn, Accept(c)
    PROVE  ProxyInv'
<1>1. TypeOK /\ HeldInv /\ MutexInv /\ DescInv
  BY DEF ProxyInv
<1>2. Lowest \in FD /\ fds[Lowest] = None
  BY LowestIsFree DEF Accept
<1>3. th[c] \in Threads /\ th[c].pc = "none" /\ fds \in [FD -> Sock \cup {None}]
  BY <1>1 DEF Accept, Waiting, TypeOK
<1>4. PICK f \in FD : f = Lowest
  BY <1>2
<1>5. PICK pc \in {"request", "failed"} : th' = [th EXCEPT ![c].pc = pc, ![c].cfd = f]
  BY <1>4 DEF Accept
<1> DEFINE r == [th[c] EXCEPT !.pc = pc, !.cfd = f]
<1>6. r \in Threads /\ r.pc = pc /\ r.cfd = f /\ r.sfd = th[c].sfd
  BY <1>3, <1>4, <1>5 DEF Threads, Pcs
<1>7. th' = [th EXCEPT ![c] = r]
  BY <1>1, <1>3, <1>5 DEF TypeOK, Threads
<1> HIDE DEF r
<1>8. /\ th' \in [Conn -> Threads] /\ th'[c] = r
      /\ \A d \in Conn \ {c} : th'[d] = th[d]
  BY <1>1, <1>6, <1>7, StepTypes
<1>9. fds' = [fds EXCEPT ![f] = <<"client", c>>] /\ clobbered' = clobbered /\ mutex' = mutex
  BY <1>4 DEF Accept
<1>10. <<"client", c>> \in Sock
  BY DEF Sock
<1>11. TypeOK'
  <2>1. fds' \in [FD -> Sock \cup {None}]
    BY <1>3, <1>9, <1>10
  <2>2. /\ sock' = sock /\ log' = log /\ alive' = alive
        /\ fails' = fails \/ fails' = fails + 1
    BY DEF Accept
  <2> QED BY <1>1, <1>8, <1>9, <2>1, <2>2 DEF TypeOK
<1>12. HeldInv'
  BY <1>1, <1>4, <1>5, <1>6, <1>8 DEF HeldInv, ServerPcs
<1>13. MutexInv'
  BY <1>1, <1>5, <1>6, <1>8, <1>9 DEF MutexInv, Critical
<1>14. DescInv'
  <2> SUFFICES ASSUME ~clobbered', NEW g \in FD, NEW d \in Conn
               PROVE  /\ fds'[g] = <<"client", d>> => th'[d].cfd = g /\ th'[d].pc \in ClientPcs
                      /\ fds'[g] = <<"server", d>> => th'[d].sfd = g /\ th'[d].pc \in ServerPcs
    BY DEF DescInv
  <2>1. /\ fds[g] = <<"client", d>> => th[d].cfd = g /\ th[d].pc \in ClientPcs
        /\ fds[g] = <<"server", d>> => th[d].sfd = g /\ th[d].pc \in ServerPcs
    BY <1>1, <1>9 DEF DescInv
  <2>2. CASE g = f
    <3>1. fds'[g] = <<"client", c>>
      BY <1>3, <1>9, <2>2
    <3>2. fds'[g] = <<"client", d>> => d = c
      BY <3>1
    <3>3. fds'[g] # <<"server", d>>
      BY <3>1
    <3> QED BY <1>5, <1>6, <1>8, <2>2, <3>2, <3>3 DEF ClientPcs
  <2>3. CASE g # f
    <3>1. fds'[g] = fds[g]
      BY <1>3, <1>9, <2>3
    <3>2. th[c].pc \notin ClientPcs /\ th[c].pc \notin ServerPcs
      BY <1>3 DEF ClientPcs, ServerPcs
    <3> QED BY <1>8, <2>1, <3>1, <3>2
  <2> QED BY <2>2, <2>3
<1> QED BY <1>11, <1>12, <1>13, <1>14 DEF ProxyInv

LEMMA ConnectPreserves ==
    ASSUME ProxyInv, NEW c \in Conn, Connect(c)
    PROVE  ProxyInv'
<1>1. TypeOK /\ HeldInv /\ MutexInv /\ DescInv
  BY DEF ProxyInv
<1>2. /\ th[c] \in Threads /\ th[c].pc = "connect" /\ fds \in [FD -> Sock \cup {None}]
      /\ sock \in [Sock -> Streams] /\ th[c].cfd \in FD
  BY <1>1 DEF Connect, At, TypeOK, HeldInv
<1>3. /\ log' = log /\ fails' = fails /\ alive' = alive
      /\ clobbered' = clobbered /\ mutex' = mutex
  BY DEF Connect
<1>4. CASE Goto(c, "close") /\ fds' = fds /\ sock' = sock
  <2>1. "close" \in Pcs
    BY DEF Pcs
  <2>2. PICK r \in Threads :
          /\ th' = [th EXCEPT ![c] = r]
          /\ r.cfd = th[c].cfd /\ r.sfd = th[c].sfd /\ r.pc = "close"
    BY <1>1, <1>4, <2>1, GotoEffect
  <2>3. /\ th[c].pc \in ClientPcs /\ r.pc \in ClientPcs
        /\ r.pc \in ServerPcs <=> th[c].pc \in ServerPcs
        /\ r.pc \in Critical <=> th[c].pc \in Critical
    BY <1>2, <2>2 DEF ClientPcs, ServerPcs, Critical
  <2>4. /\ log' \in Seq([conn : Conn, size : Nat])
        /\ sock' \in [Sock -> Streams] /\ alive' \in BOOLEAN
    BY <1>1, <1>3, <1>4 DEF TypeOK
  <2>5. Moves(c)
    BY <1>3, <1>4, <2>2, <2>3, <2>4 DEF Moves
  <2> QED BY <2>5, MovesPreserve
<1>5. CASE /\ FreeFd # {}
           /\ fds' = [fds EXCEPT ![Lowest] = <<"server", c>>]
           /\ sock' = [sock EXCEPT ![<<"server", c>>].peer = "open"]
           /\ th' = [th EXCEPT ![c].pc = "send request", ![c].sfd = Lowest]
  <2>1. PICK f \in FD : f = Lowest /\ fds[f] = None
    BY <1>5, LowestIsFree
  <2> DEFINE r == [th[c] EXCEPT !.pc = "send request", !.sfd = f]
  <2>2. r \in Threads /\ r.pc = "send request" /\ r.cfd = th[c].cfd /\ r.sfd = f
    BY <1>2, <2>1 DEF Threads, Pcs
  <2>3. th' = [th EXCEPT ![c] = r]
    BY <1>1, <1>2, <1>5, <2>1 DEF TypeOK, Threads
  <2> HIDE DEF r
  <2>4. /\ th' \in [Conn -> Threads] /\ th'[c] = r
        /\ \A d \in Conn \ {c} : th'[d] = th[d]
    BY <1>1, <2>2, <2>3, StepTypes
  <2>5. <<"server", c>> \in Sock
    BY DEF Sock
  <2>6. fds' = [fds EXCEPT ![f] = <<"server", c>>]
    BY <1>5, <2>1
  <2>7. TypeOK'
    <3>1. fds' \in [FD -> Sock \cup {None}]
      BY <1>2, <2>5, <2>6
    <3> DEFINE st == sock[<<"server", c>>]
    <3>2. st \in Streams
      BY <1>2, <2>5
    <3>3. sock' = [sock EXCEPT ![<<"server", c>>] = [st EXCEPT !.peer = "open"]]
      BY <1>5
    <3>4. [st EXCEPT !.peer = "open"] \in Streams
      <4> HIDE DEF st
      <4> QED BY <3>2 DEF Streams
    <3>5. sock' \in [Sock -> Streams]
      BY <1>2, <2>5, <3>3, <3>4
    <3> QED BY <1>1, <1>3, <2>4, <3>1, <3>5 DEF TypeOK
  <2>8. HeldInv'
    BY <1>1, <1>2, <2>1, <2>2, <2>4 DEF HeldInv
  <2>9. MutexInv'
    BY <1>1, <1>3, <2>2, <2>4 DEF MutexInv, Critical
  <2>10. DescInv'
    <3> SUFFICES ASSUME ~clobbered', NEW g \in FD, NEW d \in Conn
                 PROVE  /\ fds'[g] = <<"client", d>> => th'[d].cfd = g /\ th'[d].pc \in ClientPcs
                        /\ fds'[g] = <<"server", d>> => th'[d].sfd = g /\ th'[d].pc \in ServerPcs
      BY DEF DescInv
    <3>1. /\ fds[g] = <<"client", d>> => th[d].cfd = g /\ th[d].pc \in ClientPcs
          /\ fds[g] = <<"server", d>> => th[d].sfd = g /\ th[d].pc \in ServerPcs
      BY <1>1, <1>3 DEF DescInv
    <3>2. th[c].pc \notin ServerPcs /\ r.pc \in ClientPcs /\ r.pc \in ServerPcs
      BY <1>2, <2>2 DEF ClientPcs, ServerPcs
    <3>3. CASE g = f
      <4>1. fds'[g] = <<"server", c>>
        BY <1>2, <2>6, <3>3
      <4>2. fds'[g] = <<"server", d>> => d = c
        BY <4>1
      <4>3. fds'[g] # <<"client", d>>
        BY <4>1
      <4> QED BY <2>2, <2>4, <3>2, <3>3, <4>2, <4>3
    <3>4. CASE g # f
      <4>1. fds'[g] = fds[g]
        BY <1>2, <2>6, <3>4
      <4> QED BY <2>2, <2>4, <3>1, <3>2, <4>1
    <3> QED BY <3>3, <3>4
  <2> QED BY <2>7, <2>8, <2>9, <2>10 DEF ProxyInv
<1> QED BY <1>4, <1>5 DEF Connect

(* Closing the descriptor of the server where sendM ends, and that of the  *)
(* client where doThings and thread end.                                   *)
LEMMA ClosePreserves ==
    ASSUME ProxyInv, NEW c \in Conn,
           \/ Finish(c) \/ Abort(c) \/ Close(c) \/ CloseAgain(c)
    PROVE  ProxyInv'
<1>1. TypeOK /\ HeldInv /\ MutexInv /\ DescInv
  BY DEF ProxyInv
<1>2. PICK fd, pc :
        /\ CloseFd(c, fd) /\ Goto(c, pc) /\ UNCHANGED <<sock, mutex, log, fails, alive>>
        /\ \/ fd = th[c].sfd /\ th[c].pc \in {"finish", "abort"} /\ pc \in {"peername", "close"}
           \/ fd = th[c].cfd /\ th[c].pc = "close" /\ pc = "return"
           \/ fd = th[c].cfd /\ th[c].pc = "return" /\ pc = "done"
  BY DEF Finish, Abort, Close, CloseAgain, At
<1>3. pc \in Pcs /\ pc \notin Critical \cup ServerPcs /\ pc # "none"
  BY <1>2 DEF Pcs, Critical, ServerPcs
<1>4. PICK r \in Threads :
        /\ th' = [th EXCEPT ![c] = r]
        /\ r.cfd = th[c].cfd /\ r.sfd = th[c].sfd /\ r.pc = pc
  BY <1>1, <1>2, <1>3, GotoEffect
<1>5. /\ th' \in [Conn -> Threads] /\ th'[c] = r
      /\ \A d \in Conn \ {c} : th'[d] = th[d]
  BY <1>1, <1>4, StepTypes
<1>6. fds \in [FD -> Sock \cup {None}] /\ fds' = [fds EXCEPT ![fd] = None]
  BY <1>1, <1>2 DEF TypeOK, CloseFd
<1>7. th[c].pc # "none" /\ th[c].cfd \in FD
  <2>1. th[c].pc # "none"
    BY <1>2
  <2> QED BY <1>1, <2>1 DEF HeldInv
<1>8. TypeOK'
  <2>1. fds' \in [FD -> Sock \cup {None}]
    BY <1>6
  <2>2. clobbered' \in BOOLEAN
    BY <1>1, <1>2 DEF CloseFd, TypeOK
  <2> QED BY <1>1, <1>2, <1>5, <2>1, <2>2 DEF TypeOK
<1>9. HeldInv'
  BY <1>1, <1>3, <1>4, <1>5, <1>7 DEF HeldInv
<1>10. MutexInv'
  BY <1>1, <1>2, <1>3, <1>4, <1>5 DEF MutexInv
<1>11. DescInv'
  <2> SUFFICES ASSUME ~clobbered', NEW g \in FD, NEW d \in Conn
               PROVE  /\ fds'[g] = <<"client", d>> => th'[d].cfd = g /\ th'[d].pc \in ClientPcs
                      /\ fds'[g] = <<"server", d>> => th'[d].sfd = g /\ th'[d].pc \in ServerPcs
    BY DEF DescInv
  <2>1. ~clobbered /\ (fds[fd] = None \/ fds[fd][2] = c)
    BY <1>2 DEF CloseFd
  <2>2. /\ fds[g] = <<"client", d>> => th[d].cfd = g /\ th[d].pc \in ClientPcs
        /\ fds[g] = <<"server", d>> => th[d].sfd = g /\ th[d].pc \in ServerPcs
    BY <1>1, <2>1 DEF DescInv
  <2>3. None # <<"client", d>> /\ None # <<"server", d>>
    BY ProxyAssumption DEF Sock
  <2>4. CASE g = fd
    <3>1. fds'[g] = None
      BY <1>6, <2>4
    <3> QED BY <2>3, <3>1
  <2>5. CASE g # fd
    <3>1. fds'[g] = fds[g]
      BY <1>6, <2>5
    <3>2. CASE d # c
      BY <1>5, <2>2, <3>1, <3>2
    <3>3. CASE d = c /\ th[c].pc \in {"finish", "abort"}
      <4>1. fd = th[c].sfd /\ pc \in ClientPcs
        BY <1>2, <3>3 DEF ClientPcs
      <4> QED BY <1>4, <1>5, <2>2, <2>5, <3>1, <3>3, <4>1
    <3>4. CASE d = c /\ th[c].pc \in {"close", "return"}
      <4>1. fd = th[c].cfd /\ th[c].pc \notin ServerPcs
        BY <1>2, <3>4 DEF ServerPcs
      <4> QED BY <1>4, <1>5, <2>2, <2>5, <3>1, <3>4, <4>1
    <3> QED BY <1>2, <3>2, <3>3, <3>4
  <2> QED BY <2>4, <2>5
<1> QED BY <1>8, <1>9, <1>10, <1>11 DEF ProxyInv

LEMMA LogPreserves ==
    ASSUME ProxyInv, NEW c \in Conn, PeerName(c) \/ P(c) \/ WriteLog(c) \/ V(c)
    PROVE  ProxyInv'
<1>1. TypeOK /\ HeldInv /\ MutexInv /\ DescInv
  BY DEF ProxyInv
<1>2. CASE PeerName(c)
  <2>1. PICK pc \in {"close", "wait"} : Goto(c, pc)
    BY <1>2 DEF PeerName
  <2>2. pc \in Pcs /\ th[c].pc = "peername"
    BY <1>2 DEF Pcs, PeerName, At
  <2>3. PICK r \in Threads :
          /\ th' = [th EXCEPT ![c] = r]
          /\ r.cfd = th[c].cfd /\ r.sfd = th[c].sfd /\ r.pc = pc
    BY <1>1, <2>1, <2>2, GotoEffect
  <2>4. /\ th[c].pc \in ClientPcs /\ r.pc \in ClientPcs
        /\ r.pc \in ServerPcs <=> th[c].pc \in ServerPcs
        /\ r.pc \in Critical <=> th[c].pc \in Critical
    BY <2>1, <2>2, <2>3 DEF ClientPcs, ServerPcs, Critical
  <2>5. Moves(c)
    BY <1>1, <1>2, <2>3, <2>4 DEF Moves, PeerName, TypeOK
  <2> QED BY <2>5, MovesPreserve
<1>3. CASE WriteLog(c)
  <2>1. Goto(c, "signal") /\ "signal" \in Pcs /\ th[c].pc = "print"
    BY <1>3 DEF WriteLog, At, Pcs
  <2>2. PICK r \in Threads :
          /\ th' = [th EXCEPT ![c] = r]
          /\ r.cfd = th[c].cfd /\ r.sfd = th[c].sfd /\ r.pc = "signal"
    BY <1>1, <2>1, GotoEffect
  <2>3. /\ th[c].pc \in ClientPcs /\ r.pc \in ClientPcs
        /\ r.pc \in ServerPcs <=> th[c].pc \in ServerPcs
        /\ r.pc \in Critical <=> th[c].pc \in Critical
    BY <2>1, <2>2 DEF ClientPcs, ServerPcs, Critical
  <2>4. th[c].tot \in Nat
    BY <1>1 DEF TypeOK, Threads
  <2>5. log' \in Seq([conn : Conn, size : Nat])
    BY <1>1, <1>3, <2>4 DEF WriteLog, TypeOK
  <2>6. Moves(c)
    BY <1>1, <1>3, <2>2, <2>3, <2>5 DEF Moves, WriteLog, TypeOK
  <2> QED BY <2>6, MovesPreserve
<1>4. CASE P(c) \/ V(c)
  <2>1. PICK pc \in {"print", "close"} :
          /\ Goto(c, pc)
          /\ \/ pc = "print" /\ th[c].pc = "wait" /\ mutex > 0 /\ mutex' = mutex - 1
             \/ pc = "close" /\ th[c].pc = "signal" /\ mutex' = mutex + 1
          /\ UNCHANGED <<fds, sock, log, fails, alive, clobbered>>
    BY <1>4 DEF P, V, At
  <2>2. pc \in Pcs /\ pc \in ClientPcs /\ pc \notin ServerPcs /\ pc # "none"
    BY <2>1 DEF Pcs, ClientPcs, ServerPcs
  <2>3. th[c].pc \in ClientPcs /\ th[c].pc \notin ServerPcs /\ th[c].pc # "none"
    BY <2>1 DEF ClientPcs, ServerPcs
  <2>4. PICK r \in Threads :
          /\ th' = [th EXCEPT ![c] = r]
          /\ r.cfd = th[c].cfd /\ r.sfd = th[c].sfd /\ r.pc = pc
    BY <1>1, <2>1, <2>2, GotoEffect
  <2>5. /\ th' \in [Conn -> Threads] /\ th'[c] = r
        /\ \A d \in Conn \ {c} : th'[d] = th[d]
    BY <1>1, <2>4, StepTypes
  <2>6. mutex \in 0 .. 1 /\ (th[c].pc = "signal" => mutex = 0)
    BY <1>1 DEF TypeOK, MutexInv, Critical
  <2>7. mutex' \in 0 .. 1 /\ (pc = "print" => mutex = 1 /\ mutex' = 0)
    BY <2>1, <2>6
  <2>8. TypeOK'
    BY <1>1, <2>1, <2>5, <2>7 DEF TypeOK
  <2>9. HeldInv'
    BY <1>1, <2>2, <2>3, <2>4, <2>5 DEF HeldInv
  <2>10. MutexInv'
    <3>1. CASE pc = "print"
      <4>1. \A d \in Conn : th[d].pc \notin Critical
        BY <1>1, <2>7, <3>1 DEF MutexInv
      <4> QED BY <2>5, <2>7, <3>1, <4>1 DEF MutexInv
    <3>2. CASE pc = "close"
      <4>1. th[c].pc \in Critical /\ pc \notin Critical
        BY <2>1, <3>2 DEF Critical
      <4>2. \A d \in Conn : th'[d].pc \notin Critical
        BY <1>1, <2>4, <2>5, <4>1 DEF MutexInv
      <4> QED BY <4>2 DEF MutexInv
    <3> QED BY <2>1, <3>1, <3>2
  <2>11. DescInv'
    BY <1>1, <2>1, <2>2, <2>3, <2>4, <2>5 DEF DescInv
  <2> QED BY <2>8, <2>9, <2>10, <2>11 DEF ProxyInv
<1> QED BY <1>2, <1>3, <1>4

-----------------------------------------------------------------------------
(* The peers change nothing but their end of a connection. *)

LEMMA PeersPreserve ==
    ASSUME ProxyInv, Peers
    PROVE  ProxyInv'
<1>1. TypeOK /\ HeldInv /\ MutexInv /\ DescInv
  BY DEF ProxyInv
<1>2. UNCHANGED <<fds, th, mutex, log, fails, alive, clobbered>>
  BY DEF Peers, Connects, Sends, Stops
<1>3. sock' \in [Sock -> Streams]
  <2>1. PICK s \in Sock : \E t \in Streams : sock' = [sock EXCEPT ![s] = t]
    <3>1. CASE \E c \in Conn : Connects(c)
      <4>1. PICK c \in Conn : Connects(c)
        BY <3>1
      <4> DEFINE s == <<"client", c>>
                 t == [sock[s] EXCEPT !.peer = "open"]
      <4>2. s \in Sock
        BY DEF Sock
      <4>3. sock[s] \in Streams
        BY <1>1, <4>2 DEF TypeOK
      <4>4. sock' = [sock EXCEPT ![s] = t]
        BY <4>1 DEF Connects
      <4>5. t \in Streams
        <5> HIDE DEF s
        <5> QED BY <4>3 DEF Streams
      <4> QED BY <4>2, <4>4, <4>5
    <3>2. CASE \E s \in Sock, how \in {"shut", "closed", "reset"} : Stops(s, how)
      <4>1. PICK s \in Sock, how \in {"shut", "closed", "reset"} : Stops(s, how)
        BY <3>2
      <4> DEFINE t == [sock[s] EXCEPT !.peer = how]
      <4>2. sock[s] \in Streams
        BY <1>1 DEF TypeOK
      <4>3. sock' = [sock EXCEPT ![s] = t]
        BY <4>1 DEF Stops
      <4>4. t \in Streams
        BY <4>1, <4>2 DEF Streams
      <4> QED BY <4>3, <4>4
    <3>3. CASE \E s \in Sock : Sends(s)
      <4>1. PICK s \in Sock : Sends(s)
        BY <3>3
      <4>2. sock[s] \in Streams
        BY <1>1 DEF TypeOK
      <4>3. PICK n \in Nat : n = sock[s].sent + 1
        BY <4>2 DEF Streams
      <4>4. Item(s, n) \in Items
        BY DEF Item, Items
      <4>5. PICK q \in Seq(Items) : q = Append(sock[s].in, Item(s, n))
        <5>1. sock[s].in \in Seq(Items)
          BY <4>2 DEF Streams
        <5>2. Append(sock[s].in, Item(s, n)) \in Seq(Items)
          BY <4>4, <5>1
        <5> QED BY <5>2
      <4> DEFINE t == [sock[s] EXCEPT !.sent = n, !.in = q]
      <4>6. sock' = [sock EXCEPT ![s] = t]
        BY <1>1, <4>1, <4>2, <4>3, <4>5 DEF Sends, TypeOK, Streams
      <4>7. t \in Streams
        BY <4>2, <4>3, <4>5 DEF Streams
      <4> QED BY <4>6, <4>7
    <3> QED BY <3>1, <3>2, <3>3 DEF Peers
  <2> QED BY <1>1, <2>1 DEF TypeOK
<1>4. TypeOK'
  BY <1>1, <1>2, <1>3 DEF TypeOK
<1>5. HeldInv'
  BY <1>1, <1>2 DEF HeldInv
<1>6. MutexInv'
  BY <1>1, <1>2 DEF MutexInv
<1>7. DescInv'
  BY <1>1, <1>2 DEF DescInv
<1> QED BY <1>4, <1>5, <1>6, <1>7 DEF ProxyInv

-----------------------------------------------------------------------------
(* The invariant, and what it says. *)

(* In the beginning nothing is open, and no thread runs (main).            *)
THEOREM InitInv == Init => ProxyInv
<1> SUFFICES ASSUME Init PROVE ProxyInv
  OBVIOUS
<1>1. TypeOK
  <2> DEFINE st == [peer |-> "none", sent |-> 0, in |-> <<>>, out |-> <<>>]
             t == [pc |-> "none", cfd |-> 0, sfd |-> 0, cbuf |-> <<>>, sbuf |-> <<>>,
                   line |-> NoItem, reqLen |-> 0, resLen |-> 0, tot |-> 0]
  <2>1. NoItem \in Items
    BY DEF Items, NoItem, Item
  <2>2. <<>> \in Seq(Items) /\ <<>> \in Seq([conn : Conn, size : Nat])
    OBVIOUS
  <2>3. st \in Streams
    BY <2>2 DEF Streams
  <2>4. t \in Threads
    BY <2>1, <2>2 DEF Threads, Pcs
  <2>5. sock = [s \in Sock |-> st] /\ th = [c \in Conn |-> t]
    BY DEF Init
  <2> HIDE DEF st, t
  <2>6. sock \in [Sock -> Streams] /\ th \in [Conn -> Threads]
    BY <2>3, <2>4, <2>5
  <2>7. fds \in [FD -> Sock \cup {None}]
    BY DEF Init
  <2>8. /\ mutex \in 0 .. 1 /\ fails \in Nat
        /\ alive \in BOOLEAN /\ clobbered \in BOOLEAN /\ log = <<>>
    <3>1. mutex = 1 /\ log = <<>> /\ fails = 0 /\ alive = TRUE /\ clobbered = FALSE
      BY DEF Init
    <3>2. mutex \in 0 .. 1 /\ fails \in Nat
      BY <3>1
    <3>3. alive \in BOOLEAN /\ clobbered \in BOOLEAN
      BY <3>1
    <3> QED BY <3>1, <3>2, <3>3
  <2> QED BY <2>2, <2>6, <2>7, <2>8 DEF TypeOK
<1>2. \A c \in Conn : th[c].pc = "none"
  BY DEF Init
<1>3. "none" \notin ServerPcs /\ "none" \notin Critical
  BY DEF ServerPcs, Critical
<1>4. HeldInv /\ MutexInv
  BY <1>2, <1>3 DEF HeldInv, MutexInv
<1>5. DescInv
  <2>1. \A f \in FD : fds[f] = None
    BY DEF Init
  <2>2. \A c \in Conn : None # <<"client", c>> /\ None # <<"server", c>>
    BY ProxyAssumption DEF Sock
  <2> QED BY <2>1, <2>2 DEF DescInv
<1> QED BY <1>1, <1>4, <1>5 DEF ProxyInv

(* Every step of a thread, of main and of a peer keeps it.                 *)
THEOREM NextInv == ProxyInv /\ [Next]_vars => ProxyInv'
<1> SUFFICES ASSUME ProxyInv, [Next]_vars PROVE ProxyInv'
  OBVIOUS
<1>1. CASE Peers
  BY <1>1, PeersPreserve
<1>2. CASE \E c \in Conn : Accept(c)
  BY <1>2, AcceptPreserves
<1>3. CASE \E c \in Conn : Thread(c)
  <2>1. PICK c \in Conn : Thread(c)
    BY <1>3
  <2>2. CASE \/ GetRequest(c) \/ ReadHeader(c) \/ ReadBody(c) \/ ReadReply(c)
             \/ ReadContent(c)
    BY <2>2, ReadMoves, MovesPreserve
  <2>3. CASE \/ SendRequest(c) \/ SendHeader(c) \/ SendBody(c) \/ SendReply(c)
             \/ SendCrlf(c) \/ SendContent(c)
    BY <2>3, SendMoves, MovesPreserve
  <2>4. CASE Connect(c)
    BY <2>4, ConnectPreserves
  <2>5. CASE Finish(c) \/ Abort(c) \/ Close(c) \/ CloseAgain(c)
    BY <2>5, ClosePreserves
  <2>6. CASE PeerName(c) \/ P(c) \/ WriteLog(c) \/ V(c)
    BY <2>6, LogPreserves
  <2> QED BY <2>1, <2>2, <2>3, <2>4, <2>5, <2>6 DEF Thread
<1>4. CASE UNCHANGED vars
  BY <1>4 DEF ProxyInv, TypeOK, HeldInv, MutexInv, DescInv, vars
<1> QED BY <1>1, <1>2, <1>3, <1>4 DEF Next

LEMMA Invariance == Spec => []ProxyInv
BY InitInv, NextInv, PTL DEF Spec

(* The descriptors, the buffers, the mutex and the log always have the     *)
(* types of TypeOK (main, thread, doThings, sendM).                        *)
THEOREM TypeCorrect == Spec => []TypeOK
<1>1. ProxyInv => TypeOK
  BY DEF ProxyInv
<1> QED BY <1>1, Invariance, PTL

(* However many threads run, one at a time is between P and V (doThings).  *)
THEOREM LogIsExclusive == Spec => []LogExclusive
<1>1. ProxyInv => LogExclusive
  BY DEF ProxyInv, MutexInv, LogExclusive, Critical
<1> QED BY <1>1, Invariance, PTL

(* However many threads run and whatever the peers do, until a thread has  *)
(* closed a socket of another one no descriptor is left open by a path of  *)
(* sendM, doThings and thread.                                             *)
THEOREM NoneLeftOpen == Spec => []NoDescriptorLeft
<1>1. ProxyInv => NoDescriptorLeft
  <2> SUFFICES ASSUME ProxyInv, ~clobbered, NEW f \in FD, fds[f] # None
               PROVE  LET c == fds[f][2]
                      IN  \/ th[c].pc = "failed"
                          \/ /\ th[c].pc \notin {"none", "return", "done"}
                             /\ f \in {th[c].cfd, th[c].sfd}
                             /\ th[c].pc \in {"peername", "wait", "print", "signal", "close"}
                                  => f = th[c].cfd
    BY DEF NoDescriptorLeft
  <2>1. PICK c \in Conn : fds[f] = <<"client", c>> \/ fds[f] = <<"server", c>>
    BY DEF ProxyInv, TypeOK, Sock
  <2>2. fds[f][2] = c
    BY <2>1
  <2>3. \/ th[c].cfd = f /\ th[c].pc \in ClientPcs
        \/ th[c].sfd = f /\ th[c].pc \in ServerPcs
    BY <2>1 DEF ProxyInv, DescInv
  <2>4. th[c].pc \in ClientPcs => th[c].pc \notin {"none", "return", "done"}
    BY DEF ClientPcs, ServerPcs
  <2>5. th[c].pc \in ServerPcs =>
          th[c].pc \notin {"none", "return", "done", "peername", "wait", "print", "signal", "close"}
    BY DEF ServerPcs
  <2> QED BY <2>2, <2>3, <2>4, <2>5
<1> QED BY <1>1, Invariance, PTL

-----------------------------------------------------------------------------
(* What is relayed. *)

(* Both ends of c, and the items read from s and not used: after the first *)
(* a items, those in the thread's buffer and those still in the socket.    *)
Client(c) == <<"client", c>>
Server(c) == <<"server", c>>

Flow(s, a, buf, in, sent) ==
    /\ \A k \in 1 .. Len(buf) : buf[k] = Item(s, a + k)
    /\ \A k \in 1 .. Len(in) : in[k] = Item(s, a + Len(buf) + k)
    /\ a + Len(buf) + Len(in) = sent

(* A line that has been read and is to be written. *)
TakenPcs == {"connect", "send request", "send header", "send body"}
AskingPcs == {"none", "request", "header", "body"} \cup TakenPcs
GivenPcs == {"send reply", "send content"}
LoopPcs == AskingPcs \cup {"reply", "send reply", "send crlf", "send content"}
RelayPcs == LoopPcs \cup {"content"}
CountedPcs == RelayPcs \cup {"wait", "print"}
LoggedPcs == {"signal", "close", "return", "done"}

(* What has been written to a client, without the proxy's own "\r\n".      *)
Ended(out) == out # <<>> /\ out[Len(out)] = NoItem
Real(out) == IF Ended(out) THEN Len(out) - 1 ELSE Len(out)

(* A peer that has stopped does not come back. *)
Later(p, q) == p = q \/ (p \notin {"none", "open"} /\ q \notin {"none", "open"})

Drained(t, sv) == t.sbuf = <<>> /\ sv.in = <<>> /\ sv.peer # "open"

(* The request: what the server of c was sent, while the client is there.  *)
Asks(c, t, cl, sv) ==
    cl.peer \in {"none", "open"} =>
        /\ Len(sv.out) <= cl.sent
        /\ \A k \in 1 .. Len(sv.out) : sv.out[k] = Item(Client(c), k)
        /\ t.pc \in TakenPcs => /\ t.line = Item(Client(c), Len(sv.out) + 1)
                                /\ Flow(Client(c), Len(sv.out) + 1, t.cbuf, cl.in, cl.sent)
        /\ t.pc \in AskingPcs \ TakenPcs =>
                                Flow(Client(c), Len(sv.out), t.cbuf, cl.in, cl.sent)

(* The reply: what the client of c was sent, and what has been counted (a  *)
(* write that reports a reset is counted and sends nothing; the thread then*)
(* finds its client gone and logs nothing).                                *)
Answers(c, t, cl, sv, up) ==
    /\ Real(cl.out) <= sv.sent
    /\ \A k \in 1 .. Real(cl.out) : cl.out[k] = Item(Server(c), k)
    /\ up /\ (cl.peer = "broken" => t.pc \in CountedPcs) => t.tot = Real(cl.out)
    /\ Ended(cl.out) => t.pc \notin LoopPcs /\ Drained(t, sv)
    /\ t.pc = "send crlf" => Drained(t, sv)
    /\ t.pc \in GivenPcs => /\ t.line = Item(Server(c), t.tot + 1)
                            /\ Flow(Server(c), t.tot + 1, t.sbuf, sv.in, sv.sent)
    /\ t.pc \in RelayPcs \ GivenPcs => Flow(Server(c), t.tot, t.sbuf, sv.in, sv.sent)

Carries(c, t, cl, sv, up) ==
    /\ cl.sent <= Len(Req[c]) /\ sv.sent <= Len(Resp[c])
    /\ t.pc # "none" => cl.peer # "none"
    /\ Asks(c, t, cl, sv)
    /\ Answers(c, t, cl, sv, up)

(* The descriptors a thread uses are those of its own two sockets.         *)
Owns(c) ==
    /\ th[c].pc \in ClientPcs \ {"failed"} => fds[th[c].cfd] = Client(c)
    /\ th[c].pc \in ServerPcs => fds[th[c].sfd] = Server(c)

CarryInv ==
    ~clobbered =>
        /\ \A c \in Conn : Owns(c)
        /\ \A c \in Conn : Carries(c, th[c], sock[Client(c)], sock[Server(c)], alive)
        /\ \A i \in DOMAIN log : LET c == log[i].conn IN
             /\ th[c].pc \in LoggedPcs
             /\ log[i].size = Real(sock[Client(c)].out)

-----------------------------------------------------------------------------
LEMMA SeqElement ==
    ASSUME NEW S, NEW q \in Seq(S), NEW i \in DOMAIN q PROVE q[i] \in S
OBVIOUS

LEMMA StreamTypes ==
    ASSUME NEW st \in Streams
    PROVE  /\ st.in \in Seq(Items) /\ st.out \in Seq(Items) /\ st.sent \in Nat
           /\ Len(st.in) \in Nat /\ Len(st.out) \in Nat
<1>1. st.in \in Seq(Items) /\ st.out \in Seq(Items) /\ st.sent \in Nat
  BY DEF Streams
<1> QED BY <1>1

LEMMA ThreadTypes ==
    ASSUME NEW t \in Threads
    PROVE  /\ t.cbuf \in Seq(Items) /\ t.sbuf \in Seq(Items) /\ t.tot \in Nat /\ t.line \in Items
           /\ Len(t.cbuf) \in Nat /\ Len(t.sbuf) \in Nat
<1>1. t.cbuf \in Seq(Items) /\ t.sbuf \in Seq(Items) /\ t.tot \in Nat /\ t.line \in Items
  BY DEF Threads
<1> QED BY <1>1

(* Reading takes the next item of a stream, ... *)
LEMMA FlowTake ==
    ASSUME NEW s, NEW a \in Nat, NEW sent \in Nat, NEW buf \in Seq(Items),
           NEW in \in Seq(Items), Flow(s, a, buf, in, sent),
           (IF buf # <<>> THEN buf ELSE in) # <<>>
    PROVE  LET got == IF buf # <<>> THEN buf ELSE in IN
           /\ Head(got) = Item(s, a + 1)
           /\ Flow(s, a + 1, Tail(got), IF buf = <<>> THEN <<>> ELSE in, sent)
<1> DEFINE got == IF buf # <<>> THEN buf ELSE in
<1>1. /\ \A k \in 1 .. Len(buf) : buf[k] = Item(s, a + k)
      /\ \A k \in 1 .. Len(in) : in[k] = Item(s, a + Len(buf) + k)
      /\ a + Len(buf) + Len(in) = sent
  BY DEF Flow
<1>2. Len(buf) \in Nat /\ Len(in) \in Nat
  OBVIOUS
<1>3. CASE buf # <<>>
  <2> DEFINE tl == Tail(buf)
  <2>1. got = buf /\ Len(buf) >= 1
    BY <1>3
  <2>2. Head(buf) = buf[1]
    BY <1>3
  <2>3. /\ tl \in Seq(Items) /\ Len(tl) = Len(buf) - 1 /\ Len(tl) \in Nat
        /\ \A k \in 1 .. Len(buf) - 1 : tl[k] = buf[k + 1]
    BY <1>3
  <2> HIDE DEF tl
  <2>4. \A k \in 1 .. Len(tl) : tl[k] = Item(s, (a + 1) + k)
    <3> TAKE k \in 1 .. Len(tl)
    <3>1. k + 1 \in 1 .. Len(buf) /\ a + (k + 1) = (a + 1) + k
      BY <1>2, <2>3
    <3> QED BY <1>1, <2>3, <3>1
  <2>5. a + Len(buf) = (a + 1) + Len(tl)
    BY <1>2, <2>3
  <2>6. /\ \A k \in 1 .. Len(in) : in[k] = Item(s, (a + 1) + Len(tl) + k)
        /\ (a + 1) + Len(tl) + Len(in) = sent
    BY <1>1, <2>5
  <2>7. Head(got) = Item(s, a + 1)
    BY <1>1, <1>2, <2>1, <2>2
  <2>8. Flow(s, a + 1, tl, in, sent)
    BY <2>4, <2>6 DEF Flow
  <2> QED BY <1>3, <2>1, <2>7, <2>8 DEF tl
<1>4. CASE buf = <<>>
  <2>1. got = in /\ in # <<>> /\ Len(in) >= 1 /\ Len(buf) = 0
    BY <1>4
  <2>2. Head(in) = in[1]
    BY <2>1
  <2>3. Len(Tail(in)) = Len(in) - 1 /\ \A k \in 1 .. Len(in) - 1 : Tail(in)[k] = in[k + 1]
    BY <2>1
  <2>4. \A k \in 1 .. Len(Tail(in)) : Tail(in)[k] = Item(s, (a + 1) + k)
    <3> TAKE k \in 1 .. Len(Tail(in))
    <3>1. k + 1 \in 1 .. Len(in) /\ a + Len(buf) + (k + 1) = (a + 1) + k
      BY <1>2, <2>1, <2>3
    <3> QED BY <1>1, <2>3, <3>1
  <2>5. (a + 1) + Len(Tail(in)) + Len(<<>>) = sent
    BY <1>1, <1>2, <2>1, <2>3
  <2>6. Head(got) = Item(s, a + 1)
    <3>1. a + Len(buf) + 1 = a + 1 /\ 1 \in 1 .. Len(in)
      BY <1>2, <2>1
    <3> QED BY <1>1, <2>1, <2>2, <3>1
  <2>7. Flow(s, a + 1, Tail(in), <<>>, sent)
    <3>1. \A k \in 1 .. Len(<<>>) : FALSE
      OBVIOUS
    <3> QED BY <2>4, <2>5, <3>1 DEF Flow
  <2> QED BY <1>4, <2>1, <2>6, <2>7
<1> QED BY <1>3, <1>4

(* ... and the next item that is sent goes to its end.                     *)
LEMMA FlowArrives ==
    ASSUME NEW s, NEW a \in Nat, NEW sent \in Nat, NEW buf \in Seq(Items),
           NEW in \in Seq(Items), Flow(s, a, buf, in, sent), s \in Sock
    PROVE  Flow(s, a, buf, Append(in, Item(s, sent + 1)), sent + 1)
<1> DEFINE new == Append(in, Item(s, sent + 1))
<1>1. Item(s, sent + 1) \in Items
  BY DEF Item, Items
<1>2. Len(new) = Len(in) + 1 /\ \A k \in 1 .. Len(new) :
        new[k] = IF k = Len(in) + 1 THEN Item(s, sent + 1) ELSE in[k]
  BY <1>1
<1>3. Len(buf) \in Nat /\ Len(in) \in Nat /\ a + Len(buf) + Len(in) = sent
  BY DEF Flow
<1> HIDE DEF new
<1>4. \A k \in 1 .. Len(new) : new[k] = Item(s, a + Len(buf) + k)
  <2> TAKE k \in 1 .. Len(new)
  <2>1. CASE k = Len(in) + 1
    <3>1. a + Len(buf) + k = sent + 1
      BY <1>3, <2>1
    <3> QED BY <1>2, <2>1, <3>1
  <2>2. CASE k # Len(in) + 1
    <3>1. k \in 1 .. Len(in)
      BY <1>2, <1>3, <2>2
    <3> QED BY <1>2, <2>2, <3>1 DEF Flow
  <2> QED BY <2>1, <2>2
<1>5. a + Len(buf) + Len(new) = sent + 1
  BY <1>2, <1>3
<1> QED BY <1>4, <1>5 DEF Flow, new

(* A peer that has been given the first items of s is given the next.      *)
LEMMA RunGrows ==
    ASSUME NEW out \in Seq(Items), NEW s, NEW x \in Items, x = Item(s, Len(out) + 1),
           \A k \in 1 .. Len(out) : out[k] = Item(s, k)
    PROVE  /\ Len(Append(out, x)) = Len(out) + 1
           /\ \A k \in 1 .. Len(Append(out, x)) : Append(out, x)[k] = Item(s, k)
<1>1. /\ Len(out) \in Nat /\ Len(Append(out, x)) = Len(out) + 1
      /\ \A k \in 1 .. Len(out) : Append(out, x)[k] = out[k]
      /\ Append(out, x)[Len(out) + 1] = x
  OBVIOUS
<1> QED BY <1>1

(* What is left of a stream is never more than was sent.                   *)
LEMMA FlowBounded ==
    ASSUME NEW s, NEW a \in Nat, NEW sent \in Nat, NEW buf \in Seq(Items),
           NEW in \in Seq(Items), Flow(s, a, buf, in, sent)
    PROVE  a <= sent
<1>1. Len(buf) \in Nat /\ Len(in) \in Nat
  OBVIOUS
<1> QED BY <1>1 DEF Flow

(* What a client has been given grows by one item, or by the "\r\n".       *)
LEMMA NoItemIsNone ==
    ASSUME NEW s \in Sock, NEW k PROVE Item(s, k) # NoItem
<1>1. s # None
  BY ProxyAssumption
<1>2. Item(s, k).from = s /\ NoItem.from = None
  BY DEF Item, NoItem
<1> QED BY <1>1, <1>2

LEMMA RealGrows ==
    ASSUME NEW out \in Seq(Items), ~ Ended(out), NEW x \in Items
    PROVE  /\ Real(out) = Len(out) /\ Len(out) \in Nat
           /\ Append(out, x) \in Seq(Items) /\ Len(Append(out, x)) = Len(out) + 1
           /\ \A k \in 1 .. Len(out) : Append(out, x)[k] = out[k]
           /\ Append(out, x)[Len(out) + 1] = x
           /\ x = NoItem => Ended(Append(out, x)) /\ Real(Append(out, x)) = Len(out)
           /\ x # NoItem => ~ Ended(Append(out, x)) /\ Real(Append(out, x)) = Len(out) + 1
<1>1. /\ Len(out) \in Nat /\ Append(out, x) \in Seq(Items)
      /\ Len(Append(out, x)) = Len(out) + 1
      /\ \A k \in 1 .. Len(out) : Append(out, x)[k] = out[k]
      /\ Append(out, x)[Len(out) + 1] = x
      /\ Append(out, x) # <<>>
  OBVIOUS
<1> QED BY <1>1 DEF Ended, Real

-----------------------------------------------------------------------------
(* One connection: every kind of step of its thread and its peers keeps    *)
(* what Carries says.  First the steps that move no item, ...              *)

LEMMA StillCarries ==
    ASSUME NEW c \in Conn, NEW t \in Threads, NEW cl \in Streams, NEW sv \in Streams,
           Carries(c, t, cl, sv, TRUE),
           NEW r \in Threads, NEW cl2 \in Streams, NEW sv2 \in Streams,
           r.cbuf = t.cbuf, r.sbuf = t.sbuf, r.line = t.line,
           \/ r.tot = t.tot
           \/ r.pc \notin RelayPcs /\ r.pc \notin CountedPcs /\ cl2.peer = "broken",
           cl.peer = "broken" => /\ cl2.peer = "broken"
                                 /\ r.pc \in CountedPcs => t.pc \in CountedPcs,
           cl2.in = cl.in, cl2.out = cl.out, cl2.sent = cl.sent,
           sv2.in = sv.in, sv2.out = sv.out, sv2.sent = sv.sent,
           cl2.peer \in {"none", "open"} => cl.peer \in {"none", "open"},
           r.pc # "none" => cl2.peer # "none",
           sv2.peer = "open" => sv.peer = "open" \/ t.pc \in LoopPcs,
           r.pc \in TakenPcs => t.pc \in TakenPcs,
           r.pc \in AskingPcs \ TakenPcs => t.pc \in AskingPcs \ TakenPcs,
           r.pc \in GivenPcs => t.pc \in GivenPcs,
           r.pc \in RelayPcs \ GivenPcs => t.pc \in RelayPcs \ GivenPcs,
           r.pc \in LoopPcs => t.pc \in LoopPcs,
           r.pc = "send crlf" => t.pc = "send crlf" /\ sv2.peer = sv.peer
    PROVE  Carries(c, r, cl2, sv2, TRUE)
<1> HIDE DEF TakenPcs, AskingPcs, GivenPcs, LoopPcs, RelayPcs, CountedPcs
<1>1. Asks(c, r, cl2, sv2)
  BY DEF Carries, Asks
<1>2. /\ Real(cl2.out) <= sv2.sent
      /\ \A k \in 1 .. Real(cl2.out) : cl2.out[k] = Item(Server(c), k)
      /\ (cl2.peer = "broken" => r.pc \in CountedPcs) => r.tot = Real(cl2.out)
  BY DEF Carries, Answers
<1>3. Ended(cl2.out) => r.pc \notin LoopPcs /\ Drained(r, sv2)
  BY DEF Carries, Answers, Drained
<1>4. r.pc = "send crlf" => Drained(r, sv2)
  BY DEF Carries, Answers, Drained
<1>5. r.pc \in GivenPcs => /\ r.line = Item(Server(c), r.tot + 1)
                           /\ Flow(Server(c), r.tot + 1, r.sbuf, sv2.in, sv2.sent)
  <2>1. GivenPcs \subseteq RelayPcs
    BY DEF GivenPcs, RelayPcs, LoopPcs
  <2> QED BY <2>1 DEF Carries, Answers
<1>6. r.pc \in RelayPcs \ GivenPcs => Flow(Server(c), r.tot, r.sbuf, sv2.in, sv2.sent)
  BY DEF Carries, Answers
<1>7. Answers(c, r, cl2, sv2, TRUE)
  BY <1>2, <1>3, <1>4, <1>5, <1>6 DEF Answers
<1> QED BY <1>1, <1>7 DEF Carries

(* ... then a read from the client, ...                                    *)
LEMMA ReadFromClient ==
    ASSUME NEW c \in Conn, NEW t \in Threads, NEW cl \in Streams, NEW sv \in Streams,
           NEW up \in BOOLEAN, Carries(c, t, cl, sv, up),
           NEW r \in Threads, NEW cl2 \in Streams,
           t.pc \in {"request", "header", "body"},
           NEW got, got = IF t.cbuf # <<>> THEN t.cbuf ELSE cl.in,
           cl2.out = cl.out, cl2.sent = cl.sent, Later(cl.peer, cl2.peer),
           cl2.in = IF t.cbuf = <<>> THEN <<>> ELSE cl.in,
           r.sbuf = t.sbuf, r.tot = t.tot,
           \/ /\ got # <<>> /\ r.line = Head(got) /\ r.cbuf = Tail(got)
              /\ r.pc \in {"connect", "send header", "send body"}
           \/ /\ cl.peer # "open"
              /\ r.pc \in {"close", "send header", "reply", "abort"}
    PROVE  Carries(c, r, cl2, sv, up)
<1>1. /\ t.pc \in AskingPcs \ TakenPcs /\ t.pc \in RelayPcs \ GivenPcs /\ t.pc \in LoopPcs
      /\ t.pc # "none" /\ t.pc \in CountedPcs
  BY DEF AskingPcs, TakenPcs, RelayPcs, GivenPcs, LoopPcs, CountedPcs
<1>2. /\ r.pc \notin GivenPcs /\ r.pc # "send crlf" /\ r.pc # "none"
  BY DEF GivenPcs
<1>3. Answers(c, r, cl2, sv, up)
  BY <1>1, <1>2 DEF Carries, Answers
<1>4. Asks(c, r, cl2, sv)
  <2>1. CASE /\ got # <<>> /\ r.line = Head(got) /\ r.cbuf = Tail(got)
             /\ r.pc \in {"connect", "send header", "send body"}
    <3> SUFFICES ASSUME cl2.peer \in {"none", "open"}
                 PROVE  /\ Len(sv.out) <= cl2.sent
                        /\ \A k \in 1 .. Len(sv.out) : sv.out[k] = Item(Client(c), k)
                        /\ r.line = Item(Client(c), Len(sv.out) + 1)
                        /\ Flow(Client(c), Len(sv.out) + 1, r.cbuf, cl2.in, cl2.sent)
      <4>1. r.pc \in TakenPcs
        BY <2>1 DEF TakenPcs
      <4> QED BY <4>1 DEF Asks
    <3>1. /\ Len(sv.out) <= cl.sent
          /\ \A k \in 1 .. Len(sv.out) : sv.out[k] = Item(Client(c), k)
          /\ Flow(Client(c), Len(sv.out), t.cbuf, cl.in, cl.sent)
      BY <1>1 DEF Carries, Asks, Later
    <3>2. /\ Len(sv.out) \in Nat /\ cl.sent \in Nat
          /\ t.cbuf \in Seq(Items) /\ cl.in \in Seq(Items)
      BY StreamTypes, ThreadTypes
    <3>3. /\ Head(got) = Item(Client(c), Len(sv.out) + 1)
          /\ Flow(Client(c), Len(sv.out) + 1, Tail(got), IF t.cbuf = <<>> THEN <<>> ELSE cl.in, cl.sent)
      <4>1. got # <<>> /\ got = IF t.cbuf # <<>> THEN t.cbuf ELSE cl.in
        BY <2>1
      <4> QED BY ONLY <3>1, <3>2, <4>1, FlowTake
    <3> QED BY <2>1, <3>1, <3>3
  <2>2. CASE cl.peer # "open"
    BY <1>1, <2>2 DEF Carries, Asks, Later
  <2> QED BY <2>1, <2>2
<1>5. cl2.peer # "none"
  BY <1>1 DEF Carries, Later
<1> QED BY <1>3, <1>4, <1>5 DEF Carries

(* ... from the server, ...                                                *)
LEMMA ReadFromServer ==
    ASSUME NEW c \in Conn, NEW t \in Threads, NEW cl \in Streams, NEW sv \in Streams,
           NEW up \in BOOLEAN, Carries(c, t, cl, sv, up),
           NEW r \in Threads, NEW sv2 \in Streams,
           t.pc \in {"reply", "content"},
           NEW got, got = IF t.sbuf # <<>> THEN t.sbuf ELSE sv.in,
           sv2.out = sv.out, sv2.sent = sv.sent, Later(sv.peer, sv2.peer),
           sv2.in = IF t.sbuf = <<>> THEN <<>> ELSE sv.in,
           r.tot = t.tot,
           \/ /\ got # <<>> /\ r.line = Head(got) /\ r.sbuf = Tail(got)
              /\ r.pc \in {"send reply", "send content"}
           \/ /\ got = <<>> /\ sv.peer # "open" /\ r.sbuf = t.sbuf
              /\ r.pc \in {"send crlf", "finish", "abort"}
              /\ r.pc = "send crlf" => t.pc = "reply"
    PROVE  Carries(c, r, cl, sv2, up)
<1>1. /\ t.pc \in RelayPcs \ GivenPcs /\ t.pc # "none" /\ t.pc \in CountedPcs
  BY DEF CountedPcs, RelayPcs, GivenPcs, LoopPcs, AskingPcs, TakenPcs
<1>2. r.pc \notin AskingPcs /\ r.pc # "none" /\ r.pc \notin TakenPcs
  BY DEF AskingPcs, TakenPcs
<1>3. Asks(c, r, cl, sv2)
  BY <1>2 DEF Carries, Asks
<1>4. /\ Flow(Server(c), t.tot, t.sbuf, sv.in, sv.sent)
      /\ t.tot \in Nat /\ sv.sent \in Nat /\ t.sbuf \in Seq(Items) /\ sv.in \in Seq(Items)
  BY <1>1, StreamTypes, ThreadTypes DEF Carries, Answers
<1>5. /\ Real(cl.out) <= sv2.sent
      /\ \A k \in 1 .. Real(cl.out) : cl.out[k] = Item(Server(c), k)
      /\ up => r.tot = Real(cl.out)
      /\ Ended(cl.out) => Drained(t, sv)
  BY <1>1 DEF Carries, Answers
<1>6. CASE /\ got # <<>> /\ r.line = Head(got) /\ r.sbuf = Tail(got)
           /\ r.pc \in {"send reply", "send content"}
  <2>1. /\ Head(got) = Item(Server(c), t.tot + 1)
        /\ Flow(Server(c), t.tot + 1, Tail(got), IF t.sbuf = <<>> THEN <<>> ELSE sv.in, sv.sent)
    <3>1. (IF t.sbuf # <<>> THEN t.sbuf ELSE sv.in) # <<>>
      BY <1>6
    <3> DEFINE g == IF t.sbuf # <<>> THEN t.sbuf ELSE sv.in
    <3>2. /\ Head(g) = Item(Server(c), t.tot + 1)
          /\ Flow(Server(c), t.tot + 1, Tail(g), IF t.sbuf = <<>> THEN <<>> ELSE sv.in, sv.sent)
      BY ONLY <1>4, <3>1, FlowTake
    <3> QED BY <3>2
  <2>2. ~ Ended(cl.out)
    BY <1>5, <1>6 DEF Drained
  <2>3. r.pc \in GivenPcs /\ r.pc # "send crlf"
    BY <1>6 DEF GivenPcs
  <2>4. Answers(c, r, cl, sv2, up)
    BY <1>5, <1>6, <2>1, <2>2, <2>3 DEF Answers
  <2> QED BY <1>1, <1>2, <1>3, <2>4 DEF Carries
<1>7. CASE /\ got = <<>> /\ sv.peer # "open" /\ r.sbuf = t.sbuf
           /\ r.pc \in {"send crlf", "finish", "abort"}
           /\ r.pc = "send crlf" => t.pc = "reply"
  <2>1. t.sbuf = <<>> /\ sv.in = <<>> /\ sv2.in = <<>>
    BY <1>7
  <2>2. Drained(r, sv2)
    BY <1>7, <2>1 DEF Drained, Later
  <2>3. r.pc \notin GivenPcs
    BY <1>7 DEF GivenPcs
  <2>4. Ended(cl.out) => r.pc \notin LoopPcs
    <3>1. CASE t.pc = "reply"
      BY <3>1 DEF Carries, Answers, LoopPcs
    <3>2. CASE t.pc = "content"
      BY <1>7, <3>2 DEF LoopPcs, AskingPcs, TakenPcs
    <3> QED BY <3>1, <3>2
  <2>5. Flow(Server(c), r.tot, r.sbuf, sv2.in, sv2.sent)
    BY <1>4, <1>7, <2>1
  <2>6. Answers(c, r, cl, sv2, up)
    BY <1>5, <2>2, <2>3, <2>4, <2>5 DEF Answers
  <2> QED BY <1>1, <1>2, <1>3, <2>6 DEF Carries
<1> QED BY <1>6, <1>7

(* ... a write to the server, ...                                          *)
LEMMA WriteToServer ==
    ASSUME NEW c \in Conn, NEW t \in Threads, NEW cl \in Streams, NEW sv \in Streams,
           NEW up \in BOOLEAN, Carries(c, t, cl, sv, up),
           NEW r \in Threads, NEW sv2 \in Streams,
           t.pc \in {"send request", "send header", "send body"},
           sv2.out = Append(sv.out, t.line), sv2.in = sv.in, sv2.sent = sv.sent,
           r.cbuf = t.cbuf, r.sbuf = t.sbuf, r.tot = t.tot,
           r.pc \in {"header", "body", "reply"}
    PROVE  Carries(c, r, cl, sv2, up)
<1>1. /\ t.pc \in TakenPcs /\ t.pc \in LoopPcs /\ t.pc \in RelayPcs \ GivenPcs /\ t.pc # "none"
      /\ t.pc \in CountedPcs
  BY DEF TakenPcs, LoopPcs, RelayPcs, GivenPcs, AskingPcs, CountedPcs
<1>2. r.pc \notin TakenPcs /\ r.pc \notin GivenPcs /\ r.pc # "send crlf" /\ r.pc # "none"
  BY DEF TakenPcs, GivenPcs
<1>3. Answers(c, r, cl, sv2, up)
  BY <1>1, <1>2 DEF Carries, Answers
<1>4. Asks(c, r, cl, sv2)
  <2> SUFFICES ASSUME cl.peer \in {"none", "open"}
               PROVE  /\ Len(sv2.out) <= cl.sent
                      /\ \A k \in 1 .. Len(sv2.out) : sv2.out[k] = Item(Client(c), k)
                      /\ Flow(Client(c), Len(sv2.out), r.cbuf, cl.in, cl.sent)
    BY <1>2 DEF Asks
  <2>1. /\ Len(sv.out) <= cl.sent
        /\ \A k \in 1 .. Len(sv.out) : sv.out[k] = Item(Client(c), k)
        /\ t.line = Item(Client(c), Len(sv.out) + 1)
        /\ Flow(Client(c), Len(sv.out) + 1, t.cbuf, cl.in, cl.sent)
    BY <1>1 DEF Carries, Asks
  <2>2. sv.out \in Seq(Items) /\ cl.in \in Seq(Items) /\ cl.sent \in Nat /\ Len(sv.out) + 1 \in Nat
    <3>1. sv \in Streams /\ cl \in Streams
      OBVIOUS
    <3>2. Len(sv.out) \in Nat
      BY ONLY <3>1, StreamTypes
    <3> QED BY ONLY <3>1, <3>2, StreamTypes
  <2>3. t.line \in Items /\ t.cbuf \in Seq(Items)
    BY ThreadTypes
  <2>4. Len(sv.out) + 1 <= cl.sent
    BY ONLY <2>1, <2>2, <2>3, FlowBounded
  <2>5. /\ Len(sv2.out) = Len(sv.out) + 1
        /\ \A k \in 1 .. Len(sv2.out) : sv2.out[k] = Item(Client(c), k)
    <3>1. sv2.out = Append(sv.out, t.line)
      OBVIOUS
    <3>2. /\ Len(Append(sv.out, t.line)) = Len(sv.out) + 1
          /\ \A k \in 1 .. Len(Append(sv.out, t.line)) :
                Append(sv.out, t.line)[k] = Item(Client(c), k)
      BY ONLY <2>1, <2>2, <2>3, RunGrows
    <3> QED BY ONLY <3>1, <3>2
  <2> QED BY <2>1, <2>4, <2>5
<1>5. cl.peer # "none"
  BY <1>1 DEF Carries
<1> QED BY <1>3, <1>4, <1>5 DEF Carries

(* ... and one to the client: of an item of the reply, ...                 *)
LEMMA WriteToClient ==
    ASSUME NEW c \in Conn, NEW t \in Threads, NEW cl \in Streams, NEW sv \in Streams,
           Carries(c, t, cl, sv, TRUE),
           NEW r \in Threads, NEW cl2 \in Streams,
           t.pc \in GivenPcs,
           cl2.out = Append(cl.out, t.line), cl2.sent = cl.sent, cl2.in = cl.in,
           cl2.peer # "none", cl2.peer = "open" => cl.peer = "open",
           r.sbuf = t.sbuf, r.tot = t.tot + 1,
           r.pc \in {"reply", "content", "finish"}
    PROVE  Carries(c, r, cl2, sv, TRUE)
<1>1. t.pc \in LoopPcs /\ t.pc # "none" /\ t.pc \in CountedPcs
  BY DEF LoopPcs, GivenPcs, AskingPcs, RelayPcs, CountedPcs
<1>2. r.pc \notin AskingPcs /\ r.pc \notin TakenPcs /\ r.pc \notin GivenPcs /\ r.pc # "send crlf"
  BY DEF AskingPcs, TakenPcs, GivenPcs
<1>3. Asks(c, r, cl2, sv)
  BY <1>2 DEF Carries, Asks
<1>4. /\ t.line = Item(Server(c), t.tot + 1)
      /\ Flow(Server(c), t.tot + 1, t.sbuf, sv.in, sv.sent)
      /\ t.tot = Real(cl.out) /\ ~ Ended(cl.out)
      /\ \A k \in 1 .. Real(cl.out) : cl.out[k] = Item(Server(c), k)
  BY <1>1 DEF Carries, Answers
<1>5. /\ cl.out \in Seq(Items) /\ t.line \in Items /\ t.tot \in Nat
      /\ Len(t.sbuf) \in Nat /\ Len(sv.in) \in Nat /\ sv.sent \in Nat
  BY StreamTypes, ThreadTypes
<1>6. t.line # NoItem
  <2>1. Server(c) \in Sock
    BY DEF Server, Sock
  <2> QED BY <1>4, <2>1, NoItemIsNone
<1>7. /\ Real(cl.out) = Len(cl.out) /\ ~ Ended(cl2.out) /\ Real(cl2.out) = Len(cl.out) + 1
      /\ Len(cl.out) \in Nat
      /\ \A k \in 1 .. Len(cl.out) : cl2.out[k] = cl.out[k]
      /\ cl2.out[Len(cl.out) + 1] = t.line
  BY <1>4, <1>5, <1>6, RealGrows
<1>8. Real(cl2.out) <= sv.sent /\ r.tot = Real(cl2.out)
  <2>1. t.tot + 1 \in Nat /\ t.sbuf \in Seq(Items) /\ sv.in \in Seq(Items)
    BY <1>5, StreamTypes, ThreadTypes
  <2>2. t.tot + 1 <= sv.sent
    BY ONLY <1>4, <1>5, <2>1, FlowBounded
  <2> QED BY <1>4, <1>7, <2>2
<1>9. \A k \in 1 .. Real(cl2.out) : cl2.out[k] = Item(Server(c), k)
  <2> TAKE k \in 1 .. Real(cl2.out)
  <2>1. k \in 1 .. Len(cl.out) \/ k = Len(cl.out) + 1
    BY <1>7
  <2> QED BY <1>4, <1>7, <2>1
<1>10. Answers(c, r, cl2, sv, TRUE)
  BY <1>2, <1>4, <1>7, <1>8, <1>9 DEF Answers
<1> QED BY <1>3, <1>10 DEF Carries

(* ... or of the "\r\n" when the server has stopped.                       *)
LEMMA WriteCrlf ==
    ASSUME NEW c \in Conn, NEW t \in Threads, NEW cl \in Streams, NEW sv \in Streams,
           Carries(c, t, cl, sv, TRUE),
           NEW r \in Threads, NEW cl2 \in Streams,
           t.pc = "send crlf",
           cl2.out = Append(cl.out, NoItem), cl2.sent = cl.sent, cl2.in = cl.in,
           cl2.peer # "none", cl2.peer = "open" => cl.peer = "open",
           r.sbuf = t.sbuf, r.tot = t.tot,
           r.pc \in {"content", "finish"}
    PROVE  Carries(c, r, cl2, sv, TRUE)
<1>1. t.pc \in LoopPcs /\ t.pc \in RelayPcs \ GivenPcs /\ t.pc \in CountedPcs
  BY DEF LoopPcs, RelayPcs, GivenPcs, CountedPcs
<1>2. /\ r.pc \notin AskingPcs /\ r.pc \notin TakenPcs /\ r.pc \notin GivenPcs
      /\ r.pc \notin LoopPcs /\ r.pc # "send crlf"
  BY DEF AskingPcs, TakenPcs, GivenPcs, LoopPcs
<1>3. Asks(c, r, cl2, sv)
  BY <1>2 DEF Carries, Asks
<1>4. /\ Flow(Server(c), t.tot, t.sbuf, sv.in, sv.sent) /\ Drained(t, sv)
      /\ t.tot = Real(cl.out) /\ ~ Ended(cl.out) /\ Real(cl.out) <= sv.sent
      /\ \A k \in 1 .. Real(cl.out) : cl.out[k] = Item(Server(c), k)
  BY <1>1 DEF Carries, Answers
<1>5. cl.out \in Seq(Items) /\ NoItem \in Items
  <2>1. NoItem \in Items
    BY DEF NoItem, Item, Items
  <2> QED BY <2>1, StreamTypes
<1>6. /\ Real(cl.out) = Len(cl.out) /\ Ended(cl2.out) /\ Real(cl2.out) = Len(cl.out)
      /\ \A k \in 1 .. Len(cl.out) : cl2.out[k] = cl.out[k]
  <2>1. /\ Real(cl.out) = Len(cl.out)
        /\ Ended(Append(cl.out, NoItem)) /\ Real(Append(cl.out, NoItem)) = Len(cl.out)
        /\ \A k \in 1 .. Len(cl.out) : Append(cl.out, NoItem)[k] = cl.out[k]
    BY ONLY <1>4, <1>5, RealGrows
  <2>2. cl2.out = Append(cl.out, NoItem)
    OBVIOUS
  <2> QED BY ONLY <2>1, <2>2
<1>7. Drained(r, sv)
  BY <1>4 DEF Drained
<1>8. /\ Real(cl2.out) <= sv.sent /\ r.tot = Real(cl2.out)
      /\ \A k \in 1 .. Real(cl2.out) : cl2.out[k] = Item(Server(c), k)
  BY <1>4, <1>6
<1>9. Answers(c, r, cl2, sv, TRUE)
  BY <1>2, <1>4, <1>6, <1>7, <1>8 DEF Answers
<1> QED BY <1>3, <1>9 DEF Carries

(* The peers send their next item.                                         *)
LEMMA ClientSends ==
    ASSUME NEW c \in Conn, NEW t \in Threads, NEW cl \in Streams, NEW sv \in Streams,
           NEW up \in BOOLEAN, Carries(c, t, cl, sv, up), NEW cl2 \in Streams,
           cl.peer = "open", cl.sent < Len(Req[c]),
           cl2.out = cl.out, cl2.sent = cl.sent + 1, cl2.peer = cl.peer,
           cl2.in = Append(cl.in, Item(Client(c), cl.sent + 1))
    PROVE  Carries(c, t, cl2, sv, up)
<1>1. /\ cl.sent \in Nat /\ cl.in \in Seq(Items) /\ t.cbuf \in Seq(Items)
      /\ Len(sv.out) \in Nat /\ Client(c) \in Sock
  <2>1. Client(c) \in Sock
    BY DEF Client, Sock
  <2> QED BY <2>1, StreamTypes, ThreadTypes
<1>2. ASSUME NEW a \in Nat, Flow(Client(c), a, t.cbuf, cl.in, cl.sent)
      PROVE  Flow(Client(c), a, t.cbuf, cl2.in, cl2.sent)
  BY <1>1, <1>2, FlowArrives
<1>3. Asks(c, t, cl2, sv)
  <2>1. /\ Len(sv.out) <= cl.sent
        /\ \A k \in 1 .. Len(sv.out) : sv.out[k] = Item(Client(c), k)
        /\ t.pc \in TakenPcs => /\ t.line = Item(Client(c), Len(sv.out) + 1)
                                /\ Flow(Client(c), Len(sv.out) + 1, t.cbuf, cl.in, cl.sent)
        /\ t.pc \in AskingPcs \ TakenPcs =>
                                Flow(Client(c), Len(sv.out), t.cbuf, cl.in, cl.sent)
    BY DEF Carries, Asks
  <2>2. Len(sv.out) <= cl2.sent /\ Len(sv.out) + 1 \in Nat
    BY <1>1, <2>1
  <2> QED BY <1>1, <1>2, <2>1, <2>2 DEF Asks
<1>4. Answers(c, t, cl2, sv, up)
  BY DEF Carries, Answers
<1>5. cl2.sent <= Len(Req[c])
  <2>1. Len(Req[c]) \in Nat
    BY ProxyAssumption
  <2> QED BY <1>1, <2>1
<1> QED BY <1>3, <1>4, <1>5 DEF Carries

LEMMA ServerSends ==
    ASSUME NEW c \in Conn, NEW t \in Threads, NEW cl \in Streams, NEW sv \in Streams,
           NEW up \in BOOLEAN, Carries(c, t, cl, sv, up), NEW sv2 \in Streams,
           sv.peer = "open", sv.sent < Len(Resp[c]),
           sv2.out = sv.out, sv2.sent = sv.sent + 1, sv2.peer = sv.peer,
           sv2.in = Append(sv.in, Item(Server(c), sv.sent + 1))
    PROVE  Carries(c, t, cl, sv2, up)
<1>1. /\ sv.sent \in Nat /\ sv.in \in Seq(Items) /\ t.sbuf \in Seq(Items)
      /\ t.tot \in Nat /\ cl.out \in Seq(Items) /\ Server(c) \in Sock
  <2>1. Server(c) \in Sock
    BY DEF Server, Sock
  <2> QED BY <2>1, StreamTypes, ThreadTypes
<1>2. ASSUME NEW a \in Nat, Flow(Server(c), a, t.sbuf, sv.in, sv.sent)
      PROVE  Flow(Server(c), a, t.sbuf, sv2.in, sv2.sent)
  BY <1>1, <1>2, FlowArrives
<1>3. ~ Drained(t, sv)
  BY DEF Drained
<1>4. Answers(c, t, cl, sv2, up)
  <2>1. /\ Real(cl.out) <= sv.sent
        /\ \A k \in 1 .. Real(cl.out) : cl.out[k] = Item(Server(c), k)
        /\ up /\ (cl.peer = "broken" => t.pc \in CountedPcs) => t.tot = Real(cl.out)
        /\ ~ Ended(cl.out) /\ t.pc # "send crlf"
        /\ t.pc \in GivenPcs => /\ t.line = Item(Server(c), t.tot + 1)
                                /\ Flow(Server(c), t.tot + 1, t.sbuf, sv.in, sv.sent)
        /\ t.pc \in RelayPcs \ GivenPcs => Flow(Server(c), t.tot, t.sbuf, sv.in, sv.sent)
    BY <1>3 DEF Carries, Answers
  <2>2. Real(cl.out) <= sv2.sent /\ t.tot + 1 \in Nat
    <3>1. Len(cl.out) \in Nat
      BY StreamTypes
    <3>2. Real(cl.out) = Len(cl.out)
      BY <2>1 DEF Real
    <3>3. sv2.sent = sv.sent + 1
      OBVIOUS
    <3>4. Real(cl.out) <= sv2.sent
      <4>1. Len(cl.out) <= sv.sent /\ sv.sent \in Nat
        BY ONLY <1>1, <2>1, <3>2
      <4>2. Len(cl.out) <= sv.sent + 1
        BY ONLY <3>1, <4>1
      <4> QED BY ONLY <3>2, <3>3, <4>2
    <3> QED BY <1>1, <3>4
  <2> QED BY <1>1, <1>2, <2>1, <2>2 DEF Answers
<1>5. Asks(c, t, cl, sv2)
  BY DEF Carries, Asks
<1>6. sv2.sent <= Len(Resp[c])
  <2>1. Len(Resp[c]) \in Nat
    BY ProxyAssumption
  <2> QED BY <1>1, <2>1
<1> QED BY <1>4, <1>5, <1>6 DEF Carries

-----------------------------------------------------------------------------
(* What a read and a write do when the descriptor is that of socket s.     *)

ReadsAs(c, buf, s, got, data, eof, error, r, st) ==
    /\ th' = [th EXCEPT ![c] = r] /\ sock' = [sock EXCEPT ![s] = st]
    /\ fds' = fds /\ log' = log /\ alive' = alive /\ clobbered' = clobbered
    /\ st.out = sock[s].out /\ st.sent = sock[s].sent /\ Later(sock[s].peer, st.peer)
    /\ st.in = IF th[c][buf] = <<>> THEN <<>> ELSE sock[s].in
    /\ r.cfd = th[c].cfd /\ r.sfd = th[c].sfd /\ r.tot = th[c].tot
    /\ buf = "cbuf" => r.sbuf = th[c].sbuf
    /\ \/ got # <<>> /\ r.pc = data /\ r.line = Head(got) /\ r[buf] = Tail(got)
       \/ /\ got = <<>> /\ sock[s].peer # "open" /\ r[buf] = th[c][buf]
          /\ r.pc \in {eof, error}

LEMMA OwnRead ==
    ASSUME TypeOK, NEW c \in Conn, NEW fd, NEW buf,
           \/ fd = "cfd" /\ buf = "cbuf"
           \/ fd = "sfd" /\ buf = "sbuf",
           NEW s \in Sock, th[c][fd] \in FD, fds[th[c][fd]] = s,
           NEW data \in Pcs, NEW eof \in Pcs, NEW error \in Pcs,
           Read(c, fd, buf, data, eof, error)
    PROVE  LET got == IF th[c][buf] # <<>> THEN th[c][buf] ELSE sock[s].in
           IN  \E r \in Threads, st \in Streams :
                 ReadsAs(c, buf, s, got, data, eof, error, r, st)
<1> DEFINE t == th[c]
           old == sock[s]
           got == IF t[buf] # <<>> THEN t[buf] ELSE old.in
           result == Result(t[fd], t[buf])
           pr == IF result = "error" THEN "broken" ELSE old.peer
           st == [old EXCEPT !.in = IF t[buf] = <<>> THEN <<>> ELSE old.in, !.peer = pr]
<1>1. t \in Threads /\ th \in [Conn -> Threads] /\ sock \in [Sock -> Streams] /\ old \in Streams
  BY DEF TypeOK
<1>2. s # None
  BY ProxyAssumption
<1>3. t[buf] \in Seq(Items) /\ old.in \in Seq(Items) /\ <<>> \in Seq(Items)
  BY <1>1 DEF Threads, Streams
<1>4. /\ Got(t[fd], t[buf]) = got
      /\ result = IF got # <<>> THEN "data" ELSE IF old.peer = "reset" THEN "error" ELSE "eof"
      /\ ~ (got = <<>> /\ old.peer = "open")
  BY <1>2 DEF Got, Arrived, Result, Peer, Read, Blocked
<1>5. fds' = fds /\ log' = log /\ alive' = alive /\ clobbered' = clobbered
  BY DEF Read
<1>6. /\ st \in Streams /\ st.out = old.out /\ st.sent = old.sent /\ Later(old.peer, st.peer)
      /\ st.in = IF t[buf] = <<>> THEN <<>> ELSE old.in
  <2>1. pr = old.peer \/ (pr = "broken" /\ old.peer = "reset")
    BY <1>4
  <2> HIDE DEF old, t, pr
  <2>2. (IF t[buf] = <<>> THEN <<>> ELSE old.in) \in Seq(Items)
    BY <1>3
  <2>3. /\ st \in Streams /\ st.out = old.out /\ st.sent = old.sent /\ st.peer = pr
        /\ st.in = IF t[buf] = <<>> THEN <<>> ELSE old.in
    BY <1>1, <2>1, <2>2 DEF Streams
  <2> QED BY <2>1, <2>3 DEF Later
<1>7. sock' = [sock EXCEPT ![s] = st]
  <2>1. Drain(t[fd], t[buf])
    BY DEF Read
  <2>2. CASE t[buf] = <<>>
    BY <1>1, <1>2, <2>1, <2>2 DEF Drain, Streams
  <2>3. CASE t[buf] # <<>>
    <3>1. sock' = sock
      BY <2>1, <2>3 DEF Drain
    <3>2. pr = old.peer
      BY <1>4, <2>3
    <3>3. st = old
      <4> HIDE DEF old, t, pr
      <4> QED BY <1>1, <2>3, <3>2 DEF Streams
    <3> HIDE DEF st
    <3> QED BY <1>1, <3>1, <3>3
  <2> QED BY <2>2, <2>3
<1>8. th' = [th EXCEPT ![c] =
               CASE result = "data" -> [t EXCEPT !.pc = data, !.line = Head(got),
                                                 ![buf] = Tail(got)]
                 [] result = "eof"   -> [t EXCEPT !.pc = eof]
                 [] result = "error" -> [t EXCEPT !.pc = error]]
  <2>1. th' = [th EXCEPT ![c] =
               CASE result = "data" -> [th[c] EXCEPT !.pc = data, !.line = Head(Got(t[fd], t[buf])),
                                                 ![buf] = Tail(Got(t[fd], t[buf]))]
                 [] result = "eof"   -> [th[c] EXCEPT !.pc = eof]
                 [] result = "error" -> [th[c] EXCEPT !.pc = error]]
    BY <1>1 DEF Read
  <2> QED BY <1>4, <2>1
<1> HIDE DEF st, pr, result
<1>9. \E r \in Threads :
        /\ th' = [th EXCEPT ![c] = r]
        /\ r.cfd = t.cfd /\ r.sfd = t.sfd /\ r.tot = t.tot
        /\ buf = "cbuf" => r.sbuf = t.sbuf
        /\ \/ got # <<>> /\ r.pc = data /\ r.line = Head(got) /\ r[buf] = Tail(got)
           \/ /\ got = <<>> /\ old.peer # "open" /\ r[buf] = t[buf]
              /\ r.pc \in {eof, error}
  <2>1. got \in Seq(Items)
    BY <1>3
  <2> HIDE DEF got, t, old
  <2>2. CASE got # <<>>
    <3> DEFINE r == [t EXCEPT !.pc = data, !.line = Head(got), ![buf] = Tail(got)]
    <3>1. Head(got) \in Items /\ Tail(got) \in Seq(Items)
      BY <2>1, <2>2
    <3>2. th' = [th EXCEPT ![c] = r]
      BY <1>4, <1>8, <2>2
    <3>3. CASE fd = "cfd" /\ buf = "cbuf"
      <4>1. /\ r \in Threads /\ r.cfd = t.cfd /\ r.sfd = t.sfd /\ r.tot = t.tot
            /\ r.sbuf = t.sbuf /\ r.pc = data /\ r.line = Head(got) /\ r[buf] = Tail(got)
        BY <1>1, <3>1, <3>3 DEF Threads
      <4> HIDE DEF r
      <4> QED BY <2>2, <3>2, <4>1
    <3>4. CASE fd = "sfd" /\ buf = "sbuf"
      <4>1. /\ r \in Threads /\ r.cfd = t.cfd /\ r.sfd = t.sfd /\ r.tot = t.tot
            /\ r.pc = data /\ r.line = Head(got) /\ r[buf] = Tail(got)
        BY <1>1, <3>1, <3>4 DEF Threads
      <4> HIDE DEF r
      <4> QED BY <2>2, <3>2, <3>4, <4>1
    <3> QED BY <3>3, <3>4
  <2>3. CASE got = <<>>
    <3>1. PICK pc \in {eof, error} : th' = [th EXCEPT ![c] = [t EXCEPT !.pc = pc]]
      BY <1>4, <1>8, <2>3
    <3> DEFINE r == [t EXCEPT !.pc = pc]
    <3>2. /\ r \in Threads /\ r.cfd = t.cfd /\ r.sfd = t.sfd /\ r.tot = t.tot
          /\ r.sbuf = t.sbuf /\ r.pc = pc /\ r[buf] = t[buf]
      BY <1>1, <3>1 DEF Threads
    <3> HIDE DEF r
    <3> QED BY <1>4, <2>3, <3>1, <3>2 DEF r
  <2> QED BY <2>2, <2>3
<1> HIDE DEF t, old, got
<1> QED BY <1>5, <1>6, <1>7, <1>9 DEF t, old, got, ReadsAs

SentAs(c, s, x, next, st) ==
    /\ alive' = TRUE /\ th' = [th EXCEPT ![c] = next] /\ sock' = [sock EXCEPT ![s] = st]
    /\ st.out = Append(sock[s].out, x) /\ st.in = sock[s].in /\ st.sent = sock[s].sent
    /\ Later(sock[s].peer, st.peer)
NotSent(c, s, next, checks, st) ==
    /\ alive' \in BOOLEAN /\ sock' = [sock EXCEPT ![s] = st]
    /\ st.in = sock[s].in /\ st.out = sock[s].out /\ st.sent = sock[s].sent
    /\ st.peer = "broken" /\ Later(sock[s].peer, st.peer)
    /\ th' = [th EXCEPT ![c] = IF checks THEN [th[c] EXCEPT !.pc = "abort"] ELSE next]
Sending(c, fd, x, next, checks) ==
    IF checks THEN Send(c, fd, x, next) ELSE SendUnchecked(c, fd, x, next)

LEMMA OwnSend ==
    ASSUME TypeOK, NEW c \in Conn, NEW fd, NEW s \in Sock,
           th[c][fd] \in FD, fds[th[c][fd]] = s,
           NEW x \in Items, NEW next \in Threads, NEW checks \in BOOLEAN,
           Sending(c, fd, x, next, checks)
    PROVE  /\ fds' = fds /\ log' = log /\ clobbered' = clobbered
           /\ \E st \in Streams : SentAs(c, s, x, next, st) \/ NotSent(c, s, next, checks, st)
<1> DEFINE old == sock[s]
<1>1. old \in Streams /\ sock \in [Sock -> Streams]
  BY DEF TypeOK
<1>2. s # None
  BY ProxyAssumption
<1>3. fds' = fds /\ log' = log /\ clobbered' = clobbered /\ Write(th[c][fd], x)
  BY DEF Send, SendUnchecked, Sending
<1>4. /\ CanWrite(th[c][fd]) <=> old.peer \notin {"reset", "broken"}
      /\ Kills(th[c][fd]) <=> old.peer = "broken"
  BY <1>2 DEF CanWrite, Kills, Peer
<1>5. CASE old.peer \notin {"reset", "broken"}
  <2>1. PICK pr : pr = IF old.peer = "closed" THEN "broken" ELSE old.peer
    OBVIOUS
  <2> DEFINE st == [old EXCEPT !.out = Append(old.out, x), !.peer = pr]
  <2>2. sock' = [sock EXCEPT ![s] = st]
    BY <1>1, <1>3, <1>4, <1>5, <2>1 DEF Write, Streams
  <2>3. Append(old.out, x) \in Seq(Items)
    BY <1>1 DEF Streams
  <2>4. /\ st \in Streams /\ st.out = Append(old.out, x) /\ st.in = old.in
        /\ st.sent = old.sent /\ st.peer = pr
    <3> HIDE DEF old
    <3> QED BY <1>1, <2>1, <2>3 DEF Streams
  <2>5. Later(old.peer, pr)
    BY <2>1 DEF Later
  <2>6. alive' = TRUE /\ th' = [th EXCEPT ![c] = next]
    BY <1>3, <1>4, <1>5 DEF Write, Send, SendUnchecked, Sending
  <2> HIDE DEF st
  <2> QED BY <1>3, <2>2, <2>4, <2>5, <2>6 DEF SentAs
<1>6. CASE old.peer \in {"reset", "broken"}
  <2> DEFINE st == [old EXCEPT !.peer = "broken"]
  <2>1. sock' = [sock EXCEPT ![s] = st] /\ alive' \in BOOLEAN
    BY <1>1, <1>2, <1>3, <1>4, <1>6 DEF Write
  <2>2. /\ st \in Streams /\ st.out = old.out /\ st.in = old.in
        /\ st.sent = old.sent /\ st.peer = "broken"
    <3> HIDE DEF old
    <3> QED BY <1>1 DEF Streams
  <2>3. Later(old.peer, "broken")
    BY <1>6 DEF Later
  <2>4. th' = [th EXCEPT ![c] = IF checks THEN [th[c] EXCEPT !.pc = "abort"] ELSE next]
    BY <1>4, <1>6 DEF Send, SendUnchecked, Sending
  <2> HIDE DEF st
  <2> QED BY <1>3, <2>1, <2>2, <2>3, <2>4 DEF NotSent
<1> QED BY <1>5, <1>6

-----------------------------------------------------------------------------
(* A step of one connection leaves the others alone. *)

LEMMA SocketNames ==
    ASSUME NEW c \in Conn, NEW d \in Conn
    PROVE  /\ Client(c) \in Sock /\ Server(c) \in Sock
           /\ Client(c) # Server(d) /\ Server(c) # Client(d)
           /\ Client(c) = Client(d) => c = d
           /\ Server(c) = Server(d) => c = d
BY DEF Client, Server, Sock

LEMMA DeadCarries ==
    ASSUME NEW c, NEW t, NEW cl, NEW sv, NEW up, NEW up2,
           Carries(c, t, cl, sv, up), up2 => up
    PROVE  Carries(c, t, cl, sv, up2)
BY DEF Carries, Answers

LEMMA OthersCarry ==
    ASSUME TypeOK, CarryInv, ~ clobbered, NEW c \in Conn, NEW r \in Threads,
           alive' => alive, th' = [th EXCEPT ![c] = r],
           \A d \in Conn \ {c} : /\ sock'[Client(d)] = sock[Client(d)]
                                 /\ sock'[Server(d)] = sock[Server(d)],
           Carries(c, r, sock'[Client(c)], sock'[Server(c)], alive')
    PROVE  (\A d \in Conn : Carries(d, th[d], sock[Client(d)], sock[Server(d)], alive))'
<1>1. th'[c] = r /\ \A d \in Conn \ {c} : th'[d] = th[d]
  BY DEF TypeOK
<1>2. \A d \in Conn : Carries(d, th[d], sock[Client(d)], sock[Server(d)], alive)
  BY DEF CarryInv
<1>3. \A d \in Conn : Carries(d, th'[d], sock'[Client(d)], sock'[Server(d)], alive')
  <2> TAKE d \in Conn
  <2>1. CASE d = c
    BY <1>1, <2>1
  <2>2. CASE d # c
    <3>1. Carries(d, th[d], sock[Client(d)], sock[Server(d)], alive')
      BY <1>2, DeadCarries
    <3> QED BY <1>1, <2>2, <3>1
  <2> QED BY <2>1, <2>2
<1> QED BY <1>3 DEF Client, Server

LEMMA LogKept ==
    ASSUME TypeOK, CarryInv, ~ clobbered, NEW c \in Conn, NEW r \in Threads,
           th' = [th EXCEPT ![c] = r],
           \A d \in Conn \ {c} : sock'[Client(d)] = sock[Client(d)],
           th[c].pc \in LoggedPcs => /\ r.pc \in LoggedPcs
                                     /\ sock'[Client(c)].out = sock[Client(c)].out,
           NEW i \in DOMAIN log
    PROVE  /\ log[i] \in [conn : Conn, size : Nat]
           /\ th'[log[i].conn].pc \in LoggedPcs
           /\ log[i].size = Real(sock'[Client(log[i].conn)].out)
<1>1. th'[c] = r /\ \A d \in Conn \ {c} : th'[d] = th[d]
  BY DEF TypeOK
<1>2. th[log[i].conn].pc \in LoggedPcs /\ log[i].size = Real(sock[Client(log[i].conn)].out)
  BY DEF CarryInv
<1>3. log[i] \in [conn : Conn, size : Nat]
  <2>1. log \in Seq([conn : Conn, size : Nat])
    BY DEF TypeOK
  <2> QED BY ONLY <2>1, i \in DOMAIN log, SeqElement
<1>4. log[i].conn \in Conn
  BY ONLY <1>3
<1>5. CASE log[i].conn = c
  BY <1>1, <1>2, <1>3, <1>5
<1>6. CASE log[i].conn # c
  BY <1>1, <1>2, <1>3, <1>4, <1>6
<1> QED BY <1>5, <1>6

LEMMA DescStep ==
    ASSUME TypeOK, CarryInv, ~ clobbered, NEW c \in Conn, NEW r \in Threads,
           log' = log, alive' => alive, th' = [th EXCEPT ![c] = r],
           \A d \in Conn \ {c} : /\ sock'[Client(d)] = sock[Client(d)]
                                 /\ sock'[Server(d)] = sock[Server(d)],
           th[c].pc \in LoggedPcs => /\ r.pc \in LoggedPcs
                                     /\ sock'[Client(c)].out = sock[Client(c)].out,
           Carries(c, r, sock'[Client(c)], sock'[Server(c)], alive'),
           ~ clobbered' => \A d \in Conn : Owns(d)'
    PROVE  CarryInv'
<1>1. (\A d \in Conn : Carries(d, th[d], sock[Client(d)], sock[Server(d)], alive))'
  BY OthersCarry
<1>2. \A i \in DOMAIN log' : /\ th'[log'[i].conn].pc \in LoggedPcs
                             /\ log'[i].size = Real(sock'[Client(log'[i].conn)].out)
  BY LogKept
<1> QED BY <1>1, <1>2 DEF CarryInv, Client

LEMMA ConnStep ==
    ASSUME TypeOK, CarryInv, ~ clobbered, NEW c \in Conn, NEW r \in Threads,
           fds' = fds, log' = log, alive' => alive, th' = [th EXCEPT ![c] = r],
           \A d \in Conn \ {c} : /\ sock'[Client(d)] = sock[Client(d)]
                                 /\ sock'[Server(d)] = sock[Server(d)],
           r.cfd = th[c].cfd, r.sfd = th[c].sfd,
           r.pc \in ServerPcs => th[c].pc \in ServerPcs,
           r.pc \in ClientPcs \ {"failed"} => th[c].pc \in ClientPcs \ {"failed"},
           th[c].pc \in LoggedPcs => /\ r.pc \in LoggedPcs
                                     /\ sock'[Client(c)].out = sock[Client(c)].out,
           Carries(c, r, sock'[Client(c)], sock'[Server(c)], alive')
    PROVE  CarryInv'
<1>1. th'[c] = r /\ \A d \in Conn \ {c} : th'[d] = th[d]
  BY DEF TypeOK
<1>2. \A d \in Conn : Owns(d)
  BY DEF CarryInv
<1>3. \A d \in Conn : Owns(d)'
  <2> TAKE d \in Conn
  <2>1. CASE d = c
    BY <1>1, <1>2, <2>1 DEF Owns
  <2>2. CASE d # c
    BY <1>1, <1>2, <2>2 DEF Owns
  <2> QED BY <2>1, <2>2
<1> QED BY <1>3, DescStep

LEMMA ClientStep ==
    ASSUME TypeOK, NEW c \in Conn, NEW st, sock' = [sock EXCEPT ![Client(c)] = st]
    PROVE  /\ sock'[Client(c)] = st /\ sock'[Server(c)] = sock[Server(c)]
           /\ \A d \in Conn \ {c} : /\ sock'[Client(d)] = sock[Client(d)]
                                    /\ sock'[Server(d)] = sock[Server(d)]
BY SocketNames DEF TypeOK

LEMMA ServerStep ==
    ASSUME TypeOK, NEW c \in Conn, NEW st, sock' = [sock EXCEPT ![Server(c)] = st]
    PROVE  /\ sock'[Server(c)] = st /\ sock'[Client(c)] = sock[Client(c)]
           /\ \A d \in Conn \ {c} : /\ sock'[Client(d)] = sock[Client(d)]
                                    /\ sock'[Server(d)] = sock[Server(d)]
BY SocketNames DEF TypeOK

LEMMA CarryFacts ==
    ASSUME ProxyInv, CarryInv, ~ clobbered, NEW c \in Conn
    PROVE  /\ TypeOK /\ th[c] \in Threads /\ th \in [Conn -> Threads]
           /\ sock[Client(c)] \in Streams /\ sock[Server(c)] \in Streams
           /\ sock \in [Sock -> Streams] /\ alive \in BOOLEAN
           /\ Client(c) \in Sock /\ Server(c) \in Sock
           /\ Carries(c, th[c], sock[Client(c)], sock[Server(c)], alive)
           /\ th[c].pc \in ClientPcs \ {"failed"} => th[c].cfd \in FD /\ fds[th[c].cfd] = Client(c)
           /\ th[c].pc \in ServerPcs => th[c].sfd \in FD /\ fds[th[c].sfd] = Server(c)
<1>1. TypeOK /\ HeldInv /\ Owns(c)
      /\ Carries(c, th[c], sock[Client(c)], sock[Server(c)], alive)
  BY DEF ProxyInv, CarryInv
<1>2. Client(c) \in Sock /\ Server(c) \in Sock
  BY SocketNames
<1>3. "none" \notin ClientPcs
  BY DEF ClientPcs, ServerPcs
<1> HIDE DEF ClientPcs, ServerPcs
<1> QED BY <1>1, <1>2, <1>3 DEF TypeOK, HeldInv, Owns

-----------------------------------------------------------------------------
(* The reads of a thread. *)

LEMMA ClientReads ==
    ASSUME ProxyInv, CarryInv, ~ clobbered, NEW c \in Conn,
           GetRequest(c) \/ ReadHeader(c) \/ ReadBody(c)
    PROVE  CarryInv'
<1> DEFINE t == th[c]
           cl == sock[Client(c)]
           sv == sock[Server(c)]
           got == IF t.cbuf # <<>> THEN t.cbuf ELSE cl.in
<1>1. PICK data, eof, error :
        /\ Read(c, "cfd", "cbuf", data, eof, error)
        /\ t.pc \in {"request", "header", "body"}
        /\ data \in {"connect", "send header", "send body"}
        /\ {eof, error} \subseteq {"close", "send header", "reply", "abort"}
        /\ t.pc = "request" => data = "connect" /\ eof = "close" /\ error = "close"
  BY DEF GetRequest, ReadHeader, ReadBody, At
<1>2. data \in Pcs /\ eof \in Pcs /\ error \in Pcs
  BY <1>1 DEF Pcs
<1>3. /\ TypeOK /\ t \in Threads /\ cl \in Streams /\ sv \in Streams /\ alive \in BOOLEAN
      /\ Client(c) \in Sock /\ Carries(c, t, cl, sv, alive)
  BY CarryFacts
<1>4. t.pc \in ClientPcs \ {"failed"} /\ (t.pc # "request" => t.pc \in ServerPcs) /\ t.pc \notin LoggedPcs
  BY <1>1 DEF ClientPcs, ServerPcs, LoggedPcs
<1>5. t.cfd \in FD /\ fds[t.cfd] = Client(c)
  BY <1>4, CarryFacts
<1>6. PICK r \in Threads, st \in Streams :
        ReadsAs(c, "cbuf", Client(c), got, data, eof, error, r, st)
  <2>1. Read(c, "cfd", "cbuf", data, eof, error) /\ th[c]["cfd"] \in FD /\ fds[th[c]["cfd"]] = Client(c)
    BY <1>1, <1>5
  <2> QED BY ONLY <1>2, <1>3, <2>1, c \in Conn, OwnRead
<1>7. /\ th' = [th EXCEPT ![c] = r] /\ sock' = [sock EXCEPT ![Client(c)] = st]
      /\ fds' = fds /\ log' = log /\ alive' = alive
      /\ st.out = cl.out /\ st.sent = cl.sent /\ Later(cl.peer, st.peer)
      /\ st.in = IF t.cbuf = <<>> THEN <<>> ELSE cl.in
      /\ r.cfd = t.cfd /\ r.sfd = t.sfd /\ r.tot = t.tot /\ r.sbuf = t.sbuf
      /\ \/ got # <<>> /\ r.pc = data /\ r.line = Head(got) /\ r.cbuf = Tail(got)
         \/ got = <<>> /\ cl.peer # "open" /\ r.cbuf = t.cbuf /\ r.pc \in {eof, error}
  BY ONLY <1>6 DEF ReadsAs
<1>9. /\ sock'[Client(c)] = st /\ sock'[Server(c)] = sv
      /\ \A d \in Conn \ {c} : /\ sock'[Client(d)] = sock[Client(d)]
                               /\ sock'[Server(d)] = sock[Server(d)]
  BY ONLY <1>3, <1>7, c \in Conn, ClientStep
<1> HIDE DEF t, cl, sv
<1>10. \/ /\ got # <<>> /\ r.line = Head(got) /\ r.cbuf = Tail(got)
          /\ r.pc \in {"connect", "send header", "send body"}
       \/ cl.peer # "open" /\ r.pc \in {"close", "send header", "reply", "abort"}
  BY ONLY <1>1, <1>7
<1>11. Carries(c, r, st, sv, alive)
  <2>1. /\ t.pc \in {"request", "header", "body"}
        /\ st.in = IF t.cbuf = <<>> THEN <<>> ELSE cl.in
    BY ONLY <1>1, <1>7
  <2>2. got = IF t.cbuf # <<>> THEN t.cbuf ELSE cl.in
    BY DEF got
  <2> HIDE DEF got
  <2> QED
    BY ONLY <1>3, <1>7, <1>10, <2>1, <2>2, c \in Conn, r \in Threads, st \in Streams, ReadFromClient
<1>12. /\ r.pc \in ServerPcs => t.pc \in ServerPcs
       /\ r.pc \in ClientPcs \ {"failed"} => t.pc \in ClientPcs \ {"failed"}
  <2>1. t.pc = "request" => r.pc \notin ServerPcs
    BY ONLY <1>1, <1>7 DEF ServerPcs
  <2> QED BY ONLY <1>4, <2>1
<1> HIDE DEF got
<1> QED BY <1>3, <1>4, <1>7, <1>9, <1>11, <1>12, ConnStep DEF t

LEMMA ServerReads ==
    ASSUME ProxyInv, CarryInv, ~ clobbered, NEW c \in Conn,
           ReadReply(c) \/ ReadContent(c)
    PROVE  CarryInv'
<1> DEFINE t == th[c]
           cl == sock[Client(c)]
           sv == sock[Server(c)]
           got == IF t.sbuf # <<>> THEN t.sbuf ELSE sv.in
<1>1. PICK data, eof, error :
        /\ Read(c, "sfd", "sbuf", data, eof, error)
        /\ t.pc \in {"reply", "content"}
        /\ data \in {"send reply", "send content"}
        /\ eof \in {"send crlf", "finish", "abort"} /\ error \in {"finish", "abort"}
        /\ t.pc = "content" => eof # "send crlf" /\ error # "send crlf"
  <2>1. CASE ReadReply(c)
    <3>1. Read(c, "sfd", "sbuf", "send reply", "send crlf", "abort") /\ t.pc = "reply"
      BY <2>1 DEF ReadReply, At
    <3> HIDE DEF t
    <3> WITNESS "send reply", "send crlf", "abort"
    <3> QED BY ONLY <3>1
  <2>2. CASE ReadContent(c)
    <3>1. Read(c, "sfd", "sbuf", "send content", "finish", "abort") /\ t.pc = "content"
      BY <2>2 DEF ReadContent, At
    <3> HIDE DEF t
    <3> WITNESS "send content", "finish", "abort"
    <3> QED BY ONLY <3>1
  <2> QED BY <2>1, <2>2
<1>2. data \in Pcs /\ eof \in Pcs /\ error \in Pcs
  BY <1>1 DEF Pcs
<1>3. /\ TypeOK /\ t \in Threads /\ cl \in Streams /\ sv \in Streams /\ alive \in BOOLEAN
      /\ Server(c) \in Sock /\ Carries(c, t, cl, sv, alive)
  BY CarryFacts
<1>4. t.pc \in ClientPcs \ {"failed"} /\ t.pc \in ServerPcs /\ t.pc \notin LoggedPcs
  BY <1>1 DEF ClientPcs, ServerPcs, LoggedPcs
<1>5. t.sfd \in FD /\ fds[t.sfd] = Server(c)
  BY <1>4, CarryFacts
<1>6. PICK r \in Threads, st \in Streams :
        ReadsAs(c, "sbuf", Server(c), got, data, eof, error, r, st)
  <2>1. Read(c, "sfd", "sbuf", data, eof, error) /\ th[c]["sfd"] \in FD /\ fds[th[c]["sfd"]] = Server(c)
    BY <1>1, <1>5
  <2> QED BY ONLY <1>2, <1>3, <2>1, c \in Conn, OwnRead
<1>7. /\ th' = [th EXCEPT ![c] = r] /\ sock' = [sock EXCEPT ![Server(c)] = st]
      /\ fds' = fds /\ log' = log /\ alive' = alive
      /\ st.out = sv.out /\ st.sent = sv.sent /\ Later(sv.peer, st.peer)
      /\ st.in = IF t.sbuf = <<>> THEN <<>> ELSE sv.in
      /\ r.cfd = t.cfd /\ r.sfd = t.sfd /\ r.tot = t.tot
      /\ \/ got # <<>> /\ r.pc = data /\ r.line = Head(got) /\ r.sbuf = Tail(got)
         \/ got = <<>> /\ sv.peer # "open" /\ r.sbuf = t.sbuf /\ r.pc \in {eof, error}
  BY ONLY <1>6 DEF ReadsAs
<1>9. /\ sock'[Server(c)] = st /\ sock'[Client(c)] = cl
      /\ \A d \in Conn \ {c} : /\ sock'[Client(d)] = sock[Client(d)]
                               /\ sock'[Server(d)] = sock[Server(d)]
  BY ONLY <1>3, <1>7, c \in Conn, ServerStep
<1> HIDE DEF t, cl, sv
<1>10. \/ /\ got # <<>> /\ r.line = Head(got) /\ r.sbuf = Tail(got)
          /\ r.pc \in {"send reply", "send content"}
       \/ /\ got = <<>> /\ sv.peer # "open" /\ r.sbuf = t.sbuf
          /\ r.pc \in {"send crlf", "finish", "abort"}
          /\ r.pc = "send crlf" => t.pc = "reply"
  BY ONLY <1>1, <1>7
<1>11. Carries(c, r, cl, st, alive)
  BY ONLY <1>1, <1>3, <1>7, <1>10, c \in Conn, r \in Threads, st \in Streams, ReadFromServer DEF got
<1> HIDE DEF got
<1> QED BY <1>3, <1>4, <1>7, <1>9, <1>11, ConnStep DEF t

-----------------------------------------------------------------------------
(* What a thread writes. *)

LEMMA HeaderKeeps ==
    ASSUME NEW t \in Threads, NEW len, len = "reqLen" \/ len = "resLen",
           NEW pAgain, NEW pBody, NEW pEnd, NEW r,
           r = AfterHeader(t, len, pAgain, pBody, pEnd)
    PROVE  r.cbuf = t.cbuf /\ r.sbuf = t.sbuf /\ r.tot = t.tot /\ r.line = t.line
<1>1. PICK n, pc : r = [t EXCEPT ![len] = n, !.pc = pc]
  BY DEF AfterHeader
<1>2. CASE len = "reqLen"
  BY <1>1, <1>2 DEF Threads
<1>3. CASE len = "resLen"
  BY <1>1, <1>3 DEF Threads
<1> QED BY <1>2, <1>3

LEMMA AbortType ==
    ASSUME NEW t \in Threads, NEW r, r = [t EXCEPT !.pc = "abort"]
    PROVE  /\ r \in Threads /\ r.pc = "abort" /\ r.cfd = t.cfd /\ r.sfd = t.sfd
           /\ r.cbuf = t.cbuf /\ r.sbuf = t.sbuf /\ r.tot = t.tot /\ r.line = t.line
BY DEF Threads, Pcs

(* A write that fails, whether or not it ends the process.                 *)
LEMMA FailedWrite ==
    ASSUME ProxyInv, CarryInv, ~ clobbered, alive, NEW c \in Conn, NEW r \in Threads,
           NEW s, s = Client(c) \/ (s = Server(c) /\ r.tot = th[c].tot),
           NEW st \in Streams, sock' = [sock EXCEPT ![s] = st],
           st.in = sock[s].in, st.out = sock[s].out, st.sent = sock[s].sent,
           st.peer = "broken", Later(sock[s].peer, st.peer),
           fds' = fds, log' = log, alive' \in BOOLEAN, th' = [th EXCEPT ![c] = r],
           th[c].pc \in {"send request", "send header", "send body", "send crlf",
                        "send reply", "send content"},
           r.cbuf = th[c].cbuf, r.sbuf = th[c].sbuf, r.line = th[c].line,
           r.cfd = th[c].cfd, r.sfd = th[c].sfd,
           \/ r.pc \in {"abort", "finish"}
           \/ /\ r.pc \in {"reply", "content"} /\ r.tot = th[c].tot
              /\ th[c].pc \in {"send body", "send crlf"}
              /\ r.pc = "reply" => th[c].pc = "send body"
    PROVE  CarryInv'
<1> DEFINE t == th[c]
           cl == sock[Client(c)]
           sv == sock[Server(c)]
<1>1. /\ TypeOK /\ t \in Threads /\ cl \in Streams /\ sv \in Streams
      /\ Carries(c, t, cl, sv, TRUE)
  <2>1. alive = TRUE
    BY CarryFacts
  <2> QED BY <2>1, CarryFacts
<1>2. /\ t.pc \in ClientPcs \ {"failed"} /\ t.pc \in ServerPcs /\ t.pc \notin LoggedPcs
      /\ t.pc \in LoopPcs /\ t.pc \in CountedPcs /\ t.pc # "none"
  BY DEF ClientPcs, ServerPcs, LoggedPcs, CountedPcs, RelayPcs, LoopPcs, AskingPcs, TakenPcs
<1>3. cl.peer # "none"
  <2> HIDE DEF t, cl, sv
  <2> QED BY ONLY <1>1, <1>2 DEF Carries
<1>4. /\ r.pc \notin AskingPcs /\ r.pc \notin TakenPcs /\ r.pc \notin GivenPcs /\ r.pc # "send crlf"
      /\ r.pc \in RelayPcs => t.pc \in RelayPcs \ GivenPcs /\ r.tot = t.tot
      /\ r.pc \notin RelayPcs => r.pc \notin CountedPcs
      /\ r.pc # "none"
  BY DEF AskingPcs, TakenPcs, GivenPcs, RelayPcs, LoopPcs, CountedPcs
<1>5. PICK cl2 \in Streams, sv2 \in Streams :
      /\ cl2 = sock'[Client(c)] /\ sv2 = sock'[Server(c)]
      /\ cl2.in = cl.in /\ cl2.out = cl.out /\ cl2.sent = cl.sent
      /\ sv2.in = sv.in /\ sv2.out = sv.out /\ sv2.sent = sv.sent
      /\ cl2.peer = cl.peer \/ (cl2.peer = "broken" /\ cl.peer # "none")
      /\ sv2.peer = sv.peer \/ sv2.peer = "broken"
      /\ r.tot = t.tot \/ cl2.peer = "broken"
      /\ \A d \in Conn \ {c} : /\ sock'[Client(d)] = sock[Client(d)]
                               /\ sock'[Server(d)] = sock[Server(d)]
  <2>1. CASE s = Client(c)
    <3>1. /\ sock'[Client(c)] = st /\ sock'[Server(c)] = sv
          /\ \A d \in Conn \ {c} : /\ sock'[Client(d)] = sock[Client(d)]
                                   /\ sock'[Server(d)] = sock[Server(d)]
      BY <1>1, <2>1, ClientStep
    <3> QED BY <1>1, <1>3, <2>1, <3>1
  <2>2. CASE s = Server(c) /\ r.tot = th[c].tot
    <3>1. /\ sock'[Server(c)] = st /\ sock'[Client(c)] = cl
          /\ \A d \in Conn \ {c} : /\ sock'[Client(d)] = sock[Client(d)]
                                   /\ sock'[Server(d)] = sock[Server(d)]
      BY <1>1, <2>2, ServerStep
    <3> QED BY <1>1, <2>2, <3>1
  <2> QED BY <2>1, <2>2
<1>6. cl2.peer \in {"none", "open"} => cl.peer \in {"none", "open"}
  BY ONLY <1>5
<1>7. r.cbuf = t.cbuf /\ r.sbuf = t.sbuf /\ r.line = t.line
  OBVIOUS
<1>8. Carries(c, r, cl2, sv2, TRUE)
  <2> HIDE DEF t, cl, sv, AskingPcs, TakenPcs, GivenPcs, RelayPcs, LoopPcs, CountedPcs
  <2>1. \/ r.tot = t.tot
        \/ r.pc \notin RelayPcs /\ r.pc \notin CountedPcs /\ cl2.peer = "broken"
    BY ONLY <1>4, <1>5
  <2>2. /\ cl.peer = "broken" => cl2.peer = "broken" /\ (r.pc \in CountedPcs => t.pc \in CountedPcs)
        /\ r.pc # "none" => cl2.peer # "none"
        /\ sv2.peer = "open" => sv.peer = "open" \/ t.pc \in LoopPcs
    BY ONLY <1>2, <1>3, <1>5
  <2>3. /\ r.pc \in TakenPcs => t.pc \in TakenPcs
        /\ r.pc \in AskingPcs \ TakenPcs => t.pc \in AskingPcs \ TakenPcs
        /\ r.pc \in GivenPcs => t.pc \in GivenPcs
        /\ r.pc \in RelayPcs \ GivenPcs => t.pc \in RelayPcs \ GivenPcs
        /\ r.pc \in LoopPcs => t.pc \in LoopPcs
        /\ r.pc = "send crlf" => t.pc = "send crlf" /\ sv2.peer = sv.peer
    BY ONLY <1>2, <1>4
  <2>4. /\ cl2 \in Streams /\ cl2.in = cl.in /\ cl2.out = cl.out /\ cl2.sent = cl.sent
        /\ sv2 \in Streams /\ sv2.in = sv.in /\ sv2.out = sv.out /\ sv2.sent = sv.sent
    BY ONLY <1>5
  <2> QED BY ONLY <1>1, <1>6, <1>7, <2>1, <2>2, <2>3, <2>4, c \in Conn, r \in Threads,
       cl2 \in Streams, sv2 \in Streams, StillCarries
<1>9. /\ r.pc \in ServerPcs => th[c].pc \in ServerPcs
      /\ r.pc \in ClientPcs \ {"failed"} => th[c].pc \in ClientPcs \ {"failed"}
      /\ th[c].pc \in LoggedPcs => /\ r.pc \in LoggedPcs
                                   /\ sock'[Client(c)].out = sock[Client(c)].out
      /\ alive' => alive
  BY <1>2
<1> HIDE DEF ClientPcs, ServerPcs, LoggedPcs
<1>10. Carries(c, r, sock'[Client(c)], sock'[Server(c)], alive')
  BY <1>5, <1>8, DeadCarries
<1> QED BY <1>1, <1>5, <1>9, <1>10, ConnStep

LEMMA ServerWrites ==
    ASSUME ProxyInv, CarryInv, ~ clobbered, NEW c \in Conn, alive, NEW r \in Threads,
           th[c].pc \in {"send request", "send header", "send body"},
           r.cbuf = th[c].cbuf, r.sbuf = th[c].sbuf, r.line = th[c].line,
           r.cfd = th[c].cfd, r.sfd = th[c].sfd, r.tot = th[c].tot,
           r.pc \in {"header", "body", "reply"},
           NEW checks \in BOOLEAN, Sending(c, "sfd", th[c].line, r, checks),
           ~ checks => th[c].pc = "send body" /\ r.pc = "reply"
    PROVE  CarryInv'
<1> DEFINE t == th[c]
           cl == sock[Client(c)]
           sv == sock[Server(c)]
<1>1. /\ TypeOK /\ t \in Threads /\ cl \in Streams /\ sv \in Streams
      /\ Server(c) \in Sock /\ Carries(c, t, cl, sv, TRUE)
  <2>1. alive = TRUE
    BY CarryFacts
  <2> QED BY <2>1, CarryFacts
<1>2. /\ t.pc \in ClientPcs \ {"failed"} /\ t.pc \in ServerPcs /\ t.pc \notin LoggedPcs
  BY DEF ClientPcs, ServerPcs, LoggedPcs
<1>3. th[c]["sfd"] \in FD /\ fds[th[c]["sfd"]] = Server(c)
  BY <1>2, CarryFacts
<1>4. t.line \in Items /\ Sending(c, "sfd", t.line, r, checks)
  BY <1>1, ThreadTypes
<1>5. /\ fds' = fds /\ log' = log
      /\ \E st \in Streams : SentAs(c, Server(c), t.line, r, st) \/ NotSent(c, Server(c), r, checks, st)
  BY ONLY <1>1, <1>3, <1>4, c \in Conn, r \in Threads, checks \in BOOLEAN, OwnSend
<1>6. CASE \E st \in Streams : SentAs(c, Server(c), t.line, r, st)
  <2>1. PICK st \in Streams : SentAs(c, Server(c), t.line, r, st)
    BY <1>6
  <2>2. /\ th' = [th EXCEPT ![c] = r] /\ sock' = [sock EXCEPT ![Server(c)] = st] /\ alive' = TRUE
        /\ st.out = Append(sv.out, t.line) /\ st.in = sv.in /\ st.sent = sv.sent
    BY ONLY <2>1 DEF SentAs
  <2>3. /\ sock'[Server(c)] = st /\ sock'[Client(c)] = cl
        /\ \A d \in Conn \ {c} : /\ sock'[Client(d)] = sock[Client(d)]
                                 /\ sock'[Server(d)] = sock[Server(d)]
    BY ONLY <1>1, <2>2, c \in Conn, ServerStep
  <2>4. /\ t.pc \in {"send request", "send header", "send body"}
        /\ r.cbuf = t.cbuf /\ r.sbuf = t.sbuf /\ r.tot = t.tot
        /\ r.pc \in {"header", "body", "reply"}
    OBVIOUS
  <2>5. Carries(c, r, cl, st, TRUE)
    <3> HIDE DEF t, cl, sv
    <3> QED BY ONLY <1>1, <2>2, <2>4, c \in Conn, r \in Threads, st \in Streams, WriteToServer
  <2>6. Carries(c, r, sock'[Client(c)], sock'[Server(c)], alive')
    <3> HIDE DEF t, cl, sv
    <3> QED BY ONLY <2>2, <2>3, <2>5
  <2> HIDE DEF ClientPcs, ServerPcs, LoggedPcs
  <2> QED BY <1>1, <1>2, <1>5, <2>2, <2>3, <2>6, ConnStep
<1>7. CASE \E st \in Streams : NotSent(c, Server(c), r, checks, st)
  <2>1. PICK st \in Streams :
          /\ alive' \in BOOLEAN /\ sock' = [sock EXCEPT ![Server(c)] = st]
          /\ st.in = sv.in /\ st.out = sv.out /\ st.sent = sv.sent
          /\ st.peer = "broken" /\ Later(sv.peer, st.peer)
          /\ th' = [th EXCEPT ![c] = IF checks THEN [t EXCEPT !.pc = "abort"] ELSE r]
    BY ONLY <1>7 DEF NotSent
  <2>2. PICK a : a = [t EXCEPT !.pc = "abort"]
    OBVIOUS
  <2>3. /\ a \in Threads /\ a.pc = "abort" /\ a.cfd = t.cfd /\ a.sfd = t.sfd
        /\ a.cbuf = t.cbuf /\ a.sbuf = t.sbuf /\ a.tot = t.tot /\ a.line = t.line
    BY ONLY <1>1, <2>2, AbortType
  <2>4. CASE checks
    BY <1>5, <2>1, <2>2, <2>3, <2>4, FailedWrite
  <2>5. CASE ~ checks
    BY <1>5, <2>1, <2>5, FailedWrite
  <2> QED BY <2>1, <2>2, <2>4, <2>5
<1> QED BY <1>5, <1>6, <1>7

LEMMA ClientWrites ==
    ASSUME ProxyInv, CarryInv, ~ clobbered, NEW c \in Conn, alive, NEW r \in Threads,
           NEW x \in Items,
           r.cbuf = th[c].cbuf, r.sbuf = th[c].sbuf, r.line = th[c].line,
           r.cfd = th[c].cfd, r.sfd = th[c].sfd,
           NEW checks \in BOOLEAN, Sending(c, "cfd", x, r, checks),
           \/ /\ th[c].pc \in {"send reply", "send content"} /\ r.pc \in {"reply", "content", "finish"}
              /\ x = th[c].line /\ r.tot = th[c].tot + 1
              /\ ~ checks => r.pc = "finish"
           \/ /\ th[c].pc = "send crlf" /\ r.pc \in {"content", "finish"}
              /\ x = NoItem /\ r.tot = th[c].tot
    PROVE  CarryInv'
<1> DEFINE t == th[c]
           cl == sock[Client(c)]
           sv == sock[Server(c)]
<1>1. /\ TypeOK /\ t \in Threads /\ cl \in Streams /\ sv \in Streams
      /\ Client(c) \in Sock /\ Carries(c, t, cl, sv, TRUE)
  <2>1. alive = TRUE
    BY CarryFacts
  <2> QED BY <2>1, CarryFacts
<1>2. /\ t.pc \in ClientPcs \ {"failed"} /\ t.pc \in ServerPcs /\ t.pc \notin LoggedPcs
      /\ t.pc # "none"
  BY DEF ClientPcs, ServerPcs, LoggedPcs
<1>3. th[c]["cfd"] \in FD /\ fds[th[c]["cfd"]] = Client(c)
  BY <1>2, CarryFacts
<1>5. /\ fds' = fds /\ log' = log
      /\ \E st \in Streams : SentAs(c, Client(c), x, r, st) \/ NotSent(c, Client(c), r, checks, st)
  <2>1. Sending(c, "cfd", x, r, checks)
    OBVIOUS
  <2> QED BY ONLY <1>1, <1>3, <2>1, c \in Conn, x \in Items, r \in Threads, checks \in BOOLEAN, OwnSend
<1>6. CASE \E st \in Streams : SentAs(c, Client(c), x, r, st)
  <2>1. PICK st \in Streams : SentAs(c, Client(c), x, r, st)
    BY <1>6
  <2>2. /\ th' = [th EXCEPT ![c] = r] /\ sock' = [sock EXCEPT ![Client(c)] = st] /\ alive' = TRUE
        /\ st.out = Append(cl.out, x) /\ st.in = cl.in /\ st.sent = cl.sent
        /\ Later(cl.peer, st.peer)
    BY ONLY <2>1 DEF SentAs
  <2>3. /\ sock'[Client(c)] = st /\ sock'[Server(c)] = sv
        /\ \A d \in Conn \ {c} : /\ sock'[Client(d)] = sock[Client(d)]
                                 /\ sock'[Server(d)] = sock[Server(d)]
    BY ONLY <1>1, <2>2, c \in Conn, ClientStep
  <2>4. st.peer # "none" /\ (st.peer = "open" => cl.peer = "open")
    <3> HIDE DEF t, cl, sv
    <3>1. cl.peer # "none"
      BY ONLY <1>1, <1>2 DEF Carries
    <3> QED BY ONLY <2>2, <3>1 DEF Later
  <2>5. Carries(c, r, st, sv, TRUE)
    <3>1. CASE /\ th[c].pc \in {"send reply", "send content"} /\ r.pc \in {"reply", "content", "finish"}
               /\ x = th[c].line /\ r.tot = th[c].tot + 1
      <4>1. /\ t.pc \in GivenPcs /\ st.out = Append(cl.out, t.line) /\ r.sbuf = t.sbuf
            /\ r.tot = t.tot + 1 /\ r.pc \in {"reply", "content", "finish"}
        BY <2>2, <3>1 DEF GivenPcs
      <4> HIDE DEF t, cl, sv
      <4> QED BY ONLY <1>1, <2>2, <2>4, <4>1, c \in Conn, r \in Threads, st \in Streams, WriteToClient
    <3>2. CASE /\ th[c].pc = "send crlf" /\ r.pc \in {"content", "finish"}
               /\ x = NoItem /\ r.tot = th[c].tot
      <4>1. /\ t.pc = "send crlf" /\ st.out = Append(cl.out, NoItem) /\ r.sbuf = t.sbuf
            /\ r.tot = t.tot /\ r.pc \in {"content", "finish"}
        BY <2>2, <3>2
      <4> HIDE DEF t, cl, sv
      <4> QED BY ONLY <1>1, <2>2, <2>4, <4>1, c \in Conn, r \in Threads, st \in Streams, WriteCrlf
    <3> QED BY <3>1, <3>2
  <2>6. Carries(c, r, sock'[Client(c)], sock'[Server(c)], alive')
    <3> HIDE DEF t, cl, sv
    <3> QED BY ONLY <2>2, <2>3, <2>5
  <2> HIDE DEF ClientPcs, ServerPcs, LoggedPcs
  <2> QED BY <1>1, <1>2, <1>5, <2>2, <2>3, <2>6, ConnStep
<1>7. CASE \E st \in Streams : NotSent(c, Client(c), r, checks, st)
  <2>1. PICK st \in Streams :
          /\ alive' \in BOOLEAN /\ sock' = [sock EXCEPT ![Client(c)] = st]
          /\ st.in = cl.in /\ st.out = cl.out /\ st.sent = cl.sent
          /\ st.peer = "broken" /\ Later(cl.peer, st.peer)
          /\ th' = [th EXCEPT ![c] = IF checks THEN [t EXCEPT !.pc = "abort"] ELSE r]
    BY ONLY <1>7 DEF NotSent
  <2>2. PICK a : a = [t EXCEPT !.pc = "abort"]
    OBVIOUS
  <2>3. /\ a \in Threads /\ a.pc = "abort" /\ a.cfd = t.cfd /\ a.sfd = t.sfd
        /\ a.cbuf = t.cbuf /\ a.sbuf = t.sbuf /\ a.tot = t.tot /\ a.line = t.line
    BY ONLY <1>1, <2>2, AbortType
  <2>4. CASE checks
    BY <1>5, <2>1, <2>2, <2>3, <2>4, FailedWrite
  <2>5. CASE ~ checks
    BY <1>5, <2>1, <2>5, FailedWrite
  <2> QED BY <2>4, <2>5
<1> QED BY <1>5, <1>6, <1>7

LEMMA SendSteps ==
    ASSUME ProxyInv, CarryInv, ~ clobbered, NEW c \in Conn,
           \/ SendRequest(c) \/ SendHeader(c) \/ SendBody(c)
           \/ SendReply(c) \/ SendCrlf(c) \/ SendContent(c)
    PROVE  CarryInv'
<1>1. th[c] \in Threads /\ th[c].line \in Items /\ th[c].tot \in Nat /\ NoItem \in Items
  <2>1. th[c] \in Threads
    BY CarryFacts
  <2>2. NoItem \in Items
    BY DEF NoItem, Item, Items
  <2> QED BY <2>1, <2>2, ThreadTypes
<1>2. CASE SendRequest(c)
  <2>1. PICK r : r = [th[c] EXCEPT !.pc = "header"]
    OBVIOUS
  <2>2. alive /\ th[c].pc = "send request" /\ Sending(c, "sfd", th[c].line, r, TRUE)
    BY <1>2, <2>1 DEF SendRequest, At, Sending
  <2>3. /\ r \in Threads /\ r.pc = "header" /\ r.cfd = th[c].cfd /\ r.sfd = th[c].sfd
        /\ r.cbuf = th[c].cbuf /\ r.sbuf = th[c].sbuf /\ r.tot = th[c].tot /\ r.line = th[c].line
    BY <1>1, <2>1 DEF Threads, Pcs
  <2> QED BY <2>2, <2>3, ServerWrites
<1>3. CASE SendHeader(c)
  <2>1. PICK r : r = AfterHeader(th[c], "reqLen", "header", "body", "reply")
    OBVIOUS
  <2>2. alive /\ th[c].pc = "send header" /\ Sending(c, "sfd", th[c].line, r, TRUE)
    BY <1>3, <2>1 DEF SendHeader, At, Sending
  <2>3. "header" \in Pcs /\ "body" \in Pcs /\ "reply" \in Pcs
    BY DEF Pcs
  <2>4. /\ r \in Threads /\ r.pc \in {"header", "body", "reply"} /\ r.cfd = th[c].cfd /\ r.sfd = th[c].sfd
    BY ONLY <1>1, <2>1, <2>3, AfterHeaderEffect
  <2>5. /\ r.cbuf = th[c].cbuf /\ r.sbuf = th[c].sbuf /\ r.tot = th[c].tot /\ r.line = th[c].line
    BY ONLY <1>1, <2>1, HeaderKeeps
  <2> QED BY <2>2, <2>4, <2>5, ServerWrites
<1>4. CASE SendBody(c)
  <2>1. PICK r : r = [th[c] EXCEPT !.pc = "reply"]
    OBVIOUS
  <2>2. alive /\ th[c].pc = "send body" /\ Sending(c, "sfd", th[c].line, r, FALSE)
    BY <1>4, <2>1 DEF SendBody, At, Sending
  <2>3. /\ r \in Threads /\ r.pc = "reply" /\ r.cfd = th[c].cfd /\ r.sfd = th[c].sfd
        /\ r.cbuf = th[c].cbuf /\ r.sbuf = th[c].sbuf /\ r.tot = th[c].tot /\ r.line = th[c].line
    BY <1>1, <2>1 DEF Threads, Pcs
  <2> QED BY <2>2, <2>3, ServerWrites
<1>5. CASE SendReply(c)
  <2>1. PICK n \in Nat : n = th[c].tot + 1
    BY <1>1
  <2>2. PICK t : t = [th[c] EXCEPT !.tot = n]
    OBVIOUS
  <2>3. /\ t \in Threads /\ t.cfd = th[c].cfd /\ t.sfd = th[c].sfd /\ t.tot = n
        /\ t.cbuf = th[c].cbuf /\ t.sbuf = th[c].sbuf /\ t.line = th[c].line
    BY <1>1, <2>2 DEF Threads
  <2>4. PICK r : r = AfterHeader(t, "resLen", "reply", "content", "finish")
    OBVIOUS
  <2>5. alive /\ th[c].pc = "send reply" /\ Sending(c, "cfd", th[c].line, r, TRUE)
    BY <1>5, <2>1, <2>2, <2>4 DEF SendReply, At, Sending
  <2>6. "reply" \in Pcs /\ "content" \in Pcs /\ "finish" \in Pcs
    BY DEF Pcs
  <2>7. /\ r \in Threads /\ r.pc \in {"reply", "content", "finish"} /\ r.cfd = t.cfd /\ r.sfd = t.sfd
    BY ONLY <2>3, <2>4, <2>6, AfterHeaderEffect
  <2>8. /\ r.cbuf = t.cbuf /\ r.sbuf = t.sbuf /\ r.tot = t.tot /\ r.line = t.line
    BY ONLY <2>3, <2>4, HeaderKeeps
  <2> QED BY <1>1, <2>1, <2>3, <2>5, <2>7, <2>8, ClientWrites
<1>6. CASE SendCrlf(c)
  <2>1. PICK r : r = [th[c] EXCEPT !.pc = IF th[c].resLen > 0 THEN "content" ELSE "finish"]
    OBVIOUS
  <2>2. alive /\ th[c].pc = "send crlf" /\ Sending(c, "cfd", NoItem, r, FALSE)
    BY <1>6, <2>1 DEF SendCrlf, At, Sending
  <2>3. /\ r \in Threads /\ r.pc \in {"content", "finish"} /\ r.cfd = th[c].cfd /\ r.sfd = th[c].sfd
        /\ r.cbuf = th[c].cbuf /\ r.sbuf = th[c].sbuf /\ r.tot = th[c].tot /\ r.line = th[c].line
    BY <1>1, <2>1 DEF Threads, Pcs
  <2> QED BY <1>1, <2>2, <2>3, ClientWrites
<1>7. CASE SendContent(c)
  <2>1. PICK n \in Nat : n = th[c].tot + 1
    BY <1>1
  <2>2. PICK r : r = [th[c] EXCEPT !.pc = "finish", !.tot = n]
    OBVIOUS
  <2>3. alive /\ th[c].pc = "send content" /\ Sending(c, "cfd", th[c].line, r, FALSE)
    BY <1>7, <2>1, <2>2 DEF SendContent, At, Sending
  <2>4. /\ r \in Threads /\ r.pc = "finish" /\ r.cfd = th[c].cfd /\ r.sfd = th[c].sfd /\ r.tot = n
        /\ r.cbuf = th[c].cbuf /\ r.sbuf = th[c].sbuf /\ r.line = th[c].line
    BY <1>1, <2>1, <2>2 DEF Threads, Pcs
  <2> QED BY <1>1, <2>1, <2>3, <2>4, ClientWrites
<1> QED BY <1>2, <1>3, <1>4, <1>5, <1>6, <1>7

-----------------------------------------------------------------------------
(* The steps that move nothing. *)

LEMMA QuietCarries ==
    ASSUME NEW c \in Conn, NEW t \in Threads, NEW cl \in Streams, NEW sv \in Streams,
           NEW up \in BOOLEAN, Carries(c, t, cl, sv, up), NEW r \in Threads,
           r.cbuf = t.cbuf, r.sbuf = t.sbuf, r.line = t.line, r.tot = t.tot,
           t.pc # "none", r.pc \notin RelayPcs,
           cl.peer = "broken" /\ r.pc \in CountedPcs => t.pc \in CountedPcs
    PROVE  Carries(c, r, cl, sv, up)
<1>1. /\ r.pc \notin AskingPcs /\ r.pc \notin TakenPcs /\ r.pc \notin GivenPcs
      /\ r.pc \notin LoopPcs /\ r.pc # "send crlf"
  BY DEF AskingPcs, TakenPcs, GivenPcs, RelayPcs, LoopPcs
<1>2. cl.peer # "none"
  BY DEF Carries
<1>3. Asks(c, r, cl, sv)
  BY <1>1 DEF Carries, Asks
<1>4. Answers(c, r, cl, sv, up)
  <2> HIDE DEF AskingPcs, TakenPcs, GivenPcs, RelayPcs, LoopPcs, CountedPcs
  <2> QED BY <1>1 DEF Carries, Answers, Drained
<1> QED BY <1>2, <1>3, <1>4 DEF Carries

LEMMA GotoKeeps ==
    ASSUME TypeOK, NEW c \in Conn, NEW pc \in Pcs, Goto(c, pc)
    PROVE  \E r \in Threads :
             /\ th' = [th EXCEPT ![c] = r]
             /\ r.cfd = th[c].cfd /\ r.sfd = th[c].sfd /\ r.pc = pc
             /\ r.cbuf = th[c].cbuf /\ r.sbuf = th[c].sbuf /\ r.line = th[c].line
             /\ r.tot = th[c].tot
<1>1. th[c] \in Threads /\ th \in [Conn -> Threads]
  BY DEF TypeOK
<1> DEFINE r == [th[c] EXCEPT !.pc = pc]
<1>2. /\ r \in Threads /\ r.cfd = th[c].cfd /\ r.sfd = th[c].sfd /\ r.pc = pc
      /\ r.cbuf = th[c].cbuf /\ r.sbuf = th[c].sbuf /\ r.line = th[c].line
      /\ r.tot = th[c].tot
  BY <1>1 DEF Threads
<1>3. th' = [th EXCEPT ![c] = r]
  BY <1>1 DEF Goto, Threads
<1> QED BY <1>2, <1>3

LEMMA MutexSteps ==
    ASSUME ProxyInv, CarryInv, ~ clobbered, NEW c \in Conn, PeerName(c) \/ P(c) \/ V(c)
    PROVE  CarryInv'
<1> DEFINE t == th[c]
           cl == sock[Client(c)]
           sv == sock[Server(c)]
<1>1. /\ TypeOK /\ t \in Threads /\ cl \in Streams /\ sv \in Streams /\ alive \in BOOLEAN
      /\ Carries(c, t, cl, sv, alive)
  BY CarryFacts
<1>2. PICK pc \in {"wait", "print", "close"} :
        /\ Goto(c, pc) /\ t.pc \in {"peername", "wait", "signal"}
        /\ t.pc = "signal" => pc = "close"
        /\ t.pc = "peername" => pc = "close" \/ (pc = "wait" /\ cl.peer # "broken")
  <2>1. CASE PeerName(c)
    <3>1. t.pc = "peername" /\ Goto(c, IF Peer(t.cfd) \in {"reset", "broken"} THEN "close" ELSE "wait")
      BY <2>1 DEF PeerName, At
    <3>2. fds[t.cfd] = Client(c)
      BY <3>1, CarryFacts DEF ClientPcs
    <3>3. Peer(t.cfd) \notin {"reset", "broken"} => cl.peer # "broken"
      BY <3>2 DEF Peer
    <3> QED BY <3>1, <3>3
  <2>2. CASE P(c) \/ V(c)
    BY <2>2 DEF P, V, At
  <2> QED BY <2>1, <2>2
<1>3. fds' = fds /\ sock' = sock /\ log' = log /\ alive' = alive
  BY DEF PeerName, P, V
<1>4. pc \in Pcs
  BY <1>2 DEF Pcs
<1>5. PICK r \in Threads :
             /\ th' = [th EXCEPT ![c] = r]
             /\ r.cfd = th[c].cfd /\ r.sfd = th[c].sfd /\ r.pc = pc
             /\ r.cbuf = th[c].cbuf /\ r.sbuf = th[c].sbuf /\ r.line = th[c].line
             /\ r.tot = th[c].tot
  BY ONLY <1>1, <1>2, <1>4, c \in Conn, GotoKeeps
<1>6. /\ t.pc # "none" /\ r.pc \notin RelayPcs
      /\ cl.peer = "broken" /\ r.pc \in CountedPcs => t.pc \in CountedPcs
  BY ONLY <1>2, <1>5 DEF CountedPcs, RelayPcs, LoopPcs, AskingPcs, TakenPcs
<1>7. Carries(c, r, cl, sv, alive)
  BY ONLY <1>1, <1>5, <1>6, c \in Conn, r \in Threads, QuietCarries
<1>8. /\ r.pc \in ServerPcs => th[c].pc \in ServerPcs
      /\ r.pc \in ClientPcs \ {"failed"} => th[c].pc \in ClientPcs \ {"failed"}
      /\ th[c].pc \in LoggedPcs => r.pc \in LoggedPcs
  BY ONLY <1>2, <1>5 DEF ServerPcs, ClientPcs, LoggedPcs
<1>9. Carries(c, r, sock'[Client(c)], sock'[Server(c)], alive')
  BY ONLY <1>3, <1>7
<1> HIDE DEF ClientPcs, ServerPcs, LoggedPcs
<1> QED BY <1>1, <1>3, <1>5, <1>8, <1>9, ConnStep

LEMMA LogStep ==
    ASSUME ProxyInv, CarryInv, ~ clobbered, NEW c \in Conn, WriteLog(c)
    PROVE  CarryInv'
<1> DEFINE t == th[c]
           cl == sock[Client(c)]
           sv == sock[Server(c)]
<1>1. /\ TypeOK /\ t \in Threads /\ cl \in Streams /\ sv \in Streams /\ alive \in BOOLEAN
      /\ Carries(c, t, cl, sv, alive) /\ th \in [Conn -> Threads]
  BY CarryFacts
<1>2. /\ Goto(c, "signal") /\ t.pc = "print" /\ alive /\ "signal" \in Pcs
      /\ fds' = fds /\ sock' = sock /\ alive' = alive
      /\ log' = Append(log, [conn |-> c, size |-> t.tot])
  BY DEF WriteLog, At, Pcs
<1>3. PICK r \in Threads :
             /\ th' = [th EXCEPT ![c] = r]
             /\ r.cfd = th[c].cfd /\ r.sfd = th[c].sfd /\ r.pc = "signal"
             /\ r.cbuf = th[c].cbuf /\ r.sbuf = th[c].sbuf /\ r.line = th[c].line
             /\ r.tot = th[c].tot
  BY ONLY <1>1, <1>2, c \in Conn, GotoKeeps
<1>4. t.pc # "none" /\ r.pc \notin RelayPcs /\ r.pc \notin CountedPcs /\ t.pc \in CountedPcs
  BY ONLY <1>2, <1>3 DEF CountedPcs, RelayPcs, LoopPcs, AskingPcs, TakenPcs
<1>5. Carries(c, r, cl, sv, alive)
  BY ONLY <1>1, <1>3, <1>4, c \in Conn, r \in Threads, QuietCarries
<1>6. /\ th[c].pc \notin LoggedPcs /\ r.pc \in LoggedPcs /\ r.pc \notin ServerPcs
      /\ th[c].pc \in ClientPcs \ {"failed"}
  BY ONLY <1>2, <1>3 DEF LoggedPcs, ServerPcs, ClientPcs
<1>7. th'[c] = r /\ \A d \in Conn \ {c} : th'[d] = th[d]
  BY ONLY <1>1, <1>3, c \in Conn, r \in Threads
<1>8. (\A d \in Conn : Carries(d, th[d], sock[Client(d)], sock[Server(d)], alive))'
  <2>1. Carries(c, r, sock'[Client(c)], sock'[Server(c)], alive')
    BY ONLY <1>2, <1>5
  <2> QED BY <1>1, <1>2, <1>3, <2>1, OthersCarry
<1>9. \A d \in Conn : Owns(d)'
  <2> TAKE d \in Conn
  <2> HIDE DEF ServerPcs, ClientPcs
  <2>1. Owns(d)
    BY DEF CarryInv
  <2>2. CASE d = c
    BY <1>2, <1>3, <1>6, <1>7, <2>1, <2>2 DEF Owns
  <2>3. CASE d # c
    BY <1>2, <1>7, <2>1, <2>3 DEF Owns
  <2> QED BY <2>2, <2>3
<1>10. ASSUME NEW i \in DOMAIN log'
       PROVE  /\ th'[log'[i].conn].pc \in LoggedPcs
              /\ log'[i].size = Real(sock'[Client(log'[i].conn)].out)
  <2> DEFINE e == [conn |-> c, size |-> t.tot]
  <2>1. log \in Seq([conn : Conn, size : Nat]) /\ e \in [conn : Conn, size : Nat]
    <3>1. t.tot \in Nat
      BY ONLY <1>1, ThreadTypes
    <3>2. log \in Seq([conn : Conn, size : Nat])
      BY <1>1 DEF TypeOK
    <3> QED BY ONLY <3>1, <3>2, c \in Conn
  <2>2. (i \in DOMAIN log /\ log'[i] = log[i]) \/ log'[i] = e
    <3> PICK R : R = [conn : Conn, size : Nat]
      OBVIOUS
    <3>1. log \in Seq(R) /\ e \in R /\ log' = Append(log, e) /\ i \in DOMAIN log'
      BY <1>2, <2>1, <1>10
    <3> HIDE DEF e
    <3> QED BY ONLY <3>1
  <2>3. CASE log'[i] = e
    <3>1. e.conn = c /\ e.size = t.tot
      OBVIOUS
    <3>2. t.tot = Real(cl.out)
      BY ONLY <1>1, <1>2, <1>4 DEF Carries, Answers
    <3> QED BY ONLY <1>2, <1>6, <1>7, <2>3, <3>1, <3>2
  <2>4. CASE i \in DOMAIN log /\ log'[i] = log[i]
    <3>1. /\ th'[log[i].conn].pc \in LoggedPcs
          /\ log[i].size = Real(sock'[Client(log[i].conn)].out)
      BY <1>1, <1>2, <1>3, <1>6, <2>4, LogKept
    <3> QED BY ONLY <2>4, <3>1
  <2> QED BY <2>2, <2>3, <2>4
<1> QED BY <1>8, <1>9, <1>10 DEF CarryInv, Client

LEMMA CloseSteps ==
    ASSUME ProxyInv, CarryInv, ~ clobbered, NEW c \in Conn,
           Finish(c) \/ Abort(c) \/ Close(c) \/ CloseAgain(c)
    PROVE  CarryInv'
<1> DEFINE t == th[c]
           cl == sock[Client(c)]
           sv == sock[Server(c)]
<1>1. /\ TypeOK /\ t \in Threads /\ cl \in Streams /\ sv \in Streams /\ alive \in BOOLEAN
      /\ Carries(c, t, cl, sv, alive) /\ th \in [Conn -> Threads]
      /\ t.pc \in ClientPcs \ {"failed"} => t.cfd \in FD /\ fds[t.cfd] = Client(c)
      /\ t.pc \in ServerPcs => t.sfd \in FD /\ fds[t.sfd] = Server(c)
  BY CarryFacts
<1>2. PICK fd, pc :
        /\ CloseFd(c, fd) /\ Goto(c, pc) /\ UNCHANGED <<sock, mutex, log, fails, alive>>
        /\ \/ fd = t.sfd /\ t.pc \in {"finish", "abort"} /\ pc \in {"peername", "close"}
           \/ fd = t.cfd /\ t.pc = "close" /\ pc = "return"
           \/ fd = t.cfd /\ t.pc = "return" /\ pc = "done"
  BY DEF Finish, Abort, Close, CloseAgain, At
<1>3. pc \in Pcs
  BY <1>2 DEF Pcs
<1>4. PICK r \in Threads :
             /\ th' = [th EXCEPT ![c] = r]
             /\ r.cfd = th[c].cfd /\ r.sfd = th[c].sfd /\ r.pc = pc
             /\ r.cbuf = th[c].cbuf /\ r.sbuf = th[c].sbuf /\ r.line = th[c].line
             /\ r.tot = th[c].tot
  BY ONLY <1>1, <1>2, <1>3, c \in Conn, GotoKeeps
<1>5. t.pc # "none" /\ r.pc \notin RelayPcs /\ r.pc \notin CountedPcs
  BY ONLY <1>2, <1>4 DEF CountedPcs, RelayPcs, LoopPcs, AskingPcs, TakenPcs
<1>6. Carries(c, r, cl, sv, alive)
  BY ONLY <1>1, <1>4, <1>5, c \in Conn, r \in Threads, QuietCarries
<1>7. th'[c] = r /\ \A d \in Conn \ {c} : th'[d] = th[d]
  BY ONLY <1>1, <1>4, c \in Conn, r \in Threads
<1>8. /\ r.pc \notin ServerPcs
      /\ r.pc \in ClientPcs \ {"failed"} =>
           fd = t.sfd /\ t.pc \in ServerPcs /\ t.pc \in ClientPcs \ {"failed"}
      /\ t.pc \in LoggedPcs => r.pc \in LoggedPcs
  BY ONLY <1>2, <1>4 DEF ServerPcs, ClientPcs, LoggedPcs
<1>9. fds \in [FD -> Sock \cup {None}] /\ fds' = [fds EXCEPT ![fd] = None]
  BY <1>1, <1>2 DEF TypeOK, CloseFd
<1>10. ASSUME ~ clobbered', NEW d \in Conn PROVE Owns(d)'
  <2> HIDE DEF ServerPcs, ClientPcs
  <2>1. fds[fd] = None \/ fds[fd][2] = c
    BY <1>2, <1>10 DEF CloseFd
  <2>2. /\ Client(d) # None /\ Client(d)[2] = d /\ Server(d) # None /\ Server(d)[2] = d
        /\ Client(c) # Server(c)
    BY ProxyAssumption DEF Client, Server, Sock
  <2>3. CASE d # c
    <3>1. Owns(d) /\ HeldInv
      BY DEF CarryInv, ProxyInv
    <3>2. th[d].pc \in ClientPcs \ {"failed"} => th[d].cfd \in FD /\ fds[th[d].cfd] = Client(d)
      BY CarryFacts
    <3>3. th[d].pc \in ServerPcs => th[d].sfd \in FD /\ fds[th[d].sfd] = Server(d)
      BY CarryFacts
    <3>4. th[d].pc \in ClientPcs \ {"failed"} => fds'[th[d].cfd] = Client(d)
      BY ONLY <1>9, <2>1, <2>2, <2>3, <3>2
    <3>5. th[d].pc \in ServerPcs => fds'[th[d].sfd] = Server(d)
      BY ONLY <1>9, <2>1, <2>2, <2>3, <3>3
    <3>6. th'[d] = th[d]
      BY <1>7, <2>3
    <3> QED BY <3>4, <3>5, <3>6 DEF Owns, Client, Server
  <2>4. CASE d = c
    <3>1. r.pc \in ClientPcs \ {"failed"} => fds'[r.cfd] = Client(c)
      <4> SUFFICES ASSUME r.pc \in ClientPcs \ {"failed"} PROVE fds'[r.cfd] = Client(c)
        OBVIOUS
      <4>1. t.cfd \in FD /\ fds[t.cfd] = Client(c) /\ fds[t.sfd] = Server(c) /\ fd = t.sfd
        BY <1>1, <1>8
      <4>2. fd # t.cfd
        BY ONLY <2>2, <4>1
      <4> QED BY <1>4, <1>9, <4>1, <4>2
    <3> QED BY <1>7, <1>8, <2>4, <3>1 DEF Owns, Client, Server
  <2> QED BY <2>3, <2>4
<1>11. Carries(c, r, sock'[Client(c)], sock'[Server(c)], alive')
  BY <1>2, <1>6
<1>12. /\ log' = log /\ alive' = alive /\ sock' = sock
       /\ th[c].pc \in LoggedPcs => r.pc \in LoggedPcs
  BY <1>2, <1>8
<1> HIDE DEF LoggedPcs
<1> QED BY <1>1, <1>4, <1>10, <1>11, <1>12, DescStep

LEMMA AcceptStep ==
    ASSUME ProxyInv, CarryInv, ~ clobbered, NEW c \in Conn, Accept(c)
    PROVE  CarryInv'
<1> DEFINE t == th[c]
           cl == sock[Client(c)]
           sv == sock[Server(c)]
<1>1. /\ TypeOK /\ t \in Threads /\ cl \in Streams /\ sv \in Streams /\ alive \in BOOLEAN
      /\ Carries(c, t, cl, sv, alive) /\ th \in [Conn -> Threads]
  BY CarryFacts
<1>2. PICK f \in FD : f = Lowest /\ fds[f] = None
  BY LowestIsFree DEF Accept
<1>3. /\ t.pc = "none" /\ cl.peer # "none" /\ fds' = [fds EXCEPT ![f] = Client(c)]
      /\ sock' = sock /\ log' = log /\ alive' = alive
  BY <1>2 DEF Accept, Waiting, Client
<1>4. PICK pc \in {"request", "failed"} : th' = [th EXCEPT ![c].pc = pc, ![c].cfd = f]
  BY <1>2 DEF Accept
<1> DEFINE r == [t EXCEPT !.pc = pc, !.cfd = f]
<1>5. /\ r \in Threads /\ r.pc = pc /\ r.cfd = f
      /\ r.cbuf = t.cbuf /\ r.sbuf = t.sbuf /\ r.line = t.line /\ r.tot = t.tot
  BY <1>1, <1>4 DEF Threads, Pcs
<1>6. th' = [th EXCEPT ![c] = r]
  BY <1>1, <1>4 DEF Threads
<1> HIDE DEF r
<1>7. th'[c] = r /\ \A d \in Conn \ {c} : th'[d] = th[d]
  BY ONLY <1>1, <1>5, <1>6, c \in Conn
<1>8. /\ t.pc \in AskingPcs \ TakenPcs /\ t.pc \in RelayPcs \ GivenPcs /\ t.pc \in LoopPcs
      /\ t.pc \notin LoggedPcs
      /\ r.pc \notin TakenPcs /\ r.pc \notin GivenPcs /\ r.pc # "send crlf" /\ r.pc # "none"
      /\ r.pc \notin ServerPcs /\ t.pc \in CountedPcs
  BY ONLY <1>3, <1>5, pc \in {"request", "failed"}
     DEF CountedPcs, AskingPcs, TakenPcs, RelayPcs, GivenPcs, LoopPcs, LoggedPcs, ServerPcs
<1>9. Carries(c, r, cl, sv, alive)
  <2> HIDE DEF AskingPcs, TakenPcs, RelayPcs, GivenPcs, LoopPcs, CountedPcs
  <2>1. Asks(c, r, cl, sv)
    BY ONLY <1>1, <1>5, <1>8 DEF Carries, Asks
  <2>2. Answers(c, r, cl, sv, alive)
    BY ONLY <1>1, <1>5, <1>8 DEF Carries, Answers, Drained
  <2> QED BY <1>1, <1>3, <2>1, <2>2 DEF Carries
<1>10. ASSUME NEW d \in Conn PROVE Owns(d)'
  <2> HIDE DEF ServerPcs, ClientPcs
  <2>1. fds \in [FD -> Sock \cup {None}] /\ Client(d) # None /\ Server(d) # None
    BY <1>1, ProxyAssumption DEF TypeOK, Client, Server, Sock
  <2>2. CASE d # c
    <3>1. th[d].pc \in ClientPcs \ {"failed"} => th[d].cfd \in FD /\ fds[th[d].cfd] = Client(d)
      BY CarryFacts
    <3>2. th[d].pc \in ServerPcs => th[d].sfd \in FD /\ fds[th[d].sfd] = Server(d)
      BY CarryFacts
    <3>3. th[d].pc \in ClientPcs \ {"failed"} => fds'[th[d].cfd] = Client(d)
      BY ONLY <1>2, <1>3, <2>1, <3>1
    <3>4. th[d].pc \in ServerPcs => fds'[th[d].sfd] = Server(d)
      BY ONLY <1>2, <1>3, <2>1, <3>2
    <3> QED BY <1>7, <2>2, <3>3, <3>4 DEF Owns, Client, Server
  <2>3. CASE d = c
    <3>1. fds'[f] = Client(c)
      BY ONLY <1>3, <2>1, f \in FD
    <3> QED BY <1>5, <1>7, <1>8, <2>3, <3>1 DEF Owns, Client, Server
  <2> QED BY <2>2, <2>3
<1>11. Carries(c, r, sock'[Client(c)], sock'[Server(c)], alive')
  BY ONLY <1>3, <1>9
<1>12. th[c].pc \notin LoggedPcs
  BY <1>8
<1> HIDE DEF LoggedPcs
<1> QED BY <1>1, <1>3, <1>5, <1>6, <1>10, <1>11, <1>12, DescStep

LEMMA ConnectStep ==
    ASSUME ProxyInv, CarryInv, ~ clobbered, NEW c \in Conn, Connect(c)
    PROVE  CarryInv'
<1> DEFINE t == th[c]
           cl == sock[Client(c)]
           sv == sock[Server(c)]
<1>1. /\ TypeOK /\ t \in Threads /\ cl \in Streams /\ sv \in Streams /\ alive \in BOOLEAN
      /\ Carries(c, t, cl, sv, alive) /\ th \in [Conn -> Threads] /\ sock \in [Sock -> Streams]
      /\ t.pc \in ClientPcs \ {"failed"} => t.cfd \in FD /\ fds[t.cfd] = Client(c)
      /\ Server(c) \in Sock
  BY CarryFacts
<1>2. t.pc = "connect" /\ log' = log /\ alive' = alive
  BY DEF Connect, At
<1>3. /\ t.pc \in ClientPcs \ {"failed"} /\ t.pc \notin ServerPcs /\ t.pc \notin LoggedPcs
      /\ t.pc \in TakenPcs /\ t.pc \in RelayPcs \ GivenPcs /\ t.pc \in LoopPcs
  BY ONLY <1>2 DEF ClientPcs, ServerPcs, LoggedPcs, TakenPcs, RelayPcs, GivenPcs, LoopPcs, AskingPcs
<1>4. CASE Goto(c, "close") /\ fds' = fds /\ sock' = sock
  <2>1. "close" \in Pcs
    BY DEF Pcs
  <2>2. PICK r \in Threads :
               /\ th' = [th EXCEPT ![c] = r]
               /\ r.cfd = th[c].cfd /\ r.sfd = th[c].sfd /\ r.pc = "close"
               /\ r.cbuf = th[c].cbuf /\ r.sbuf = th[c].sbuf /\ r.line = th[c].line
               /\ r.tot = th[c].tot
    BY ONLY <1>1, <1>4, <2>1, c \in Conn, GotoKeeps
  <2>3. /\ t.pc # "none" /\ r.pc \notin RelayPcs /\ r.pc \notin CountedPcs
        /\ r.pc \notin ServerPcs
    BY ONLY <1>2, <2>2 DEF CountedPcs, RelayPcs, LoopPcs, AskingPcs, TakenPcs, ServerPcs
  <2>4. Carries(c, r, cl, sv, alive)
    BY ONLY <1>1, <2>2, <2>3, c \in Conn, r \in Threads, QuietCarries
  <2>5. Carries(c, r, sock'[Client(c)], sock'[Server(c)], alive')
    BY ONLY <1>2, <1>4, <2>4
  <2> HIDE DEF ClientPcs, ServerPcs, LoggedPcs
  <2> QED BY <1>1, <1>2, <1>3, <1>4, <2>2, <2>3, <2>5, ConnStep
<1>5. CASE /\ FreeFd # {}
           /\ fds' = [fds EXCEPT ![Lowest] = <<"server", c>>]
           /\ sock' = [sock EXCEPT ![<<"server", c>>].peer = "open"]
           /\ th' = [th EXCEPT ![c].pc = "send request", ![c].sfd = Lowest]
  <2>1. PICK f \in FD : f = Lowest /\ fds[f] = None
    BY <1>5, LowestIsFree
  <2> DEFINE r == [t EXCEPT !.pc = "send request", !.sfd = f]
             st == [sv EXCEPT !.peer = "open"]
  <2>2. /\ r \in Threads /\ r.pc = "send request" /\ r.cfd = t.cfd /\ r.sfd = f
        /\ r.cbuf = t.cbuf /\ r.sbuf = t.sbuf /\ r.line = t.line /\ r.tot = t.tot
    BY <1>1, <2>1 DEF Threads, Pcs
  <2>3. th' = [th EXCEPT ![c] = r]
    BY <1>1, <1>5, <2>1 DEF Threads
  <2>4. /\ st \in Streams /\ st.peer = "open" /\ st.in = sv.in /\ st.out = sv.out /\ st.sent = sv.sent
    <3> HIDE DEF sv
    <3> QED BY <1>1 DEF Streams
  <2>5. sock' = [sock EXCEPT ![Server(c)] = st] /\ fds' = [fds EXCEPT ![f] = Server(c)]
    BY <1>1, <1>5, <2>1 DEF Server
  <2> HIDE DEF r, st
  <2>6. /\ sock'[Server(c)] = st /\ sock'[Client(c)] = cl
        /\ \A d \in Conn \ {c} : /\ sock'[Client(d)] = sock[Client(d)]
                                 /\ sock'[Server(d)] = sock[Server(d)]
    BY ONLY <1>1, <2>5, c \in Conn, ServerStep
  <2>7. th'[c] = r /\ \A d \in Conn \ {c} : th'[d] = th[d]
    BY ONLY <1>1, <2>2, <2>3, c \in Conn
  <2>8. /\ r.pc \in TakenPcs /\ r.pc \in RelayPcs \ GivenPcs /\ r.pc # "send crlf" /\ r.pc # "none"
        /\ r.pc \in ClientPcs \ {"failed"} /\ t.pc # "none" /\ t.pc \in CountedPcs
    BY ONLY <1>2, <2>2 DEF CountedPcs, TakenPcs, RelayPcs, GivenPcs, LoopPcs, AskingPcs, ClientPcs, ServerPcs
  <2>9. Carries(c, r, cl, st, alive)
    <3> HIDE DEF AskingPcs, TakenPcs, RelayPcs, GivenPcs, LoopPcs, CountedPcs, t, cl, sv
    <3>1. Asks(c, r, cl, st)
      BY ONLY <1>1, <1>3, <2>2, <2>4, <2>8 DEF Carries, Asks
    <3>2. Answers(c, r, cl, st, alive)
      BY ONLY <1>1, <1>3, <2>2, <2>4, <2>8 DEF Carries, Answers
    <3>3. cl.peer # "none"
      BY ONLY <1>1, <2>8 DEF Carries
    <3> QED BY ONLY <1>1, <2>4, <3>1, <3>2, <3>3 DEF Carries
  <2>10. ASSUME NEW d \in Conn PROVE Owns(d)'
    <3> HIDE DEF ServerPcs, ClientPcs
    <3>1. fds \in [FD -> Sock \cup {None}] /\ Client(d) # None /\ Server(d) # None
      BY <1>1, ProxyAssumption DEF TypeOK, Client, Server, Sock
    <3>2. th[d].pc \in ClientPcs \ {"failed"} => th[d].cfd \in FD /\ fds[th[d].cfd] = Client(d)
      BY CarryFacts
    <3>3. th[d].pc \in ClientPcs \ {"failed"} => fds'[th[d].cfd] = Client(d)
      BY ONLY <2>1, <2>5, <3>1, <3>2
    <3>4. CASE d # c
      <4>1. th[d].pc \in ServerPcs => th[d].sfd \in FD /\ fds[th[d].sfd] = Server(d)
        BY CarryFacts
      <4>2. th[d].pc \in ServerPcs => fds'[th[d].sfd] = Server(d)
        BY ONLY <2>1, <2>5, <3>1, <4>1
      <4> QED BY <2>7, <3>3, <3>4, <4>2 DEF Owns, Client, Server
    <3>5. CASE d = c
      <4>1. fds'[f] = Server(c)
        BY ONLY <2>5, <3>1, f \in FD
      <4>2. fds'[t.cfd] = Client(c)
        BY <1>3, <3>3, <3>5
      <4> QED BY <2>2, <2>7, <3>5, <4>1, <4>2 DEF Owns, Client, Server
    <3> QED BY <3>4, <3>5
  <2>11. Carries(c, r, sock'[Client(c)], sock'[Server(c)], alive')
    BY ONLY <1>2, <2>6, <2>9
  <2>12. th[c].pc \notin LoggedPcs
    BY <1>3
  <2> HIDE DEF LoggedPcs
  <2> QED BY <1>1, <1>2, <2>2, <2>3, <2>6, <2>10, <2>11, <2>12, DescStep
<1> QED BY <1>4, <1>5 DEF Connect

-----------------------------------------------------------------------------
(* The peers. *)

LEMMA PeerStep ==
    ASSUME ProxyInv, CarryInv, ~ clobbered, NEW c \in Conn,
           fds' = fds, log' = log, alive' = alive, th' = th,
           \A d \in Conn \ {c} : /\ sock'[Client(d)] = sock[Client(d)]
                                 /\ sock'[Server(d)] = sock[Server(d)],
           sock'[Client(c)].out = sock[Client(c)].out,
           Carries(c, th[c], sock'[Client(c)], sock'[Server(c)], alive)
    PROVE  CarryInv'
<1>1. TypeOK /\ th[c] \in Threads /\ th \in [Conn -> Threads]
  BY CarryFacts
<1>2. th' = [th EXCEPT ![c] = th[c]]
  BY <1>1
<1> HIDE DEF ServerPcs, ClientPcs, LoggedPcs
<1> QED BY <1>1, <1>2, ConnStep

LEMMA StopCarries ==
    ASSUME NEW c \in Conn, NEW t \in Threads, NEW cl \in Streams, NEW sv \in Streams,
           NEW up \in BOOLEAN, Carries(c, t, cl, sv, up),
           NEW cl2 \in Streams, NEW sv2 \in Streams,
           cl2.in = cl.in, cl2.out = cl.out, cl2.sent = cl.sent,
           sv2.in = sv.in, sv2.out = sv.out, sv2.sent = sv.sent,
           cl2.peer \in {"none", "open"} => cl.peer \in {"none", "open"},
           cl2.peer # "none", cl.peer = "broken" => cl2.peer = "broken",
           sv2.peer = sv.peer \/ (sv.peer = "open" /\ sv2.peer # "open")
    PROVE  Carries(c, t, cl2, sv2, up)
<1> HIDE DEF AskingPcs, TakenPcs, GivenPcs, RelayPcs, LoopPcs, CountedPcs
<1>1. Asks(c, t, cl2, sv2)
  BY DEF Carries, Asks
<1>2. Drained(t, sv) => Drained(t, sv2)
  BY DEF Drained
<1>3. Answers(c, t, cl2, sv2, up)
  BY <1>2 DEF Carries, Answers
<1> QED BY <1>1, <1>3 DEF Carries

LEMMA PeerSteps ==
    ASSUME ProxyInv, CarryInv, ~ clobbered, Peers
    PROVE  CarryInv'
<1>1. /\ fds' = fds /\ log' = log /\ alive' = alive /\ th' = th
  BY DEF Peers, Connects, Sends, Stops
<1>2. CASE \E c \in Conn : Connects(c)
  <2>1. PICK c \in Conn : Connects(c)
    BY <1>2
  <2> DEFINE t == th[c]
             cl == sock[Client(c)]
             sv == sock[Server(c)]
             st == [cl EXCEPT !.peer = "open"]
  <2>2. /\ TypeOK /\ t \in Threads /\ cl \in Streams /\ sv \in Streams /\ alive \in BOOLEAN
        /\ Carries(c, t, cl, sv, alive) /\ sock \in [Sock -> Streams] /\ Client(c) \in Sock
    BY CarryFacts
  <2>3. cl.peer = "none" /\ sock' = [sock EXCEPT ![Client(c)] = st]
    BY <2>1, <2>2 DEF Connects, Client
  <2>4. /\ st \in Streams /\ st.peer = "open" /\ st.in = cl.in /\ st.out = cl.out /\ st.sent = cl.sent
    <3> HIDE DEF cl
    <3> QED BY <2>2 DEF Streams
  <2> HIDE DEF st
  <2>5. /\ sock'[Client(c)] = st /\ sock'[Server(c)] = sv
        /\ \A d \in Conn \ {c} : /\ sock'[Client(d)] = sock[Client(d)]
                                 /\ sock'[Server(d)] = sock[Server(d)]
    BY ONLY <2>2, <2>3, c \in Conn, ClientStep
  <2>6. Carries(c, t, st, sv, alive)
    <3> HIDE DEF t, cl, sv
    <3> QED BY ONLY <2>2, <2>3, <2>4, c \in Conn, StopCarries
  <2>7. Carries(c, th[c], sock'[Client(c)], sock'[Server(c)], alive)
    BY ONLY <2>5, <2>6
  <2>8. sock'[Client(c)].out = sock[Client(c)].out
    BY ONLY <2>4, <2>5
  <2> QED BY <1>1, <2>5, <2>7, <2>8, PeerStep
<1>3. CASE \E s \in Sock, how \in {"shut", "closed", "reset"} : Stops(s, how)
  <2>1. PICK s \in Sock, how \in {"shut", "closed", "reset"} : Stops(s, how)
    BY <1>3
  <2>2. PICK c \in Conn : s = Client(c) \/ s = Server(c)
    BY DEF Sock, Client, Server
  <2> DEFINE t == th[c]
             cl == sock[Client(c)]
             sv == sock[Server(c)]
             st == [sock[s] EXCEPT !.peer = how]
  <2>3. /\ TypeOK /\ t \in Threads /\ cl \in Streams /\ sv \in Streams /\ alive \in BOOLEAN
        /\ Carries(c, t, cl, sv, alive) /\ sock \in [Sock -> Streams]
    BY CarryFacts
  <2>4. sock[s] \in Streams /\ sock[s].peer = "open" /\ sock' = [sock EXCEPT ![s] = st]
    BY <2>1, <2>3 DEF Stops
  <2>5. /\ st \in Streams /\ st.peer = how /\ st.in = sock[s].in /\ st.out = sock[s].out
        /\ st.sent = sock[s].sent /\ how \notin {"none", "open"}
    BY <2>1, <2>4 DEF Streams
  <2> HIDE DEF st
  <2>6. CASE s = Client(c)
    <3>1. /\ sock'[Client(c)] = st /\ sock'[Server(c)] = sv
          /\ \A d \in Conn \ {c} : /\ sock'[Client(d)] = sock[Client(d)]
                                   /\ sock'[Server(d)] = sock[Server(d)]
      BY ONLY <2>3, <2>4, <2>6, c \in Conn, ClientStep
    <3>2. /\ st.in = cl.in /\ st.out = cl.out /\ st.sent = cl.sent /\ st.peer \notin {"none", "open"}
          /\ cl.peer = "open"
      BY ONLY <2>4, <2>5, <2>6
    <3>3. Carries(c, t, st, sv, alive)
      <4> HIDE DEF t, cl, sv
      <4> QED BY ONLY <2>3, <2>5, <3>2, c \in Conn, StopCarries
    <3>4. Carries(c, th[c], sock'[Client(c)], sock'[Server(c)], alive)
      BY ONLY <3>1, <3>3
    <3>5. sock'[Client(c)].out = sock[Client(c)].out
      BY ONLY <3>1, <3>2
    <3> QED BY <1>1, <3>1, <3>4, <3>5, PeerStep
  <2>7. CASE s = Server(c)
    <3>1. /\ sock'[Server(c)] = st /\ sock'[Client(c)] = cl
          /\ \A d \in Conn \ {c} : /\ sock'[Client(d)] = sock[Client(d)]
                                   /\ sock'[Server(d)] = sock[Server(d)]
      BY ONLY <2>3, <2>4, <2>7, c \in Conn, ServerStep
    <3>2. /\ st.in = sv.in /\ st.out = sv.out /\ st.sent = sv.sent /\ st.peer # "open"
          /\ sv.peer = "open"
      BY ONLY <2>4, <2>5, <2>7
    <3>3. Carries(c, t, cl, st, alive)
      <4>1. Asks(c, t, cl, st)
        <5> HIDE DEF t, cl, sv, AskingPcs, TakenPcs
        <5> QED BY ONLY <2>3, <3>2 DEF Carries, Asks
      <4>2. Drained(t, sv) => Drained(t, st)
        BY ONLY <3>2 DEF Drained
      <4>3. Answers(c, t, cl, st, alive)
        <5> HIDE DEF t, cl, sv, RelayPcs, GivenPcs, LoopPcs
        <5> QED BY ONLY <2>3, <3>2, <4>2 DEF Carries, Answers
      <4> HIDE DEF t, cl, sv
      <4> QED BY ONLY <2>3, <3>2, <4>1, <4>3 DEF Carries
    <3>4. Carries(c, th[c], sock'[Client(c)], sock'[Server(c)], alive)
      BY ONLY <3>1, <3>3
    <3>5. sock'[Client(c)].out = sock[Client(c)].out
      BY ONLY <3>1
    <3> QED BY <1>1, <3>1, <3>4, <3>5, PeerStep
  <2> QED BY <2>2, <2>6, <2>7
<1>4. CASE \E s \in Sock : Sends(s)
  <2>1. PICK s \in Sock : Sends(s)
    BY <1>4
  <2>2. PICK c \in Conn : s = Client(c) \/ s = Server(c)
    BY DEF Sock, Client, Server
  <2> DEFINE t == th[c]
             cl == sock[Client(c)]
             sv == sock[Server(c)]
  <2>3. /\ TypeOK /\ t \in Threads /\ cl \in Streams /\ sv \in Streams /\ alive \in BOOLEAN
        /\ Carries(c, t, cl, sv, alive) /\ sock \in [Sock -> Streams]
    BY CarryFacts
  <2>4. sock[s] \in Streams /\ sock[s].peer = "open" /\ sock[s].sent < Len(Script(s))
    BY <2>1, <2>3 DEF Sends
  <2>5. PICK n \in Nat : n = sock[s].sent + 1
    BY <2>4 DEF Streams
  <2>6. PICK q \in Seq(Items) : q = Append(sock[s].in, Item(s, n))
    <3>1. sock[s].in \in Seq(Items)
      BY <2>4 DEF Streams
    <3>2. Item(s, n) \in Items
      BY DEF Item, Items
    <3>3. Append(sock[s].in, Item(s, n)) \in Seq(Items)
      BY ONLY <3>1, <3>2
    <3> QED BY <3>3
  <2> DEFINE st == [sock[s] EXCEPT !.sent = n, !.in = q]
  <2>7. sock' = [sock EXCEPT ![s] = st]
    BY <2>1, <2>3, <2>4, <2>5, <2>6 DEF Sends, Streams
  <2>8. /\ st \in Streams /\ st.peer = sock[s].peer /\ st.out = sock[s].out
        /\ st.sent = sock[s].sent + 1 /\ st.in = Append(sock[s].in, Item(s, sock[s].sent + 1))
    BY <2>4, <2>5, <2>6 DEF Streams
  <2> HIDE DEF st
  <2>9. CASE s = Client(c)
    <3>1. /\ sock'[Client(c)] = st /\ sock'[Server(c)] = sv
          /\ \A d \in Conn \ {c} : /\ sock'[Client(d)] = sock[Client(d)]
                                   /\ sock'[Server(d)] = sock[Server(d)]
      BY ONLY <2>3, <2>7, <2>9, c \in Conn, ClientStep
    <3>2. /\ st.peer = cl.peer /\ st.out = cl.out /\ st.sent = cl.sent + 1
          /\ st.in = Append(cl.in, Item(Client(c), cl.sent + 1)) /\ st \in Streams
          /\ cl.peer = "open" /\ cl.sent < Len(Req[c])
      <4>1. Script(Client(c)) = Req[c]
        BY DEF Script, Client
      <4> QED BY ONLY <2>4, <2>8, <2>9, <4>1
    <3>3. Carries(c, t, st, sv, alive)
      <4> HIDE DEF t, cl, sv
      <4> QED BY ONLY <2>3, <3>2, c \in Conn, ClientSends
    <3>4. Carries(c, th[c], sock'[Client(c)], sock'[Server(c)], alive)
      BY ONLY <3>1, <3>3
    <3>5. sock'[Client(c)].out = sock[Client(c)].out
      BY ONLY <3>1, <3>2
    <3> QED BY <1>1, <3>1, <3>4, <3>5, PeerStep
  <2>10. CASE s = Server(c)
    <3>1. /\ sock'[Server(c)] = st /\ sock'[Client(c)] = cl
          /\ \A d \in Conn \ {c} : /\ sock'[Client(d)] = sock[Client(d)]
                                   /\ sock'[Server(d)] = sock[Server(d)]
      BY ONLY <2>3, <2>7, <2>10, c \in Conn, ServerStep
    <3>2. /\ st.peer = sv.peer /\ st.out = sv.out /\ st.sent = sv.sent + 1
          /\ st.in = Append(sv.in, Item(Server(c), sv.sent + 1)) /\ st \in Streams
          /\ sv.peer = "open" /\ sv.sent < Len(Resp[c])
      <4>1. Script(Server(c)) = Resp[c]
        BY DEF Script, Server
      <4> QED BY ONLY <2>4, <2>8, <2>10, <4>1
    <3>3. Carries(c, t, cl, st, alive)
      <4> HIDE DEF t, cl, sv
      <4> QED BY ONLY <2>3, <3>2, c \in Conn, ServerSends
    <3>4. Carries(c, th[c], sock'[Client(c)], sock'[Server(c)], alive)
      BY ONLY <3>1, <3>3
    <3>5. sock'[Client(c)].out = sock[Client(c)].out
      BY ONLY <3>1
    <3> QED BY <1>1, <3>1, <3>4, <3>5, PeerStep
  <2> QED BY <2>2, <2>9, <2>10
<1> QED BY <1>2, <1>3, <1>4 DEF Peers

-----------------------------------------------------------------------------
(* The invariant of every step. *)

LEMMA InitCarries == Init => CarryInv
<1> SUFFICES ASSUME Init PROVE CarryInv
  OBVIOUS
<1> DEFINE st == [peer |-> "none", sent |-> 0, in |-> <<>>, out |-> <<>>]
           t == [pc |-> "none", cfd |-> 0, sfd |-> 0, cbuf |-> <<>>, sbuf |-> <<>>,
                 line |-> NoItem, reqLen |-> 0, resLen |-> 0, tot |-> 0]
<1>1. \A c \in Conn : th[c] = t /\ sock[Client(c)] = st /\ sock[Server(c)] = st
  BY SocketNames DEF Init
<1>2. /\ st.peer = "none" /\ st.sent = 0 /\ st.in = <<>> /\ st.out = <<>>
      /\ t.pc = "none" /\ t.cbuf = <<>> /\ t.sbuf = <<>> /\ t.tot = 0
  OBVIOUS
<1> HIDE DEF st, t
<1>3. \A c \in Conn : Owns(c)
  BY <1>1, <1>2 DEF Owns, ClientPcs, ServerPcs
<1>4. ASSUME NEW c \in Conn PROVE Carries(c, t, st, st, alive)
  <2>1. Len(Req[c]) \in Nat /\ Len(Resp[c]) \in Nat
    BY ProxyAssumption
  <2>2. Len(<<>>) = 0 /\ \A s : Flow(s, 0, <<>>, <<>>, 0)
    BY DEF Flow
  <2>3. Real(<<>>) = 0 /\ ~ Ended(<<>>)
    BY DEF Real, Ended
  <2>4. t.pc \notin TakenPcs /\ t.pc \notin GivenPcs /\ t.pc # "send crlf"
    BY <1>2 DEF TakenPcs, GivenPcs
  <2>5. Asks(c, t, st, st)
    BY ONLY <1>2, <2>2, <2>4 DEF Asks
  <2>6. Answers(c, t, st, st, alive)
    BY ONLY <1>2, <2>2, <2>3, <2>4 DEF Answers
  <2> QED BY <1>2, <2>1, <2>5, <2>6 DEF Carries
<1>5. DOMAIN log = {}
  BY DEF Init
<1> QED BY <1>1, <1>3, <1>4, <1>5 DEF CarryInv

LEMMA NextCarries == ProxyInv /\ CarryInv /\ [Next]_vars => CarryInv'
<1> SUFFICES ASSUME ProxyInv, CarryInv, [Next]_vars PROVE CarryInv'
  OBVIOUS
<1>1. CASE clobbered
  <2>1. clobbered'
    <3>1. CASE Peers
      BY <1>1, <3>1 DEF Peers, Connects, Sends, Stops
    <3>2. CASE \E c \in Conn : Accept(c)
      BY <1>1, <3>2 DEF Accept
    <3>3. CASE \E c \in Conn : Thread(c)
      <4>1. PICK c \in Conn : Thread(c)
        BY <3>3
      <4>2. CASE GetRequest(c) \/ ReadHeader(c) \/ ReadBody(c) \/ ReadReply(c) \/ ReadContent(c)
        BY <1>1, <4>2 DEF GetRequest, ReadHeader, ReadBody, ReadReply, ReadContent, Read
      <4>3. CASE \/ SendRequest(c) \/ SendHeader(c) \/ SendBody(c) \/ SendReply(c)
                 \/ SendCrlf(c) \/ SendContent(c)
        BY <1>1, <4>3 DEF SendRequest, SendHeader, SendBody, SendReply, SendCrlf, SendContent,
             Send, SendUnchecked
      <4>4. CASE Connect(c)
        BY <1>1, <4>4 DEF Connect
      <4>5. CASE Finish(c) \/ Abort(c) \/ Close(c) \/ CloseAgain(c)
        BY <1>1, <4>5 DEF Finish, Abort, Close, CloseAgain, CloseFd
      <4>6. CASE PeerName(c) \/ P(c) \/ WriteLog(c) \/ V(c)
        BY <1>1, <4>6 DEF PeerName, P, WriteLog, V
      <4> QED BY <4>1, <4>2, <4>3, <4>4, <4>5, <4>6 DEF Thread
    <3>4. CASE UNCHANGED vars
      BY <1>1, <3>4 DEF vars
    <3> QED BY <3>1, <3>2, <3>3, <3>4 DEF Next
  <2> QED BY <2>1 DEF CarryInv
<1>2. CASE ~ clobbered
  <2>1. CASE Peers
    BY <1>2, <2>1, PeerSteps
  <2>2. CASE \E c \in Conn : Accept(c)
    BY <1>2, <2>2, AcceptStep
  <2>3. CASE \E c \in Conn : Thread(c)
    <3>1. PICK c \in Conn : Thread(c)
      BY <2>3
    <3>2. CASE GetRequest(c) \/ ReadHeader(c) \/ ReadBody(c)
      BY <1>2, <3>2, ClientReads
    <3>3. CASE ReadReply(c) \/ ReadContent(c)
      BY <1>2, <3>3, ServerReads
    <3>4. CASE \/ SendRequest(c) \/ SendHeader(c) \/ SendBody(c) \/ SendReply(c)
               \/ SendCrlf(c) \/ SendContent(c)
      BY <1>2, <3>4, SendSteps
    <3>5. CASE Connect(c)
      BY <1>2, <3>5, ConnectStep
    <3>6. CASE Finish(c) \/ Abort(c) \/ Close(c) \/ CloseAgain(c)
      BY <1>2, <3>6, CloseSteps
    <3>7. CASE PeerName(c) \/ P(c) \/ V(c)
      BY <1>2, <3>7, MutexSteps
    <3>8. CASE WriteLog(c)
      BY <1>2, <3>8, LogStep
    <3> QED BY <3>1, <3>2, <3>3, <3>4, <3>5, <3>6, <3>7, <3>8 DEF Thread
  <2>4. CASE UNCHANGED vars
    <3> HIDE DEF ServerPcs, ClientPcs, LoggedPcs
    <3> QED BY <2>4 DEF vars, CarryInv, Owns, Client, Server
  <2> QED BY <2>1, <2>2, <2>3, <2>4 DEF Next
<1> QED BY <1>1, <1>2

LEMMA CarryInvariance == Spec => [](ProxyInv /\ CarryInv)
<1>1. Init => ProxyInv /\ CarryInv
  BY InitInv, InitCarries
<1>2. ProxyInv /\ CarryInv /\ [Next]_vars => (ProxyInv /\ CarryInv)'
  BY NextInv, NextCarries
<1> QED BY <1>1, <1>2, PTL DEF Spec

-----------------------------------------------------------------------------
(* What it says of the two streams and of the log. *)

LEMMA PrefixOf ==
    ASSUME NEW p \in Seq(Items), NEW s \in Sock, NEW m \in Nat, Len(p) <= m,
           \A k \in 1 .. Len(p) : p[k] = Item(s, k)
    PROVE  IsPrefix(p, [n \in 1 .. m |-> Item(s, n)])
<1> DEFINE full == [n \in 1 .. m |-> Item(s, n)]
<1>1. \A n \in 1 .. m : Item(s, n) \in Items
  BY DEF Item, Items
<1>2. full \in Seq(Items) /\ Len(full) = m /\ \A n \in 1 .. m : full[n] = Item(s, n)
  BY <1>1
<1>3. Len(p) \in Nat
  OBVIOUS
<1> HIDE DEF full
<1>4. /\ SubSeq(p, 1, Len(p)) = [k \in 1 .. Len(p) |-> p[k]]
      /\ SubSeq(full, 1, Len(p)) = [k \in 1 .. Len(p) |-> full[k]]
  BY <1>2, <1>3
<1>5. \A k \in 1 .. Len(p) : full[k] = p[k]
  BY <1>2, <1>3
<1> QED BY <1>2, <1>4, <1>5 DEF IsPrefix, full

LEMMA FrontPrefix ==
    ASSUME NEW p \in Seq(Items), p # <<>>, NEW s \in Sock, NEW m \in Nat, Len(p) - 1 <= m,
           \A k \in 1 .. Len(p) - 1 : p[k] = Item(s, k)
    PROVE  IsPrefix(Front(p), [n \in 1 .. m |-> Item(s, n)])
<1>1. Len(p) \in Nat /\ Len(p) >= 1
  OBVIOUS
<1>2. /\ SubSeq(p, 1, Len(p) - 1) \in Seq(Items) /\ Len(SubSeq(p, 1, Len(p) - 1)) = Len(p) - 1
      /\ \A k \in 1 .. Len(p) - 1 : SubSeq(p, 1, Len(p) - 1)[k] = p[k]
  <2>0. Len(p) - 1 \in Nat
    BY ONLY <1>1
  <2>1. PICK n \in Nat : n = Len(p) - 1
    BY ONLY <2>0
  <2>2. n <= Len(p) /\ \A k \in 1 .. n : p[k] \in Items
    BY <1>1, <2>1
  <2>3. /\ SubSeq(p, 1, n) = [k \in 1 .. n |-> p[k]]
    BY <1>1, <2>1, <2>2
  <2>4. [k \in 1 .. n |-> p[k]] \in Seq(Items) /\ Len([k \in 1 .. n |-> p[k]]) = n
    BY <2>2
  <2> QED BY <2>1, <2>3, <2>4
<1> DEFINE q == SubSeq(p, 1, Len(p) - 1)
<1>3. /\ q \in Seq(Items) /\ Len(q) <= m
      /\ \A k \in 1 .. Len(q) : q[k] = Item(s, k)
  BY <1>2
<1> HIDE DEF q
<1>4. IsPrefix(q, [n \in 1 .. m |-> Item(s, n)])
  BY ONLY <1>3, s \in Sock, m \in Nat, PrefixOf
<1> QED BY <1>4 DEF Front, q

(* The items of an output that are not the proxy's own are its first ones. *)
LEMMA RealCount ==
    ASSUME NEW out \in Seq(Items), NEW s \in Sock,
           \A k \in 1 .. Real(out) : out[k] = Item(s, k)
    PROVE  Cardinality({k \in DOMAIN out : out[k] # NoItem}) = Real(out)
<1>1. Len(out) \in Nat /\ DOMAIN out = 1 .. Len(out) /\ (out # <<>> => Len(out) >= 1)
  OBVIOUS
<1>2. Real(out) \in Nat /\ (Real(out) = Len(out) \/ (Real(out) = Len(out) - 1 /\ out[Len(out)] = NoItem))
  <2>1. CASE Ended(out)
    <3>1. Real(out) = Len(out) - 1 /\ out # <<>> /\ out[Len(out)] = NoItem
      BY ONLY <2>1 DEF Real, Ended
    <3> QED BY ONLY <1>1, <3>1
  <2>2. CASE ~ Ended(out)
    BY ONLY <1>1, <2>2 DEF Real
  <2> QED BY <2>1, <2>2
<1>3. \A k \in 1 .. Real(out) : out[k] # NoItem
  BY NoItemIsNone
<1>4. {k \in DOMAIN out : out[k] # NoItem} = 1 .. Real(out)
  BY <1>1, <1>2, <1>3
<1>5. Cardinality(1 .. Real(out)) = Real(out)
  <2>1. 1 \in Int /\ Real(out) \in Int
    BY <1>2
  <2>2. Cardinality(1 .. Real(out)) = IF 1 > Real(out) THEN 0 ELSE Real(out) - 1 + 1
    BY ONLY <2>1, FS_Interval
  <2> QED BY <1>2, <2>2
<1> QED BY <1>4, <1>5

LEMMA CarriesRelays ==
    ASSUME ProxyInv, CarryInv, ~ clobbered
    PROVE  Relays /\ LogCounts
<1>1. ASSUME NEW c \in Conn
      PROVE  /\ Client(c) \in Sock /\ Server(c) \in Sock
             /\ sock[Client(c)].out \in Seq(Items) /\ sock[Server(c)].out \in Seq(Items)
             /\ Len(Req[c]) \in Nat /\ Len(Resp[c]) \in Nat
             /\ sock[Client(c)].sent \in Nat /\ sock[Server(c)].sent \in Nat
             /\ Carries(c, th[c], sock[Client(c)], sock[Server(c)], alive)
  <2>1. /\ sock[Client(c)] \in Streams /\ sock[Server(c)] \in Streams
        /\ Client(c) \in Sock /\ Server(c) \in Sock
        /\ Carries(c, th[c], sock[Client(c)], sock[Server(c)], alive)
    BY CarryFacts
  <2>2. Len(Req[c]) \in Nat /\ Len(Resp[c]) \in Nat
    BY ProxyAssumption
  <2> QED BY <2>1, <2>2, StreamTypes
<1>2. RelaysReply
  <2> SUFFICES ASSUME NEW c \in Conn
               PROVE  LET got == sock[Client(c)].out IN
                        \/ IsPrefix(got, Reply(c))
                        \/ got # <<>> /\ Last(got) = NoItem /\ IsPrefix(Front(got), Reply(c))
    BY DEF RelaysReply, Client
  <2> DEFINE got == sock[Client(c)].out
  <2>1. /\ Real(got) <= sock[Server(c)].sent /\ sock[Server(c)].sent <= Len(Resp[c])
        /\ \A k \in 1 .. Real(got) : got[k] = Item(Server(c), k)
    BY <1>1 DEF Carries, Answers
  <2>2. /\ got \in Seq(Items) /\ Len(got) \in Nat /\ Server(c) \in Sock /\ Len(Resp[c]) \in Nat
        /\ sock[Server(c)].sent \in Nat
    BY <1>1
  <2>3. Reply(c) = [n \in 1 .. Len(Resp[c]) |-> Item(Server(c), n)]
    BY DEF Reply, Server
  <2> HIDE DEF got
  <2>4. CASE Ended(got)
    <3>1. Real(got) = Len(got) - 1 /\ got # <<>> /\ Last(got) = NoItem
      BY <2>4 DEF Real, Ended, Last
    <3>2. Len(got) - 1 <= Len(Resp[c]) /\ \A k \in 1 .. Len(got) - 1 : got[k] = Item(Server(c), k)
      BY ONLY <2>1, <2>2, <3>1
    <3>3. IsPrefix(Front(got), [n \in 1 .. Len(Resp[c]) |-> Item(Server(c), n)])
      BY ONLY <2>2, <3>1, <3>2, FrontPrefix
    <3> QED BY <2>3, <3>1, <3>3 DEF got
  <2>5. CASE ~ Ended(got)
    <3>1. Real(got) = Len(got)
      BY <2>5 DEF Real
    <3>2. Len(got) <= Len(Resp[c]) /\ \A k \in 1 .. Len(got) : got[k] = Item(Server(c), k)
      BY ONLY <2>1, <2>2, <3>1
    <3>3. IsPrefix(got, [n \in 1 .. Len(Resp[c]) |-> Item(Server(c), n)])
      BY ONLY <2>2, <3>2, PrefixOf
    <3> QED BY <2>3, <3>3 DEF got
  <2> QED BY <2>4, <2>5
<1>3. RelaysRequest
  <2> SUFFICES ASSUME NEW c \in Conn, sock[Client(c)].peer = "open"
               PROVE  IsPrefix(sock[Server(c)].out, Request(c))
    BY DEF RelaysRequest, Client, Server
  <2> DEFINE got == sock[Server(c)].out
  <2>1. /\ Len(got) <= sock[Client(c)].sent /\ sock[Client(c)].sent <= Len(Req[c])
        /\ \A k \in 1 .. Len(got) : got[k] = Item(Client(c), k)
    BY <1>1 DEF Carries, Asks
  <2>2. /\ got \in Seq(Items) /\ Len(got) \in Nat /\ Client(c) \in Sock /\ Len(Req[c]) \in Nat
        /\ sock[Client(c)].sent \in Nat
    BY <1>1
  <2>3. Request(c) = [n \in 1 .. Len(Req[c]) |-> Item(Client(c), n)]
    BY DEF Request, Client
  <2> HIDE DEF got
  <2>4. Len(got) <= Len(Req[c])
    BY ONLY <2>1, <2>2
  <2>5. IsPrefix(got, [n \in 1 .. Len(Req[c]) |-> Item(Client(c), n)])
    BY ONLY <2>1, <2>2, <2>4, PrefixOf
  <2> QED BY <2>3, <2>5 DEF got
<1>4. LogCounts
  <2> SUFFICES ASSUME NEW i \in DOMAIN log
               PROVE  LET got == sock[Client(log[i].conn)].out IN
                        log[i].size = Cardinality({k \in DOMAIN got : got[k] # NoItem})
    BY DEF LogCounts, Client
  <2>1. log[i].conn \in Conn
    <3>1. log \in Seq([conn : Conn, size : Nat])
      BY DEF ProxyInv, TypeOK
    <3>2. log[i] \in [conn : Conn, size : Nat]
      BY ONLY <3>1, i \in DOMAIN log, SeqElement
    <3> QED BY ONLY <3>2
  <2>2. PICK c \in Conn : c = log[i].conn
    BY <2>1
  <2> DEFINE got == sock[Client(c)].out
  <2>3. log[i].size = Real(got)
    BY <2>2 DEF CarryInv
  <2>4. got \in Seq(Items) /\ Server(c) \in Sock /\ \A k \in 1 .. Real(got) : got[k] = Item(Server(c), k)
    BY <1>1 DEF Carries, Answers
  <2> HIDE DEF got
  <2>5. Cardinality({k \in DOMAIN got : got[k] # NoItem}) = Real(got)
    BY ONLY <2>4, RealCount
  <2> QED BY <2>2, <2>3, <2>5 DEF got
<1> QED BY <1>2, <1>3, <1>4 DEF Relays

(* However many threads run and whatever their peers do, until a thread    *)
(* has closed a socket of another one every server is sent its client's    *)
(* request and every client its server's reply, in order and nothing       *)
(* twice, the log has the size of the reply, and no descriptor is left     *)
(* open (main, thread, doThings, sendM).                                   *)
THEOREM KeptApart == Spec => []Isolation
<1>1. ProxyInv /\ CarryInv /\ NoDescriptorLeft => Isolation
  BY CarriesRelays DEF Isolation
<1> QED BY <1>1, CarryInvariance, NoneLeftOpen, PTL

-----------------------------------------------------------------------------
(* One connection at a time: a descriptor that is closed for the second    *)
(* time cannot have been given to another thread.                          *)

Over == {"none", "done", "failed"}
SerialInv ==
    /\ ~ clobbered
    /\ \A c, d \in Conn : th[c].pc \notin Over /\ th[d].pc \notin Over => c = d
    /\ \A c \in Conn : th[c].pc = "return" => fds[th[c].cfd] = None

LEMMA ThreadFrame ==
    ASSUME TypeOK, NEW c \in Conn, Thread(c)
    PROVE  /\ th[c].pc \notin Over
           /\ \A d \in Conn \ {c} : th'[d] = th[d]
<1>1. th \in [Conn -> Threads]
  BY DEF TypeOK
<1>2. CASE GetRequest(c) \/ ReadHeader(c) \/ ReadBody(c) \/ ReadReply(c) \/ ReadContent(c)
  BY <1>1, <1>2 DEF GetRequest, ReadHeader, ReadBody, ReadReply, ReadContent, Read, At, Over
<1>3. CASE \/ SendRequest(c) \/ SendHeader(c) \/ SendBody(c) \/ SendReply(c)
           \/ SendCrlf(c) \/ SendContent(c)
  BY <1>1, <1>3 DEF SendRequest, SendHeader, SendBody, SendReply, SendCrlf, SendContent,
       Send, SendUnchecked, At, Over
<1>4. CASE Connect(c)
  BY <1>1, <1>4 DEF Connect, Goto, At, Over
<1>5. CASE Finish(c) \/ Abort(c) \/ Close(c) \/ CloseAgain(c)
  BY <1>1, <1>5 DEF Finish, Abort, Close, CloseAgain, Goto, At, Over
<1>6. CASE PeerName(c) \/ P(c) \/ WriteLog(c) \/ V(c)
  BY <1>1, <1>6 DEF PeerName, P, WriteLog, V, Goto, At, Over
<1> QED BY <1>2, <1>3, <1>4, <1>5, <1>6 DEF Thread

LEMMA SerialThread ==
    ASSUME ProxyInv, CarryInv, SerialInv, NEW c \in Conn, Thread(c)
    PROVE  SerialInv'
<1>1. TypeOK /\ th \in [Conn -> Threads] /\ fds \in [FD -> Sock \cup {None}] /\ ~ clobbered
  BY DEF ProxyInv, TypeOK, SerialInv
<1>2. /\ th[c].pc \notin Over
      /\ \A d \in Conn \ {c} : th'[d] = th[d]
  BY <1>1, ThreadFrame
<1>3. \A d \in Conn \ {c} : th'[d].pc \in Over
  BY <1>2 DEF SerialInv
<1>4. \A a, b \in Conn : th'[a].pc \notin Over /\ th'[b].pc \notin Over => a = b
  BY <1>3
<1>5. ~ clobbered' /\ (th'[c].pc = "return" => fds'[th'[c].cfd] = None)
  <2>1. CASE GetRequest(c) \/ ReadHeader(c) \/ ReadBody(c) \/ ReadReply(c) \/ ReadContent(c)
             \/ SendRequest(c) \/ SendHeader(c) \/ SendBody(c) \/ SendReply(c)
             \/ SendCrlf(c) \/ SendContent(c)
    <3>1. Moves(c)
      BY <2>1, ReadMoves, SendMoves
    <3>2. PICK r \in Threads : th' = [th EXCEPT ![c] = r] /\ r.pc \in ClientPcs
      BY <3>1 DEF Moves
    <3>3. th'[c].pc # "return"
      BY <1>1, <3>2 DEF ClientPcs, ServerPcs
    <3> QED BY <1>1, <3>1, <3>3 DEF Moves
  <2>2. CASE Connect(c)
    <3>1. th'[c].pc \in {"send request", "close"}
      <4>1. th[c] \in Threads
        BY <1>1
      <4> QED BY <1>1, <2>2, <4>1 DEF Connect, Goto, Threads
    <3> QED BY <1>1, <2>2, <3>1 DEF Connect
  <2>3. CASE PeerName(c) \/ P(c) \/ WriteLog(c) \/ V(c)
    <3>1. th'[c].pc \in {"wait", "print", "signal", "close"}
      <4>1. th[c] \in Threads
        BY <1>1
      <4> QED BY <1>1, <2>3, <4>1 DEF PeerName, P, WriteLog, V, Goto, Threads
    <3> QED BY <1>1, <2>3, <3>1 DEF PeerName, P, WriteLog, V
  <2>4. CASE Finish(c) \/ Abort(c)
    <3>1. /\ CloseFd(c, th[c].sfd) /\ th[c].pc \in ServerPcs
          /\ Goto(c, "peername") \/ Goto(c, "close")
      BY <2>4 DEF Finish, Abort, At, ServerPcs
    <3>2. fds[th[c].sfd] = Server(c)
      BY <1>1, <3>1, CarryFacts
    <3>3. ~ clobbered'
      <4>1. fds[th[c].sfd][2] = c
        BY <3>2 DEF Server
      <4> QED BY ONLY <1>1, <3>1, <4>1 DEF CloseFd
    <3>4. th'[c].pc # "return"
      BY <1>1, <3>1 DEF Goto, Threads
    <3> QED BY <3>3, <3>4
  <2>5. CASE Close(c)
    <3>1. /\ CloseFd(c, th[c].cfd) /\ Goto(c, "return") /\ th[c].pc = "close"
      BY <2>5 DEF Close, At
    <3>2. th[c].cfd \in FD /\ fds[th[c].cfd] = Client(c)
      BY <1>1, <3>1, CarryFacts DEF ClientPcs
    <3>3. ~ clobbered'
      <4>1. fds[th[c].cfd][2] = c
        BY <3>2 DEF Client
      <4> QED BY ONLY <1>1, <3>1, <4>1 DEF CloseFd
    <3>4. th'[c].cfd = th[c].cfd
      BY <1>1, <3>1 DEF Goto, Threads
    <3>5. fds'[th[c].cfd] = None
      BY <1>1, <3>1, <3>2 DEF CloseFd
    <3> QED BY <3>3, <3>4, <3>5
  <2>6. CASE CloseAgain(c)
    <3>1. /\ CloseFd(c, th[c].cfd) /\ Goto(c, "done") /\ th[c].pc = "return"
      BY <2>6 DEF CloseAgain, At
    <3>2. fds[th[c].cfd] = None
      BY <3>1 DEF SerialInv
    <3>3. ~ clobbered'
      BY <1>1, <3>1, <3>2 DEF CloseFd
    <3>4. th'[c].pc # "return"
      BY <1>1, <3>1 DEF Goto, Threads
    <3> QED BY <3>3, <3>4
  <2> QED BY <2>1, <2>2, <2>3, <2>4, <2>5, <2>6 DEF Thread
<1>6. ASSUME NEW d \in Conn, th'[d].pc = "return" PROVE fds'[th'[d].cfd] = None
  <2>1. d = c
    BY <1>3, <1>6 DEF Over
  <2> QED BY <1>5, <1>6, <2>1
<1> QED BY <1>4, <1>5, <1>6 DEF SerialInv

LEMMA SerialStep ==
    ProxyInv /\ CarryInv /\ SerialInv /\ [SerialNext]_vars => SerialInv'
<1> SUFFICES ASSUME ProxyInv, CarryInv, SerialInv, [SerialNext]_vars PROVE SerialInv'
  OBVIOUS
<1>1. CASE \E c \in Conn : Thread(c)
  BY <1>1, SerialThread
<1>2. CASE \E c \in Conn : Quiet /\ Accept(c)
  <2>1. PICK c \in Conn : Quiet /\ Accept(c)
    BY <1>2
  <2>2. th \in [Conn -> Threads] /\ \A d \in Conn : th[d].pc \in Over
    BY <2>1 DEF Quiet, Over, ProxyInv, TypeOK
  <2>3. clobbered' = clobbered /\ \A d \in Conn \ {c} : th'[d] = th[d]
    BY <2>1, <2>2 DEF Accept
  <2>4. th'[c].pc \in {"request", "failed"}
    <3>1. th[c] \in Threads
      BY <2>2
    <3> QED BY <2>1, <2>2, <3>1 DEF Accept, Threads
  <2>5. \A d \in Conn : th'[d].pc # "return"
    BY <2>2, <2>3, <2>4 DEF Over
  <2>6. \A a, b \in Conn : th'[a].pc \notin Over /\ th'[b].pc \notin Over => a = b
    BY <2>2, <2>3
  <2> QED BY <2>3, <2>5, <2>6 DEF SerialInv
<1>3. CASE Peers
  <2>1. fds' = fds /\ th' = th /\ clobbered' = clobbered
    BY <1>3 DEF Peers, Connects, Sends, Stops
  <2> QED BY <2>1 DEF SerialInv
<1>4. CASE UNCHANGED vars
  <2>1. fds' = fds /\ th' = th /\ clobbered' = clobbered
    BY <1>4 DEF vars
  <2> QED BY <2>1 DEF SerialInv
<1> QED BY <1>1, <1>2, <1>3, <1>4 DEF SerialNext

LEMMA SerialInvariance == SerialSpec => [](ProxyInv /\ CarryInv /\ SerialInv)
<1>1. Init => ProxyInv /\ CarryInv
  BY InitInv, InitCarries
<1>2. Init => SerialInv
  <2> SUFFICES ASSUME Init PROVE SerialInv
    OBVIOUS
  <2>1. ~ clobbered /\ \A c \in Conn : th[c].pc = "none"
    BY DEF Init
  <2> QED BY <2>1 DEF SerialInv, Over
<1>3. [SerialNext]_vars => [Next]_vars
  BY DEF SerialNext, Next
<1>4. /\ ProxyInv /\ CarryInv /\ SerialInv /\ [SerialNext]_vars =>
           (ProxyInv /\ CarryInv /\ SerialInv)'
  BY <1>3, NextInv, NextCarries, SerialStep
<1> QED BY <1>1, <1>2, <1>4, PTL DEF SerialSpec

(* When main takes the next connection after the last has ended, each      *)
(* connection carries what its own two peers have sent, in order and       *)
(* nothing twice, whatever the peers do (doThings, sendM).                 *)
THEOREM SerialRelays == SerialSpec => []Relays
<1>1. ProxyInv /\ CarryInv /\ SerialInv => Relays
  BY CarriesRelays DEF SerialInv
<1> QED BY <1>1, SerialInvariance, PTL

(* ... and the log has the size of what the client was given (doThings,    *)
(* sendM's totSize).                                                       *)
THEOREM SerialLogCounts == SerialSpec => []LogCounts
<1>1. ProxyInv /\ CarryInv /\ SerialInv => LogCounts
  BY CarriesRelays DEF SerialInv
<1> QED BY <1>1, SerialInvariance, PTL
=============================================================================
