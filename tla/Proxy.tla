-------------------------------- MODULE Proxy --------------------------------
(***************************************************************************)
(* The web proxy of icslabs/lab10/proxy.c: a thread for every connection,  *)
(* which forwards one request to a server and the reply to the client.     *)
(* The threads share the table of file descriptors, the mutex of the log,  *)
(* and the process, which a write to a connection that is broken ends      *)
(* (SIGPIPE is not ignored).                                               *)
(*                                                                         *)
(* A step of a thread is one system call on a descriptor.                  *)
(*                                                                         *)
(* Abstractions: a message is a sequence of lines and body bytes, of which *)
(* only the kind is known; Content-Length is 1; peers stop between two     *)
(* items; a write never blocks; socket and connect are one step.           *)
(***************************************************************************)
EXTENDS Integers, Sequences, FiniteSets, SequencesExt

CONSTANTS Conn,         \* the connections clients make
          FD,           \* descriptors free when the proxy starts
          Req, Resp,    \* [Conn -> sequence of kinds]: what the peers send
          MayStop,      \* sockets whose peer may stop before it has sent all
          MaxFail,      \* bound: number of times pthread_create fails
          MaxOut,       \* bound: header lines are forwarded up to this many items
          None

Sock == {"client", "server"} \X Conn

(* Only a well-formed request line, for a URI parse_uri accepts, is a      *)
(* "request"; "length" is a Content-Length line.                           *)
Kinds == {"request", "bad", "status", "header", "length", "blank", "byte"}

ASSUME ProxyAssumption ==
    /\ FD \subseteq Nat /\ None \notin Sock
    /\ Req \in [Conn -> Seq(Kinds)] /\ Resp \in [Conn -> Seq(Kinds)]
    /\ MayStop \subseteq Sock /\ MaxFail \in Nat /\ MaxOut \in Nat

VARIABLES
    fds,        \* [FD -> the socket open there, or None]
    sock,       \* [Sock -> [peer, sent, in, out]]
    th,         \* [Conn -> the thread's pc and local variables]
    mutex,      \* the semaphore of the log
    log,        \* entries written: [conn, size]
    fails,      \* times pthread_create has failed
    alive,      \* the process has not been killed
    clobbered   \* history: a thread has closed a socket of another one

vars == <<fds, sock, th, mutex, log, fails, alive, clobbered>>

(* Item n a peer sends on socket s; item 0 is the proxy's own "\r\n".      *)
Item(s, n) == [from |-> s, n |-> n]
Kind(x) ==
    IF x.n = 0 THEN "blank"
    ELSE IF x.from[1] = "client" THEN Req[x.from[2]][x.n]
    ELSE Resp[x.from[2]][x.n]
Script(s) == IF s[1] = "client" THEN Req[s[2]] ELSE Resp[s[2]]

NoItem == Item(None, 0)

Init ==
    /\ fds = [f \in FD |-> None]
    /\ sock = [s \in Sock |-> [peer |-> "none", sent |-> 0, in |-> <<>>, out |-> <<>>]]
    /\ th = [c \in Conn |-> [pc |-> "none", cfd |-> 0, sfd |-> 0, cbuf |-> <<>>,
                             sbuf |-> <<>>, line |-> NoItem, reqLen |-> 0,
                             resLen |-> 0, tot |-> 0]]
    /\ mutex = 1
    /\ log = <<>>
    /\ fails = 0 /\ alive = TRUE /\ clobbered = FALSE

-----------------------------------------------------------------------------
(* System calls on a descriptor, whichever socket it now stands for.       *)

FreeFd == {f \in FD : fds[f] = None}
Lowest == CHOOSE f \in FreeFd : \A g \in FreeFd : f <= g

(* rio: a read takes all that has arrived into the thread's buffer.  After *)
(* a reset the next call on the socket reports it; then it reads as ended. *)
Arrived(fd) == IF fds[fd] = None THEN <<>> ELSE sock[fds[fd]].in
Peer(fd) == IF fds[fd] = None THEN "reset" ELSE sock[fds[fd]].peer
Got(fd, buf) == IF buf # <<>> THEN buf ELSE Arrived(fd)
Blocked(fd, buf) == Got(fd, buf) = <<>> /\ Peer(fd) = "open"
Result(fd, buf) ==
    IF Got(fd, buf) # <<>> THEN "data" ELSE IF Peer(fd) = "reset" THEN "error" ELSE "eof"
Drain(fd, buf) ==
    sock' = IF buf = <<>> /\ fds[fd] # None
            THEN [sock EXCEPT ![fds[fd]].in = <<>>,
                              ![fds[fd]].peer = IF Result(fd, buf) = "error"
                                                THEN "broken" ELSE @]
            ELSE sock

(* Writing to a peer that has closed makes it break the connection; once it*)
(* is broken, or a reset has been reported, a write raises SIGPIPE.  The   *)
(* one that reports a reset fails with ECONNRESET and raises nothing.      *)
CanWrite(fd) == fds[fd] # None /\ Peer(fd) \notin {"reset", "broken"}
Kills(fd) == fds[fd] # None /\ Peer(fd) = "broken"
Write(fd, x) ==
    /\ alive' = ~Kills(fd)
    /\ sock' = IF CanWrite(fd)
               THEN [sock EXCEPT ![fds[fd]].out = Append(@, x),
                                 ![fds[fd]].peer = IF @ = "closed" THEN "broken" ELSE @]
               ELSE IF fds[fd] # None THEN [sock EXCEPT ![fds[fd]].peer = "broken"]
               ELSE sock

(* close(fd) by the thread of c. *)
CloseFd(c, fd) ==
    /\ fds' = [fds EXCEPT ![fd] = None]
    /\ clobbered' = (clobbered \/ (fds[fd] # None /\ fds[fd][2] # c))

-----------------------------------------------------------------------------
(* main *)

Waiting(c) == sock[<<"client", c>>].peer # "none" /\ th[c].pc = "none"

(* Mutant: the descriptor is passed in a variable of main.                 *)
AcceptShared(c) ==
    /\ alive /\ Waiting(c) /\ FreeFd # {}
    /\ fds' = [fds EXCEPT ![Lowest] = <<"client", c>>]
    /\ th' = [d \in Conn |->
                IF d = c THEN [th[d] EXCEPT !.pc = "request", !.cfd = Lowest]
                ELSE IF th[d].pc = "request" THEN [th[d] EXCEPT !.cfd = Lowest]
                ELSE th[d]]
    /\ UNCHANGED <<sock, mutex, log, fails, alive, clobbered>>
Accept(c) ==
    /\ alive /\ Waiting(c) /\ FreeFd # {}
    /\ fds' = [fds EXCEPT ![Lowest] = <<"client", c>>]
    /\ \/ /\ th' = [th EXCEPT ![c].pc = "request", ![c].cfd = Lowest]
          /\ UNCHANGED fails
       \/ /\ fails < MaxFail            \* pthread_create fails
          /\ fails' = fails + 1
          /\ th' = [th EXCEPT ![c].pc = "failed", ![c].cfd = Lowest]
    /\ UNCHANGED <<sock, mutex, log, alive, clobbered>>

-----------------------------------------------------------------------------
(* thread, doThings, sendM *)

At(c, pc) == alive /\ th[c].pc = pc
Goto(c, pc) == th' = [th EXCEPT ![c].pc = pc]

(* Read the next line or byte from the client or the server: go on to      *)
(* `data' with it, to `eof' or to `error'; wait if there is nothing.       *)
Read(c, fd, buf, data, eof, error) ==
    LET got == Got(th[c][fd], th[c][buf])
        result == Result(th[c][fd], th[c][buf])
    IN  /\ ~Blocked(th[c][fd], th[c][buf])
        /\ Drain(th[c][fd], th[c][buf])
        /\ th' = [th EXCEPT ![c] =
                    CASE result = "data" -> [@ EXCEPT !.pc = data, !.line = Head(got),
                                                      ![buf] = Tail(got)]
                      [] result = "eof"   -> [@ EXCEPT !.pc = eof]
                      [] result = "error" -> [@ EXCEPT !.pc = error]]
        /\ UNCHANGED <<fds, mutex, log, fails, alive, clobbered>>

(* Write x; the thread goes on as `next', or aborts.                       *)
Send(c, fd, x, next) ==
    /\ Write(th[c][fd], x)
    /\ th' = [th EXCEPT ![c] = IF CanWrite(th[c][fd]) THEN next
                               ELSE [th[c] EXCEPT !.pc = "abort"]]
    /\ UNCHANGED <<fds, mutex, log, fails, clobbered>>

(* Write x, and do not look whether that fails.                            *)
SendUnchecked(c, fd, x, next) ==
    /\ Write(th[c][fd], x)
    /\ th' = [th EXCEPT ![c] = next]
    /\ UNCHANGED <<fds, mutex, log, fails, clobbered>>

(* doThings: read the request line. *)
GetRequest(c) ==
    /\ At(c, "request")
    /\ Read(c, "cfd", "cbuf", "connect", "close", "close")

(* doThings and sendM: parse it, connect, forward the request line, ...    *)
Connect(c) ==
    /\ At(c, "connect")
    /\ \/ /\ Kind(th[c].line) = "request" /\ FreeFd # {}
          /\ fds' = [fds EXCEPT ![Lowest] = <<"server", c>>]
          /\ sock' = [sock EXCEPT ![<<"server", c>>].peer = "open"]
          /\ th' = [th EXCEPT ![c].pc = "send request", ![c].sfd = Lowest]
       \/ /\ Goto(c, "close")           \* bad request, no descriptor, no such server
          /\ UNCHANGED <<fds, sock>>
    /\ UNCHANGED <<mutex, log, fails, alive, clobbered>>

SendRequest(c) ==
    /\ At(c, "send request")
    /\ Send(c, "sfd", th[c].line, [th[c] EXCEPT !.pc = "header"])

(* A header line has been sent on: the loop ends after the blank line.     *)
AfterHeader(t, len, again, body, end) ==
    LET n == IF Kind(t.line) = "length" THEN 1 ELSE t[len]
    IN  [t EXCEPT ![len] = n,
                  !.pc = IF Kind(t.line) # "blank" THEN again
                         ELSE IF n > 0 THEN body ELSE end]

(* ... its headers (at the end of the client's input the line read before  *)
(* is still in buf, and is sent once more), ...                            *)
ReadHeader(c) ==
    /\ At(c, "header")
    /\ Read(c, "cfd", "cbuf", "send header", "send header", "abort")
SendHeader(c) ==
    /\ At(c, "send header")
    /\ Len(sock[<<"server", c>>].out) < MaxOut
    /\ Send(c, "sfd", th[c].line, AfterHeader(th[c], "reqLen", "header", "body", "reply"))

(* ... and its body.                                                       *)
ReadBody(c) ==
    /\ At(c, "body")
    /\ Read(c, "cfd", "cbuf", "send body", "reply", "abort")
SendBody(c) ==
    /\ At(c, "send body")
    /\ SendUnchecked(c, "sfd", th[c].line, [th[c] EXCEPT !.pc = "reply"])

(* Then the reply: its headers, ended with "\r\n" if the server stops      *)
(* early, ...                                                              *)
ReadReply(c) ==
    /\ At(c, "reply")
    /\ Read(c, "sfd", "sbuf", "send reply", "send crlf", "abort")
SendReply(c) ==
    /\ At(c, "send reply")
    /\ Send(c, "cfd", th[c].line,
            AfterHeader([th[c] EXCEPT !.tot = @ + 1], "resLen", "reply", "content", "finish"))
(* Mutant: the loop is not left there.                                     *)
SendCrlfAgain(c) ==
    /\ At(c, "send crlf")
    /\ SendUnchecked(c, "cfd", NoItem, [th[c] EXCEPT !.pc = "reply"])
SendCrlf(c) ==
    /\ At(c, "send crlf")
    /\ SendUnchecked(c, "cfd", NoItem,
                     [th[c] EXCEPT !.pc = IF th[c].resLen > 0 THEN "content" ELSE "finish"])

(* ... and its body, each byte counted.                                    *)
ReadContent(c) ==
    /\ At(c, "content")
    /\ Read(c, "sfd", "sbuf", "send content", "finish", "abort")
(* Mutant: the body is not counted.                                        *)
SendContentUncounted(c) ==
    /\ At(c, "send content")
    /\ SendUnchecked(c, "cfd", th[c].line, [th[c] EXCEPT !.pc = "finish"])
SendContent(c) ==
    /\ At(c, "send content")
    /\ SendUnchecked(c, "cfd", th[c].line,
                     [th[c] EXCEPT !.pc = "finish", !.tot = @ + 1])

(* The end of sendM: with the reply, or without one (-1).                  *)
Finish(c) ==
    /\ At(c, "finish")
    /\ CloseFd(c, th[c].sfd)
    /\ Goto(c, "peername")
    /\ UNCHANGED <<sock, mutex, log, fails, alive>>
(* Mutant: the connection to the server is forgotten.                      *)
AbortLeaks(c) ==
    /\ At(c, "abort")
    /\ Goto(c, "close")
    /\ UNCHANGED <<fds, sock, mutex, log, fails, alive, clobbered>>
Abort(c) ==
    /\ At(c, "abort")
    /\ CloseFd(c, th[c].sfd)
    /\ Goto(c, "close")
    /\ UNCHANGED <<sock, mutex, log, fails, alive>>

(* doThings: the address of the client, and the entry of the log.          *)
PeerName(c) ==
    /\ At(c, "peername")
    /\ Goto(c, IF Peer(th[c].cfd) \in {"reset", "broken"} THEN "close" ELSE "wait")
    /\ UNCHANGED <<fds, sock, mutex, log, fails, alive, clobbered>>

(* Mutant: the log is written without the mutex.                           *)
PUnlocked(c) ==
    /\ At(c, "wait")
    /\ Goto(c, "print")
    /\ UNCHANGED <<fds, sock, mutex, log, fails, alive, clobbered>>
P(c) ==
    /\ At(c, "wait") /\ mutex > 0
    /\ mutex' = mutex - 1
    /\ Goto(c, "print")
    /\ UNCHANGED <<fds, sock, log, fails, alive, clobbered>>

WriteLog(c) ==
    /\ At(c, "print")
    /\ log' = Append(log, [conn |-> c, size |-> th[c].tot])
    /\ Goto(c, "signal")
    /\ UNCHANGED <<fds, sock, mutex, fails, alive, clobbered>>

(* Mutant: the mutex is kept.                                              *)
VForgotten(c) ==
    /\ At(c, "signal")
    /\ Goto(c, "close")
    /\ UNCHANGED <<fds, sock, mutex, log, fails, alive, clobbered>>
V(c) ==
    /\ At(c, "signal")
    /\ mutex' = mutex + 1
    /\ Goto(c, "close")
    /\ UNCHANGED <<fds, sock, log, fails, alive, clobbered>>

(* The connection is closed by doThings, and once more by thread.          *)
Close(c) ==
    /\ At(c, "close")
    /\ CloseFd(c, th[c].cfd)
    /\ Goto(c, "return")
    /\ UNCHANGED <<sock, mutex, log, fails, alive>>
CloseAgain(c) ==
    /\ At(c, "return")
    /\ CloseFd(c, th[c].cfd)
    /\ Goto(c, "done")
    /\ UNCHANGED <<sock, mutex, log, fails, alive>>

-----------------------------------------------------------------------------
(* The peers. *)

Connects(c) ==
    LET s == <<"client", c>> IN
    /\ sock[s].peer = "none"
    /\ sock' = [sock EXCEPT ![s].peer = "open"]
    /\ UNCHANGED <<fds, th, mutex, log, fails, alive, clobbered>>

(* The next line or byte.  A server replies to a whole request.            *)
Sends(s) ==
    /\ sock[s].peer = "open" /\ sock[s].sent < Len(Script(s))
    /\ s[1] = "server" =>
         th[s[2]].pc \in {"reply", "send reply", "content", "send content"}
    /\ sock' = [sock EXCEPT ![s].sent = @ + 1,
                            ![s].in = Append(@, Item(s, sock[s].sent + 1))]
    /\ UNCHANGED <<fds, th, mutex, log, fails, alive, clobbered>>

(* It stops sending, or is gone.                                           *)
Stops(s, how) ==
    /\ sock[s].peer = "open"
    /\ s \in MayStop \/ sock[s].sent = Len(Script(s))
    /\ sock' = [sock EXCEPT ![s].peer = how]
    /\ UNCHANGED <<fds, th, mutex, log, fails, alive, clobbered>>

-----------------------------------------------------------------------------
Thread(c) ==
    \/ GetRequest(c) \/ Connect(c) \/ SendRequest(c) \/ ReadHeader(c) \/ SendHeader(c)
    \/ ReadBody(c) \/ SendBody(c) \/ ReadReply(c) \/ SendReply(c) \/ SendCrlf(c)
    \/ ReadContent(c) \/ SendContent(c) \/ Finish(c) \/ Abort(c) \/ PeerName(c)
    \/ P(c) \/ WriteLog(c) \/ V(c) \/ Close(c) \/ CloseAgain(c)

Peers ==
    \/ \E c \in Conn : Connects(c)
    \/ \E s \in Sock : Sends(s) \/ \E how \in {"shut", "closed", "reset"} : Stops(s, how)

Next == (\E c \in Conn : Accept(c) \/ Thread(c)) \/ Peers

Spec == Init /\ [][Next]_vars

(* One connection at a time.                                               *)
Quiet == \A c \in Conn : th[c].pc \in {"none", "done", "failed"}
SerialNext == (\E c \in Conn : (Quiet /\ Accept(c)) \/ Thread(c)) \/ Peers
SerialSpec == Init /\ [][SerialNext]_vars

-----------------------------------------------------------------------------
Pcs == {"none", "failed", "request", "connect", "send request", "header", "send header",
        "body", "send body", "reply", "send reply", "send crlf", "content",
        "send content", "finish", "abort", "peername", "wait", "print", "signal",
        "close", "return", "done"}

Items == [from : Sock \cup {None}, n : Nat]
Streams == [peer : {"none", "open", "shut", "closed", "reset", "broken"}, sent : Nat,
            in : Seq(Items), out : Seq(Items)]
Threads == [pc : Pcs, cfd : FD \cup {0}, sfd : FD \cup {0}, cbuf : Seq(Items),
            sbuf : Seq(Items), line : Items, reqLen : 0 .. 1, resLen : 0 .. 1, tot : Nat]

TypeOK ==
    /\ fds \in [FD -> Sock \cup {None}]
    /\ sock \in [Sock -> Streams]
    /\ th \in [Conn -> Threads]
    /\ mutex \in 0 .. 1
    /\ log \in Seq([conn : Conn, size : Nat])
    /\ fails \in Nat /\ alive \in BOOLEAN /\ clobbered \in BOOLEAN

Request(c) == [n \in 1 .. Len(Req[c]) |-> Item(<<"client", c>>, n)]
Reply(c) == [n \in 1 .. Len(Resp[c]) |-> Item(<<"server", c>>, n)]

(* The client of a connection receives its server's reply from the start,  *)
(* in order, nothing twice, with at most a "\r\n" after it (sendM).        *)
RelaysReply ==
    \A c \in Conn : LET got == sock[<<"client", c>>].out IN
        IsPrefix(got, Reply(c)) \/ (got # <<>> /\ Last(got) = NoItem /\ IsPrefix(Front(got), Reply(c)))

(* As long as the client has not stopped, the server receives its request  *)
(* in the same way (sendM).                                                *)
RelaysRequest ==
    \A c \in Conn : sock[<<"client", c>>].peer = "open" =>
        IsPrefix(sock[<<"server", c>>].out, Request(c))

(* Both ways, a connection carries what its own two peers have sent.       *)
Relays == RelaysReply /\ RelaysRequest

(* The size in the log is what the server has sent and the client was      *)
(* given, the "\r\n" of the proxy apart (sendM's totSize, grade3.py).      *)
LogCounts ==
    \A i \in DOMAIN log : LET got == sock[<<"client", log[i].conn>>].out IN
        log[i].size = Cardinality({k \in DOMAIN got : got[k] # NoItem})

(* A descriptor is open only for a thread that has still to close it, or   *)
(* after pthread_create has failed: no path of sendM, doThings and thread  *)
(* leaves one open, as long as none has closed a socket of another thread. *)
NoDescriptorLeft ==
    ~clobbered => \A f \in FD : fds[f] # None =>
        LET c == fds[f][2]
        IN  \/ th[c].pc = "failed"
            \/ /\ th[c].pc \notin {"none", "return", "done"}
               /\ f \in {th[c].cfd, th[c].sfd}
               /\ th[c].pc \in {"peername", "wait", "print", "signal", "close"} => f = th[c].cfd

(* With several threads at once all this holds until a thread closes a     *)
(* socket that is not its own: the descriptors handed to the threads (main)*)
(* and their buffers are never mixed up in another way.                    *)
Isolation ==
    ~clobbered => Relays /\ LogCounts /\ NoDescriptorLeft

(* One thread at a time writes the log (doThings). *)
LogExclusive ==
    \A c, d \in Conn :
        th[c].pc \in {"print", "signal"} /\ th[d].pc \in {"print", "signal"} => c = d

(* A thread ends when its client has sent its whole request and the server *)
(* has stopped sending, whatever the other threads do (doThings: no path   *)
(* waits for good, and the mutex is always given back).                    *)
ThreadsEnd ==
    \A c \in Conn :
        /\ sock[<<"client", c>>].sent = Len(Req[c])
        /\ sock[<<"server", c>>].peer \notin {"none", "open"}
        ~> th[c].pc = "done" \/ ~alive \/ clobbered

-----------------------------------------------------------------------------
(* What the comments of proxy.c and its tests say and the code does not do.*)

(* "send message to server, and send back to client" (proxy.c:166): what a *)
(* server sends reaches nobody but its client.                             *)
RepliesReachTheirClient ==
    \A s \in Sock : \A i \in DOMAIN sock[s].out :
        LET x == sock[s].out[i]
        IN  x.n > 0 /\ x.from[1] = "server" => s = <<"client", x.from[2]>>

(* "we don't want to exit immediately" (proxy.c:92), check_proxy_alive     *)
(* (grade3.py): no peer can make the process end.                          *)
StaysUp == alive

(* "read new header line", "send to server" (proxy.c:195, 201): the server *)
(* is sent the lines of the request, each once.                            *)
SendsEachLineOnce ==
    \A c \in Conn : IsPrefix(sock[<<"server", c>>].out, Request(c))
=============================================================================
