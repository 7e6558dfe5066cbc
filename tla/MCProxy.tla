------------------------------- MODULE MCProxy -------------------------------
EXTENDS Proxy

Post == <<"request", "length", "blank", "byte">>
Short == <<"request", "blank">>
Wrong == <<"bad", "blank">>
Full == <<"status", "length", "blank", "byte">>
Bare == <<"status", "blank">>

SerialReq == (1 :> Post) @@ (2 :> Wrong)
SerialResp == (1 :> Full) @@ (2 :> Bare)

TwoReq == (1 :> Short) @@ (2 :> Short)
TwoResp == (1 :> Bare) @@ (2 :> Bare)
OneClient == {<<"client", 1>>}

(* Two connections at once, until a thread closes a socket of the other;   *)
(* their peers only close.  The threads run; nothing obliges a peer to     *)
(* send, to stop, or to connect.                                           *)
TwoPeers ==
    \/ \E c \in Conn : Connects(c)
    \/ \E s \in Sock : Sends(s) \/ Stops(s, "closed")
TwoNext == ~clobbered /\ ((\E c \in Conn : Accept(c) \/ Thread(c)) \/ TwoPeers)
TwoSpec ==
    /\ Init /\ [][TwoNext]_vars
    /\ \A c \in Conn : WF_vars(~clobbered /\ Accept(c)) /\ WF_vars(~clobbered /\ Thread(c))
=============================================================================
