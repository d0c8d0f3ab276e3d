-------------------------------- MODULE Egress --------------------------------
(***************************************************************************)
(* A connection through a SOCKS5 exit (egress/egress.go, DialContext).     *)
(* The dialer goes through the handshake under a deadline, while a watcher *)
(* waits for the request's context to be cancelled and then closes the     *)
(* connection.  The proxy answers as it likes, or not at all.  What the    *)
(* transport is given must be a connection in the state of a fresh one.    *)
(***************************************************************************)
EXTENDS Naturals

CONSTANTS
    NameLengths,  \* lengths of a bound address the proxy gives as a name
    Payload       \* bytes the far end sends as soon as it is connected

ASSUME EgressAssumption == NameLengths \subseteq Nat /\ Payload \in Nat

VARIABLES
    exit,      \* the exit's URL: with a user or not, names resolved there or here
    dial,      \* "dial" | "method" | "login" | "request" | "head" | "length" | "bound" |
               \* "clear" | "stop" | "connected" | "failed"
    conn,      \* "none" | "open" | "closed", its deadline, whether a watcher is set
    context,   \* "live" | "cancelled"
    answer,    \* what the proxy says: its method, its login verdict, its reply
    inbox,     \* bytes received and not read, those of the payload among them
    loggedIn   \* ghost: the user and password have been sent

egressVars == <<exit, dial, conn, context, answer, inbox, loggedIn>>

\* Replies: the status, the type of the bound address, and its length.
Addresses == {[type |-> "ip4", length |-> 4], [type |-> "ip6", length |-> 16]}
                 \cup [type : {"name"}, length : NameLengths]
Answers == [method : {"none", "password", "refused", "other"}, version : BOOLEAN,
            login : BOOLEAN, granted : BOOLEAN, address : Addresses]

\* Bytes of a reply: four of head, a name's length, the address, the port.
ReplyLength(address) ==
    4 + (IF address.type = "name" THEN 1 ELSE 0) + address.length + 2

EgressInit ==
    /\ exit \in [user : BOOLEAN, remoteDNS : BOOLEAN]
    /\ dial = "dial"
    /\ conn = [state |-> "none", deadline |-> FALSE, watcher |-> "none"]
    /\ context = "live"
    /\ answer \in Answers
    /\ inbox = [bytes |-> 0, payload |-> 0]
    /\ loggedIn = FALSE

Receives(bytes, payload) ==
    inbox' = [bytes |-> inbox.bytes + bytes + payload, payload |-> inbox.payload + payload]

\* io.ReadFull: it returns with all of them or not at all.
ReadFull(bytes) ==
    /\ conn.state = "open"
    /\ inbox.bytes >= bytes
    /\ inbox' = [inbox EXCEPT !.bytes = @ - bytes]

\* The TCP connection to the proxy, then the deadline and the watcher, which is
\* called at once if the context is already cancelled.
Dial ==
    /\ dial = "dial"
    /\ conn' = [state |-> "open", deadline |-> TRUE,
                watcher |-> IF context = "live" THEN "set" ELSE "called"]
    /\ dial' = "method"
    /\ Receives(2, 0)
    /\ UNCHANGED <<exit, context, answer, loggedIn>>

\* A connection that cannot be made leaves nothing to close.
DialFails ==
    /\ dial = "dial"
    /\ dial' = "failed"
    /\ UNCHANGED <<exit, conn, context, answer, inbox, loggedIn>>

\* The error paths of handshake: DialContext closes what it opened.
HandshakeFails ==
    /\ dial' = "failed"
    /\ conn' = [conn EXCEPT !.state = "closed", !.watcher = "none"]
    /\ UNCHANGED <<exit, context, answer, inbox, loggedIn>>

\* The proxy picks a method: none and the user's password can be had.
ReadMethod ==
    /\ dial = "method"
    /\ answer.version
    /\ answer.method \in IF exit.user THEN {"none", "password"} ELSE {"none"}
    /\ ReadFull(2)
    /\ dial' = IF answer.method = "password" THEN "login" ELSE "request"
    /\ UNCHANGED <<exit, conn, context, answer, loggedIn>>

MethodRefused ==
    /\ dial = "method"
    /\ \/ ~answer.version
       \/ answer.method \in {"refused", "other"}
       \/ answer.method = "password" /\ ~exit.user
    /\ HandshakeFails

\* auth: the user and the password go out, and the verdict comes in.
SendLogin ==
    /\ dial = "login"
    /\ conn.state = "open"
    /\ ~loggedIn
    /\ loggedIn' = TRUE
    /\ Receives(2, 0)
    /\ UNCHANGED <<exit, dial, conn, context, answer>>

ReadLogin ==
    /\ dial = "login"
    /\ loggedIn
    /\ answer.login
    /\ ReadFull(2)
    /\ dial' = "request"
    /\ UNCHANGED <<exit, conn, context, answer, loggedIn>>

LoginRefused ==
    /\ dial = "login"
    /\ loggedIn
    /\ ~answer.login
    /\ HandshakeFails

\* CONNECT, with the name, or with the address the local resolver found for it.
\* A far end that speaks first is heard right behind the reply.
SendConnect ==
    /\ dial = "request"
    /\ conn.state = "open"
    /\ dial' = "head"
    /\ \E payload \in {0, Payload} :
          IF answer.granted THEN Receives(ReplyLength(answer.address), payload)
                            ELSE Receives(ReplyLength(answer.address), 0)
    /\ UNCHANGED <<exit, conn, context, answer, loggedIn>>

\* The name is resolved here and does not resolve, for as long as that takes: the
\* resolver knows the context and not the deadline.
NameUnknown ==
    /\ dial = "request"
    /\ ~exit.remoteDNS
    /\ HandshakeFails

ReadHead ==
    /\ dial = "head"
    /\ answer.granted
    /\ ReadFull(4)
    /\ dial' = IF answer.address.type = "name" THEN "length" ELSE "bound"
    /\ UNCHANGED <<exit, conn, context, answer, loggedIn>>

\* The proxy refuses, or its reply is none of SOCKS5.
ConnectRefused ==
    /\ dial = "head"
    /\ ~answer.granted
    /\ HandshakeFails

ReadLength ==
    /\ dial = "length"
    /\ ReadFull(1)
    /\ dial' = "bound"
    /\ UNCHANGED <<exit, conn, context, answer, loggedIn>>

\* Mutant: the port stays behind, at the head of the stream.
AddressOnly == answer.address.length

\* The bound address and its port are read over, whatever they are.
Skipped == answer.address.length + 2

ReadBound ==
    /\ dial = "bound"
    /\ ReadFull(Skipped)
    /\ dial' = "clear"
    /\ UNCHANGED <<exit, conn, context, answer, loggedIn>>

\* A read or a write of a closed connection fails, and any read while the
\* deadline stands: the proxy says nothing more, or closes.
HandshakeBreaks ==
    /\ dial \in {"method", "login", "request", "head", "length", "bound"}
    /\ conn.deadline \/ conn.state = "closed"
    /\ HandshakeFails

\* A stream may last longer than the handshake.
ClearDeadline ==
    /\ dial = "clear"
    /\ conn' = [conn EXCEPT !.deadline = FALSE]
    /\ dial' = "stop"
    /\ UNCHANGED <<exit, context, answer, inbox, loggedIn>>

\* stop: a watcher that has not been called will not be called.
StopWatcher ==
    /\ dial = "stop"
    /\ conn' = [conn EXCEPT !.watcher = IF @ = "set" THEN "none" ELSE @]
    /\ dial' = "connected"
    /\ UNCHANGED <<exit, context, answer, inbox, loggedIn>>

\* The client is gone; the watcher is called, and closes in a goroutine of its own.
Cancelled ==
    /\ context = "live"
    /\ context' = "cancelled"
    /\ conn' = [conn EXCEPT !.watcher = IF @ = "set" THEN "called" ELSE @]
    /\ UNCHANGED <<exit, dial, answer, inbox, loggedIn>>

WatcherCloses ==
    /\ conn.watcher = "called"
    /\ conn' = [conn EXCEPT !.state = "closed", !.watcher = "none"]
    /\ UNCHANGED <<exit, dial, context, answer, inbox, loggedIn>>

EgressNext ==
    \/ Dial \/ DialFails \/ ReadMethod \/ MethodRefused \/ SendLogin \/ ReadLogin
    \/ LoginRefused \/ SendConnect \/ NameUnknown \/ ReadHead \/ ConnectRefused
    \/ ReadLength \/ ReadBound \/ HandshakeBreaks \/ ClearDeadline \/ StopWatcher
    \/ Cancelled \/ WatcherCloses

EgressSpec == EgressInit /\ [][EgressNext]_egressVars

-----------------------------------------------------------------------------
\* What DialContext returns: a connection from which exactly the handshake has
\* been read, with no deadline and nothing left that would close it once it is in
\* use, or an error and no connection left open; and a password only to a proxy
\* that asked for it.  The one connection that may be closed is that of a request
\* cancelled while it was made: the watcher may have been called before stop
\* (egress.go DialContext, handshake, auth).
DialIsClean ==
    /\ inbox.bytes >= inbox.payload
    /\ dial = "connected" =>
          /\ inbox.bytes = inbox.payload
          /\ ~conn.deadline
          /\ conn.watcher # "set"
          /\ context = "live" => conn.state = "open"
    /\ dial = "failed" => conn.state # "open"
    /\ loggedIn => exit.user /\ answer.method = "password"
===============================================================================
