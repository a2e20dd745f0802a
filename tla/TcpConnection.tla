--------------------------- MODULE TcpConnection ---------------------------
(***************************************************************************)
(* muduo's TcpConnection over its Channel: the states of a connection,     *)
(* sending with an output buffer, reading, closing.  Everything but the    *)
(* check in send(), shutdown() and forceClose() happens on the thread of   *)
(* the loop of the connection.  What the owner of a connection does in its *)
(* callbacks is left to the modules that extend this one.                  *)
(*                                                                         *)
(* A message is two units long, the least with which a write can be short. *)
(* The socket is modelled by what the loop sees of it.                     *)
(***************************************************************************)
EXTENDS EventLoop

CONSTANTS
    Messages       \* what the users of a connection send

VARIABLES
    state,         \* state[c]: state_; "none" before the object exists
    outputBuffer,  \* outputBuffer[c]: units accepted and not written
    sent,          \* sent[c]: units written to the socket
    accepted,      \* accepted[c]: the messages sendInLoop took (history)
    shut,          \* shut[c]: has shutdownWrite been called?
    rx,            \* rx[c]: segments in the socket that have not been read
    peer,          \* peer[c]: the other side: "open", "closed" (FIN), "reset"
    sockerr        \* sockerr[c]: does the socket hold an error (SO_ERROR)?

tcpVars == <<state, outputBuffer, sent, accepted, shut>>
socketVars == <<rx, peer, sockerr>>

Functor(op, c, m) == <<op, c, m>>
NoMessage == "no message"
Bytes(m) == <<<<m, 1>>, <<m, 2>>>>
Flatten(ms) == [i \in 1..(2 * Len(ms)) |-> Bytes(ms[(i + 1) \div 2])[((i + 1) % 2) + 1]]

TcpInit ==
    /\ state = [c \in Channels |-> "none"]
    /\ outputBuffer = [c \in Channels |-> <<>>]
    /\ sent = [c \in Channels |-> <<>>]
    /\ accepted = [c \in Channels |-> <<>>]
    /\ shut = [c \in Channels |-> FALSE]
    /\ rx = [c \in Channels |-> 0]
    /\ peer = [c \in Channels |-> "open"]
    /\ sockerr = [c \in Channels |-> FALSE]

States == {"none", "kConnecting", "kConnected", "kDisconnecting", "kDisconnected"}

TcpTypeOK ==
    /\ state \in [Channels -> States]
    /\ outputBuffer \in [Channels -> Seq(Messages \X {1, 2})]
    /\ sent \in [Channels -> Seq(Messages \X {1, 2})]
    /\ accepted \in [Channels -> Seq(Messages)]
    /\ shut \in [Channels -> BOOLEAN]
    /\ rx \in [Channels -> Nat]
    /\ peer \in [Channels -> {"open", "closed", "reset"}]
    /\ sockerr \in [Channels -> BOOLEAN]

-----------------------------------------------------------------------------
(* What epoll reports for a connection it watches.  Hang-ups and errors are
   reported whatever the channel is interested in. *)
ReadyEvents(c) ==
    {r \in Revents : \/ r = "IN" /\ "IN" \in events[c] /\ (rx[c] > 0 \/ peer[c] # "open")
                     \/ r = "OUT" /\ "OUT" \in events[c]
                     \/ r = "HUP" /\ peer[c] = "reset"
                     \/ r = "ERR" /\ sockerr[c]}

ReadyConnections(cs) ==
    {<<c, ReadyEvents(c)>> : c \in {d \in cs : index[d] = "kAdded" /\ ReadyEvents(d) # {}}}

Writing(c) == "OUT" \in events[c]

(* How many units of u the socket takes at once; none when its buffer is full. *)
WriteResults(u) == 0..Len(u)

Drop(u, n) == SubSeq(u, n + 1, Len(u))

(* Writing fails with EPIPE or ECONNRESET. *)
Broken(c) == peer[c] = "reset" \/ shut[c]

-----------------------------------------------------------------------------
(* connectEstablished, without the connection callback. *)
Establish(c) ==
    /\ state' = [state EXCEPT ![c] = "kConnected"]
    /\ UpdateChannel(c, {"IN"})
    /\ UNCHANGED <<outputBuffer, sent, accepted, shut>>

(* sendInLoop on loop l: write directly when nothing waits, keep the rest and
   ask for POLLOUT.  A broken pipe drops the message. *)
SendInLoop(l, c, m) ==
    IF state[c] = "kDisconnected"
    THEN UNCHANGED <<tcpVars, channelVars, pendingFunctors, wakeupFd>>
    ELSE /\ UNCHANGED <<state, shut>>
         /\ \/ /\ ~ Writing(c) /\ outputBuffer[c] = <<>> /\ ~ Broken(c)
               /\ accepted' = [accepted EXCEPT ![c] = Append(@, m)]
               /\ \E n \in WriteResults(Bytes(m)) :
                    /\ sent' = [sent EXCEPT ![c] = @ \o SubSeq(Bytes(m), 1, n)]
                    /\ outputBuffer' = [outputBuffer EXCEPT ![c] = Drop(Bytes(m), n)]
                    /\ IF n = Len(Bytes(m))
                       THEN /\ QueueInLoop(l, l, <<Functor("writeComplete", c, NoMessage)>>)
                            /\ UNCHANGED channelVars
                       ELSE /\ UpdateChannel(c, events[c] \cup {"OUT"})
                            /\ UNCHANGED <<pendingFunctors, wakeupFd>>
            \/ /\ ~ Writing(c) /\ outputBuffer[c] = <<>> /\ Broken(c)
               /\ UNCHANGED <<sent, outputBuffer, accepted, channelVars,
                              pendingFunctors, wakeupFd>>
            \/ /\ Writing(c) \/ outputBuffer[c] # <<>>
               /\ accepted' = [accepted EXCEPT ![c] = Append(@, m)]
               /\ outputBuffer' = [outputBuffer EXCEPT ![c] = @ \o Bytes(m)]
               /\ IF Writing(c) THEN UNCHANGED channelVars
                  ELSE UpdateChannel(c, events[c] \cup {"OUT"})
               /\ UNCHANGED <<sent, pendingFunctors, wakeupFd>>

(* Mutant: what a short write left is dropped. *)
HandleWriteForgets(l, c) ==
    /\ Handling(l, c, "OUT")
    /\ Handled(l, "OUT")
    /\ IF Writing(c) /\ ~ Broken(c)
       THEN \E n \in WriteResults(outputBuffer[c]) \ {0} :
              /\ sent' = [sent EXCEPT ![c] = @ \o SubSeq(outputBuffer[c], 1, n)]
              /\ outputBuffer' = [outputBuffer EXCEPT ![c] = <<>>]
              /\ UpdateChannel(c, events[c] \ {"OUT"})
       ELSE UNCHANGED <<sent, outputBuffer, channelVars>>
    /\ UNCHANGED <<state, accepted, shut, socketVars, phase, pendingFunctors, functors, next,
                   wakeupFd>>

(* handleWrite: POLLOUT.  The last unit of a connection that is being shut down
   is followed by the end of its stream. *)
HandleWrite(l, c) ==
    /\ Handling(l, c, "OUT")
    /\ Handled(l, "OUT")
    /\ IF Writing(c) /\ ~ Broken(c)
       THEN \E n \in WriteResults(outputBuffer[c]) \ {0} :
              /\ sent' = [sent EXCEPT ![c] = @ \o SubSeq(outputBuffer[c], 1, n)]
              /\ outputBuffer' = [outputBuffer EXCEPT ![c] = Drop(@, n)]
              /\ IF n = Len(outputBuffer[c])
                 THEN /\ UpdateChannel(c, events[c] \ {"OUT"})
                      /\ QueueInLoop(l, l, <<Functor("writeComplete", c, NoMessage)>>)
                      /\ shut' = [shut EXCEPT ![c] = @ \/ state[c] = "kDisconnecting"]
                 ELSE UNCHANGED <<channelVars, pendingFunctors, wakeupFd, shut>>
       ELSE UNCHANGED <<sent, outputBuffer, channelVars, pendingFunctors, wakeupFd, shut>>
    /\ UNCHANGED <<state, accepted, socketVars, phase, functors, next>>

(* handleClose, without the callbacks. *)
Close(c) ==
    /\ state' = [state EXCEPT ![c] = "kDisconnected"]
    /\ UpdateChannel(c, {})
    /\ UNCHANGED <<outputBuffer, sent, accepted, shut>>

(* connectDestroyed, without the connection callback it calls when the
   connection was still up. *)
Destroy(c) ==
    /\ state' = [state EXCEPT ![c] = IF @ = "kConnected" THEN "kDisconnected" ELSE @]
    /\ events' = [events EXCEPT ![c] = IF state[c] = "kConnected" THEN {} ELSE @]
    /\ RemoveChannel(c)
    /\ UNCHANGED <<outputBuffer, sent, accepted, shut>>

(* handleError: getsockopt fetches and clears the error. *)
HandleError(l, c) ==
    /\ Handling(l, c, "ERR")
    /\ Handled(l, "ERR")
    /\ sockerr' = [sockerr EXCEPT ![c] = FALSE]
    /\ UNCHANGED <<rx, peer, tcpVars, channelVars, phase, pendingFunctors,
                   functors, next, wakeupFd>>

(* The outcome of the read in handleRead: data, then an error once, then 0. *)
ReadsData(c)  == rx[c] > 0 /\ peer[c] # "reset"
ReadsError(c) == ~ ReadsData(c) /\ sockerr[c]
ReadsEof(c)   == ~ ReadsData(c) /\ ~ sockerr[c]

(* handleRead with an error: handleError clears and logs it. *)
HandleReadError(l, c) ==
    /\ Handling(l, c, "IN")
    /\ ReadsError(c)
    /\ Handled(l, "IN")
    /\ sockerr' = [sockerr EXCEPT ![c] = FALSE]
    /\ UNCHANGED <<rx, peer, tcpVars, channelVars, phase, pendingFunctors,
                   functors, next, wakeupFd>>

-----------------------------------------------------------------------------
(* The other side. *)
PeerSends(c, limit) ==
    /\ peer[c] = "open"
    /\ rx[c] < limit
    /\ rx' = [rx EXCEPT ![c] = @ + 1]
    /\ UNCHANGED <<peer, sockerr>>

PeerCloses(c) ==
    /\ peer[c] = "open"
    /\ peer' = [peer EXCEPT ![c] = "closed"]
    /\ UNCHANGED <<rx, sockerr>>

(* A reset discards what has not been read. *)
PeerResets(c) ==
    /\ peer[c] # "reset"
    /\ peer' = [peer EXCEPT ![c] = "reset"]
    /\ sockerr' = [sockerr EXCEPT ![c] = TRUE]
    /\ rx' = [rx EXCEPT ![c] = 0]

-----------------------------------------------------------------------------
(* What goes out is what was sent, message after message, in the order in which
   sendInLoop took them: a short write, a message from another thread in between
   or a POLLOUT never reorders, repeats or loses a unit.
   (TcpConnection::sendInLoop, handleWrite) *)
OutputInOrder ==
    \A c \in Channels : sent[c] \o outputBuffer[c] = Flatten(accepted[c])

(* Whoever has something to write waits for POLLOUT, or nobody would ever write
   it; and who has nothing does not, or the loop would spin. *)
WriteInterest ==
    \A c \in Channels :
        state[c] \in {"kConnected", "kDisconnecting"}
            => (outputBuffer[c] # <<>> <=> Writing(c))

(* What is accepted goes out: in order, and waiting for POLLOUT while it has to. *)
OutputRight == OutputInOrder /\ WriteInterest

=============================================================================
