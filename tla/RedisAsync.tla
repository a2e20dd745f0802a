----------------------------- MODULE RedisAsync -----------------------------
(***************************************************************************)
(* hiredis' asynchronous context: commands with callbacks, published       *)
(* messages, and the teardown that a callback may ask for while it runs.   *)
(*                                                                         *)
(* The event library calls HandleRead and HandleWrite; everything runs in  *)
(* one thread, so that the user calls in between the events and out of     *)
(* callbacks.  A name stands for a channel or a pattern, so that one       *)
(* dictionary stands for the two.                                          *)
(***************************************************************************)
EXTENDS Naturals, Sequences, FiniteSets, SequencesExt

CONSTANTS
    Names,              \* channels and patterns
    MaxCommands,        \* bound: commands issued
    MaxMessages,        \* bound: messages and monitor lines the server sends
    MaxPending,         \* bound: callbacks waiting when a read brings no whole reply
    Callers             \* who calls: careful ones, and TRUE: ones that do not wait for an unsubscribe

ASSUME AsyncAssumption == IsFiniteSet(Names)

VARIABLES
    flags,      \* c->flags
    acErr,      \* ac->err is set
    replies,    \* ac->replies: the callbacks of regular commands
    invalid,    \* ac->sub.invalid
    subs,       \* ac->sub.channels and patterns: name -> [id, pending]
    frames,     \* the functions under way, innermost last
    cb,         \* redisProcessCallbacks' cb: the callback last run, or 0
    obuf, got,  \* commands not yet written, replies in the reader
    socket,     \* "connecting", "open", "closed" (by the server), "freed"
    server,     \* commands at the server, its answers, its subscriptions
    ran,        \* history: callbacks run and the reply they got
    issued,     \* history: the commands accepted, by their number
    told,       \* calls of onConnect and onDisconnect
    careless,   \* who the caller is
    aborted     \* an assertion has failed

acVars == <<flags, acErr, replies, invalid, subs, frames, cb, obuf, got, socket, server, ran, issued, told, careless, aborted>>

NoFn == 0       \* a callback without a function
NoCallback == [kind |-> "null", of |-> 0, name |-> "", left |-> 0]

AsyncInitialize ==
    /\ flags = {} /\ acErr = FALSE /\ replies = <<>> /\ invalid = <<>> /\ subs = <<>>
    /\ frames = <<>> /\ cb = NoFn /\ obuf = <<>> /\ got = <<>> /\ socket = "connecting"
    /\ server = [in |-> <<>>, out |-> <<>>, subs |-> {}, monitor |-> FALSE, sent |-> 0]
    /\ ran = <<>> /\ issued = <<>> /\ told = [connect |-> 0, disconnect |-> 0] /\ aborted = FALSE /\ careless \in Callers

Top == IF frames = <<>> THEN "none" ELSE frames[Len(frames)]
Alive == socket # "freed" /\ ~ aborted
Replace(frame) == frames' = Append(SubSeq(frames, 1, Len(frames) - 1), frame)
Pop == frames' = SubSeq(frames, 1, Len(frames) - 1)
Push(frame) == frames' = Append(frames, frame)

(* __redisRunCallback: the callback runs when it has a function. *)
RunCallback(id, reply, return) ==
    IF id = NoFn THEN /\ Replace(return) /\ UNCHANGED <<flags, ran>>
    ELSE /\ frames' = SubSeq(frames, 1, Len(frames) - 1) \o <<return, "callback">>
         /\ flags' = flags \cup {"incallback"}
         /\ ran' = Append(ran, [id |-> id, reply |-> reply])

-----------------------------------------------------------------------------
(* The user, between events or in a callback. *)
UserRuns == Alive /\ Top \in {"none", "callback"}

(* Subscribing to names in turn, one a name: cb.pending_subs is not reset between
   them, so that a new name takes over what the last known one before it has. *)
KnownNames(names, i) == {j \in 1..i : names[j] \in DOMAIN subs}
PendingSubs(names, i) == IF KnownNames(names, i) = {} THEN 1 ELSE subs[names[Max(KnownNames(names, i))]].pending + 1
AddNames(names, id) ==
    [n \in DOMAIN subs \cup Range(names) |->
        IF n \in Range(names) THEN [id |-> id, pending |-> PendingSubs(names, CHOOSE i \in DOMAIN names : names[i] = n)]
        ELSE subs[n]]

Unanswered == \E i \in DOMAIN issued : issued[i].kind = "unsub" /\ issued[i].open

(* What the library asks of its caller without saying so: nothing but
   subscriptions while an unsubscribe is unanswered, no unsubscribe of a name
   that is not subscribed to (its answer would be given to the callback that
   ran last), and MONITOR on a connection of its own. *)
Careful(c) ==
    /\ ~ careless /\ c.kind # "sub" => ~ Unanswered
    /\ ~ careless /\ c.kind = "unsub" => Range(c.names) \subseteq DOMAIN subs
    /\ "monitoring" \notin flags
    /\ c.kind = "monitor" => issued = <<>>

(* __redisAsyncCommand. *)
Refuse(c) == flags \cap {"disconnecting", "freeing"} # {} \/ (c.kind = "unsub" /\ "subscribed" \notin flags)
AsyncCommand(c) ==
    LET id == Len(issued) + 1 IN
    /\ UserRuns /\ Len(issued) < MaxCommands /\ ~ Refuse(c)
    /\ Careful(c)
    /\ issued' = Append(issued, [kind |-> c.kind, names |-> c.names, open |-> TRUE])
    /\ obuf' = Append(obuf, [kind |-> c.kind, names |-> c.names, id |-> id])
    /\ \/ c.kind = "sub" /\ flags' = flags \cup {"subscribed"} /\ subs' = AddNames(c.names, id)
          /\ UNCHANGED <<replies, invalid>>
       \/ c.kind = "unsub" /\ UNCHANGED <<flags, subs, replies, invalid>>
       \/ c.kind = "monitor" /\ flags' = flags \cup {"monitoring"} /\ replies' = Append(replies, id)
          /\ UNCHANGED <<subs, invalid>>
       \/ c.kind = "get" /\ "subscribed" \in flags /\ invalid' = Append(invalid, id)
          /\ UNCHANGED <<flags, subs, replies>>
       \/ c.kind = "get" /\ "subscribed" \notin flags /\ replies' = Append(replies, id)
          /\ UNCHANGED <<flags, subs, invalid>>
    /\ UNCHANGED <<acErr, frames, cb, got, socket, server, ran, told, careless, aborted>>

Rest == UNCHANGED <<replies, invalid, subs, cb, obuf, got, socket, server, ran, issued, told, careless>>

(* redisAsyncFree: at once, or when the callback has returned. *)
AsyncFree ==
    /\ UserRuns /\ "freeing" \notin flags
    /\ flags' = flags \cup {"freeing"}
    /\ IF "incallback" \in flags THEN UNCHANGED frames ELSE Push("free")
    /\ Rest /\ UNCHANGED <<acErr, aborted>>

(* __redisAsyncDisconnect, called with the flags f and c->err as err. *)
Disconnect(err, f) ==
    /\ acErr' = err
    /\ flags' = IF err THEN f \cup {"disconnecting"} ELSE f
    /\ aborted' = (~ err /\ replies # <<>>)                 \* the assertion
    /\ Replace("free")

AsyncDisconnect ==
    /\ UserRuns /\ "disconnecting" \notin flags
    /\ Push("disconnect")
    /\ flags' = flags \cup {"disconnecting"}
    /\ Rest /\ UNCHANGED <<acErr, aborted>>
DisconnectNow ==
    /\ Top = "disconnect"
    /\ \/ "incallback" \notin flags /\ replies = <<>> /\ Disconnect(acErr, flags)
       \/ ("incallback" \in flags \/ replies # <<>>) /\ Pop /\ UNCHANGED <<flags, acErr, aborted>>
    /\ Rest

(* A callback returns. *)
CallbackReturns ==
    /\ Alive /\ Top = "callback"
    /\ Pop /\ flags' = flags \ {"incallback"}
    /\ Rest /\ UNCHANGED <<acErr, aborted>>

-----------------------------------------------------------------------------
(* __redisAsyncFree: the callbacks left get a null reply, then the context goes. *)
FreeReplies ==
    /\ Top = "free" /\ replies # <<>> /\ ~ aborted
    /\ RunCallback(Head(replies), NoCallback, "free") /\ replies' = Tail(replies)
    /\ UNCHANGED <<acErr, invalid, subs, cb, obuf, got, socket, server, issued, told, careless, aborted>>
FreeRepliesDone ==
    /\ Top = "free" /\ replies = <<>> /\ ~ aborted
    /\ Replace("freeinvalid")
    /\ Rest /\ UNCHANGED <<flags, acErr, aborted>>
FreeInvalid ==
    /\ Top = "freeinvalid"
    /\ IF invalid = <<>> THEN Replace("freesubs") /\ UNCHANGED <<flags, ran, invalid>>
       ELSE RunCallback(Head(invalid), NoCallback, "freeinvalid") /\ invalid' = Tail(invalid)
    /\ UNCHANGED <<acErr, replies, subs, cb, obuf, got, socket, server, issued, told, careless, aborted>>
(* dictNext over the subscriptions, then dictRelease. *)
FreeSubs ==
    /\ Top = "freesubs" /\ DOMAIN subs # {}
    /\ \E name \in DOMAIN subs :
          /\ RunCallback(subs[name].id, NoCallback, "freesubs")
          /\ subs' = [n \in DOMAIN subs \ {name} |-> subs[n]]
    /\ UNCHANGED <<acErr, replies, invalid, cb, obuf, got, socket, server, issued, told, careless, aborted>>
Freed ==
    /\ Top = "freesubs" /\ DOMAIN subs = {}
    /\ told' = IF "connected" \in flags THEN [told EXCEPT !.disconnect = @ + 1] ELSE told
    /\ socket' = "freed" /\ frames' = <<>> /\ obuf' = <<>> /\ got' = <<>>
    /\ server' = [in |-> <<>>, out |-> <<>>, subs |-> {}, monitor |-> FALSE, sent |-> server.sent]
    /\ UNCHANGED <<flags, acErr, replies, invalid, subs, cb, ran, issued, careless, aborted>>

-----------------------------------------------------------------------------
(* __redisAsyncHandleConnect at the first event; then the event itself. *)
Event == Alive /\ frames = <<>>
HandleConnect(next) ==
    /\ Event /\ "connected" \notin flags /\ socket \in {"connecting", "closed"}
    /\ told' = [told EXCEPT !.connect = @ + 1]
    /\ \/ /\ socket = "connecting" /\ socket' = "open"
          /\ flags' = flags \cup {"connected"} /\ frames' = <<next>>
       \/ /\ socket' = "closed" /\ UNCHANGED flags /\ frames' = <<"connectfailed">>
    /\ UNCHANGED <<acErr, replies, invalid, subs, cb, obuf, got, server, ran, issued, careless, aborted>>
ConnectFailed ==
    /\ Top = "connectfailed" /\ Disconnect(TRUE, flags) /\ Rest

(* redisAsyncHandleWrite. *)
HandleWrite ==
    \/ obuf # <<>> /\ HandleConnect("write")
    \/ /\ Event /\ "connected" \in flags /\ obuf # <<>> /\ Push("write")
       /\ Rest /\ UNCHANGED <<flags, acErr, aborted>>
BufferWrite ==
    /\ Top = "write"
    /\ \/ /\ socket = "open"
          /\ \E k \in 1..Len(obuf) :
                /\ server' = [server EXCEPT !.in = @ \o SubSeq(obuf, 1, k)]
                /\ obuf' = SubSeq(obuf, k + 1, Len(obuf))
          /\ Pop /\ UNCHANGED <<flags, acErr, aborted>>
       \/ /\ socket = "closed" /\ Disconnect(TRUE, flags) /\ UNCHANGED <<server, obuf>>
    /\ UNCHANGED <<replies, invalid, subs, cb, got, socket, ran, issued, told, careless>>

(* redisAsyncHandleRead: whole replies, perhaps none yet, or the end. *)
Readable == server.out # <<>> \/ socket \in {"closed", "connecting"}
HandleRead ==
    \/ Readable /\ HandleConnect("read")
    \/ /\ Event /\ "connected" \in flags /\ Readable /\ Push("read")
       /\ Rest /\ UNCHANGED <<flags, acErr, aborted>>
BufferRead ==
    /\ Top = "read"
    /\ \/ /\ server.out # <<>>
          /\ \E k \in 0..Len(server.out) :
                /\ k > 0 \/ Len(replies) < MaxPending
                /\ got' = got \o SubSeq(server.out, 1, k)
                /\ server' = [server EXCEPT !.out = SubSeq(@, k + 1, Len(@))]
          /\ Replace("process") /\ cb' = NoFn /\ UNCHANGED <<flags, acErr, aborted>>
       \/ /\ server.out = <<>> /\ socket = "closed" /\ Disconnect(TRUE, flags)
          /\ UNCHANGED <<got, server, cb>>
    /\ UNCHANGED <<replies, invalid, subs, obuf, socket, ran, issued, told, careless>>

-----------------------------------------------------------------------------
(* redisProcessCallbacks: no reply left. *)
NoMore ==
    /\ Top = "process" /\ got = <<>>
    /\ \/ /\ "disconnecting" \in flags /\ obuf = <<>> /\ replies = <<>>
          /\ Disconnect(acErr, flags) /\ UNCHANGED replies
       \/ /\ ~ ("disconnecting" \in flags /\ obuf = <<>> /\ replies = <<>>)
          /\ replies' = IF "monitoring" \in flags THEN Append(replies, cb) ELSE replies
          /\ Pop /\ UNCHANGED <<flags, acErr, aborted>>
    /\ UNCHANGED <<invalid, subs, cb, obuf, got, socket, server, ran, issued, told, careless>>

Answered(id) == IF id = 0 THEN issued ELSE [issued EXCEPT ![id].open = FALSE]
\* Mutant: the newest callback is shifted first.
RegularReplyLast ==
    LET reply == Head(got) IN
    /\ Top = "process" /\ got # <<>> /\ replies # <<>>
    /\ cb' = Last(replies) /\ replies' = Front(replies) /\ got' = Tail(got)
    /\ RunCallback(Last(replies), reply, "ranregular")
    /\ issued' = IF reply.kind = "line" THEN issued ELSE Answered(reply.of)
    /\ UNCHANGED <<acErr, invalid, subs, obuf, socket, server, told, careless, aborted>>

(* The reply to a regular command. *)
RegularReply ==
    LET reply == Head(got) IN
    /\ Top = "process" /\ got # <<>> /\ replies # <<>>
    /\ cb' = Head(replies) /\ replies' = Tail(replies) /\ got' = Tail(got)
    /\ RunCallback(Head(replies), reply, "ranregular")
    /\ issued' = IF reply.kind = "line" THEN issued ELSE Answered(reply.of)
    /\ UNCHANGED <<acErr, invalid, subs, obuf, socket, server, told, careless, aborted>>
\* Mutant: REDIS_FREEING is not looked at after a callback.
RanRegularOn ==
    /\ Top = "ranregular"
    /\ Replace("process")
    /\ Rest /\ UNCHANGED <<flags, acErr, aborted>>

(* After the callback: go on, or free as it has asked. *)
RanRegular ==
    /\ Top = "ranregular"
    /\ Replace(IF "freeing" \in flags THEN "free" ELSE "process")
    /\ Rest /\ UNCHANGED <<flags, acErr, aborted>>

(* An error nobody has asked for: the server is about to close. *)
SpontaneousError ==
    /\ Top = "process" /\ got # <<>> /\ replies = <<>> /\ Head(got).kind = "error"
    /\ Disconnect(TRUE, flags) /\ got' = Tail(got)
    /\ UNCHANGED <<replies, invalid, subs, cb, obuf, socket, server, ran, issued, told, careless>>

(* __redisGetSubscribeCallback; the assertion that the context is subscribed
   or monitoring comes first. *)
Unsubscribed(name) == subs[name].pending = 0
SubscribeReply ==
    LET reply == Head(got)
        known == reply.name \in DOMAIN subs
        asub == reply.kind = "sub" /\ known
        gone == reply.kind = "unsub" /\ known /\ Unsubscribed(reply.name)
        fn == IF "subscribed" \notin flags THEN cb
              ELSE IF reply.kind \in {"reply", "line"} THEN (IF invalid = <<>> THEN cb ELSE Head(invalid))
              ELSE IF known THEN subs[reply.name].id ELSE cb
    IN  /\ Top = "process" /\ got # <<>> /\ replies = <<>> /\ reply.kind # "error"
        /\ flags \cap {"subscribed", "monitoring"} # {}
        /\ cb' = fn /\ got' = Tail(got)
        /\ invalid' = IF "subscribed" \in flags /\ reply.kind \in {"reply", "line"} /\ invalid # <<>>
                      THEN Tail(invalid) ELSE invalid
        /\ subs' = IF "subscribed" \notin flags THEN subs
                   ELSE IF asub THEN [subs EXCEPT ![reply.name].pending = @ - 1]
                   ELSE IF gone THEN [n \in DOMAIN subs \ {reply.name} |-> subs[n]] ELSE subs
        /\ LET done == reply.kind = "unsub" /\ known /\ reply.left = 0 /\ DOMAIN subs' = {}
               left == IF done THEN flags \ {"subscribed"} ELSE flags
           IN  IF fn = NoFn THEN Replace("process") /\ flags' = left /\ UNCHANGED ran
               ELSE /\ frames' = SubSeq(frames, 1, Len(frames) - 1) \o <<"ranregular", "callback">>
                    /\ flags' = left \cup {"incallback"}
                    /\ ran' = Append(ran, [id |-> fn, reply |-> reply])
        /\ issued' = IF reply.kind \in {"message", "line"} THEN issued ELSE Answered(reply.of)
        /\ UNCHANGED <<acErr, replies, obuf, socket, server, told, careless, aborted>>
SubscribeAssert ==
    /\ Top = "process" /\ got # <<>> /\ replies = <<>> /\ Head(got).kind # "error"
    /\ flags \cap {"subscribed", "monitoring"} = {}
    /\ aborted' = TRUE
    /\ Rest /\ UNCHANGED <<flags, acErr, frames>>

-----------------------------------------------------------------------------
(* The server answers in order; in subscribed mode a regular command is an
   error; it may close the connection, an error said first or not. *)
ServerReply(kind, id, name, left) == [kind |-> kind, of |-> id, name |-> name, left |-> left]
Serves ==
    LET c == Head(server.in)
        after(name) == IF c.kind = "sub" THEN server.subs \cup {name} ELSE server.subs \ {name}
    IN  /\ Alive /\ socket = "open" /\ server.in # <<>>
        /\ \/ /\ c.kind \in {"sub", "unsub"} /\ c.names # <<>>
              /\ LET name == Head(c.names) IN
                 server' = [server EXCEPT !.subs = after(name),
                                !.in = IF Len(c.names) = 1 THEN Tail(@) ELSE <<[c EXCEPT !.names = Tail(@)]>> \o Tail(@),
                                !.out = Append(@, ServerReply(c.kind, c.id, name, Cardinality(after(name))))]
           \/ /\ c.kind = "get"
              /\ server' = [server EXCEPT !.in = Tail(@),
                                !.out = Append(@, ServerReply(IF server.subs # {} THEN "error" ELSE "reply", c.id, "", 0))]
           \/ /\ c.kind = "monitor"
              /\ server' = [server EXCEPT !.in = Tail(@), !.monitor = TRUE,
                                !.out = Append(@, ServerReply("reply", c.id, "", 0))]
        /\ UNCHANGED <<flags, acErr, replies, invalid, subs, frames, cb, obuf, got, socket, ran, issued, told, careless, aborted>>
Publishes ==
    /\ Alive /\ socket = "open" /\ server.sent < MaxMessages
    /\ \/ \E name \in server.subs :
             server' = [server EXCEPT !.sent = @ + 1, !.out = Append(@, ServerReply("message", 0, name, 0))]
       \/ server.monitor /\ server' = [server EXCEPT !.sent = @ + 1, !.out = Append(@, ServerReply("line", 0, "", 0))]
    /\ UNCHANGED <<flags, acErr, replies, invalid, subs, frames, cb, obuf, got, socket, ran, issued, told, careless, aborted>>
Closes ==
    /\ Alive /\ socket = "open"
    /\ socket' = "closed"
    /\ \/ UNCHANGED server
       \/ server' = [server EXCEPT !.out = Append(@, ServerReply("error", 0, "", 0))] /\ server.in = <<>>
    /\ UNCHANGED <<flags, acErr, replies, invalid, subs, frames, cb, obuf, got, ran, issued, told, careless, aborted>>

NameLists == {names \in UNION {[1..k -> Names] : k \in 1..Cardinality(Names)} :
                 \A i, j \in DOMAIN names : names[i] = names[j] => i = j}
AsyncCommands == [kind : {"get", "monitor"}, names : {<<>>}]
                 \cup [kind : {"sub"}, names : NameLists]
                 \cup [kind : {"unsub"}, names : {<<n>> : n \in Names}]
Library == \/ DisconnectNow \/ CallbackReturns \/ FreeReplies \/ FreeRepliesDone \/ FreeInvalid
           \/ FreeSubs \/ Freed \/ ConnectFailed \/ HandleWrite \/ BufferWrite \/ HandleRead \/ BufferRead
           \/ NoMore \/ RegularReply \/ RanRegular \/ SpontaneousError \/ SubscribeReply \/ SubscribeAssert
AsyncNext ==
    \/ \E c \in AsyncCommands : AsyncCommand(c)
    \/ AsyncFree \/ AsyncDisconnect \/ Library \/ Serves \/ Publishes \/ Closes
AsyncSpec == AsyncInitialize /\ [][AsyncNext]_acVars /\ WF_acVars(Library) /\ WF_acVars(Serves)
-----------------------------------------------------------------------------
(* Type correctness; while the context lives, a callback runs only inside a function
   of the library that knows it may have to free the context afterwards. *)
AsyncTypeOK ==
    /\ flags \subseteq {"connected", "disconnecting", "freeing", "incallback", "subscribed", "monitoring"}
    /\ told.connect \in 0..1 /\ told.disconnect \in 0..1
    /\ Alive => ("incallback" \in flags <=> \E i \in DOMAIN frames : frames[i] = "callback")
    /\ socket = "freed" => told.disconnect = IF "connected" \in flags THEN 1 ELSE 0

Runs(id) == {i \in DOMAIN ran : ran[i].id = id}
(* The callback of a regular command is called once: with a reply or, when
   the context goes, with a null reply; never twice and never not at all,
   whatever a callback asks for while it runs. *)
CalledOnce ==
    ~ careless => \A id \in DOMAIN issued : issued[id].kind = "get" =>
        /\ Cardinality(Runs(id)) <= 1
        /\ socket = "freed" => Cardinality(Runs(id)) = 1

(* A regular callback gets the reply to its own command, and the callbacks
   of regular commands run in the order of the commands. *)
OwnReply == ~ careless =>
    /\ \A i \in DOMAIN ran : LET id == ran[i].id  reply == ran[i].reply IN
          issued[id].kind = "get" => reply.kind = "null" \/ reply.of = id \/ (reply.of = 0 /\ reply.kind = "error")
    /\ \A i, j \in DOMAIN ran : i < j /\ issued[ran[i].id].kind = "get" /\ issued[ran[j].id].kind = "get"
                                  => ran[i].id < ran[j].id

(* While the server counts the client as a subscriber of a name the library
   keeps the callback of that name: an unsubscribe that was overtaken by a
   new subscription does not take the new one's callback away. *)
Teardown == \E i \in DOMAIN frames : frames[i] \in {"free", "freeinvalid", "freesubs"}
StillHeard == ~ careless /\ Alive /\ ~ Teardown => server.subs \subseteq DOMAIN subs

(* The assertions of redisProcessCallbacks and __redisAsyncDisconnect hold. *)
NoAssertionFails == ~ careless => ~ aborted

(* Callbacks: each runs once and in order, with the reply to its own command, none
   is taken away while the server still sends to it, and no assertion fails. *)
CallbacksRight == AsyncTypeOK /\ CalledOnce /\ OwnReply /\ StillHeard /\ NoAssertionFails

(* A context that has been told to go does go, unless its peer keeps silent:
   all callbacks return, so does the teardown. *)
FreeEnds == "freeing" \in flags /\ ~ aborted ~> socket = "freed"

=============================================================================
