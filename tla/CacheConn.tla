----------------------------- MODULE CacheConn ------------------------------
(***************************************************************************)
(* One CacheConn of a pool: the thread that has taken it calls its methods *)
(* one after the other; each (re)connects if need be, sends its command    *)
(* over a blocking redisContext and waits for the reply.                   *)
(*                                                                         *)
(* A command and a reply are two bytes on the wire, so that both are       *)
(* written and read in parts.  Time is seen only as "a second has passed   *)
(* since the last attempt to connect".                                     *)
(***************************************************************************)
EXTENDS Naturals, Sequences, FiniteSets

CONSTANTS
    CacheMethods,       \* the methods called
    HasPassword,        \* password_ is not empty
    LoginRefusals,      \* which of AUTH and SELECT are refused, once each
    MaxDrops,           \* connections lost
    MaxOutages,         \* times the server is away
    MaxRefusals         \* error replies to other commands

(* The methods of CacheConn are not the commands of its login. *)
ASSUME MethodsAssumption == CacheMethods \cap {"AUTH", "SELECT", ""} = {}

(* Calls are numbered modulo this bound. *)
Calls == 3

VARIABLES
    context,    \* context_: Null or the redisContext
    tooSoon,    \* less than a second since last_connect_time_
    call,       \* what the thread does
    result,     \* what the last method returned
    link,       \* the connection: bytes under way in both directions
    fds,        \* sockets the process has open
    up,         \* the server can be reached
    died,       \* the process has ended on a null pointer
    drops, outages, refusals, logins

cacheVars == <<context, tooSoon, call, result, link, fds, up, died, drops, outages, refusals, logins>>
limits == <<drops, outages, refusals, logins>>

Null == [null |-> TRUE]
IsNull(c) == c.null
NoLink == [open |-> FALSE, out |-> <<>>, back |-> <<>>, authed |-> FALSE]
NoCall == [at |-> "idle", method |-> "", n |-> 0, cmd |-> ""]
NoReply == [type |-> "none", n |-> 0, cmd |-> ""]

CacheInit ==
    /\ context = Null /\ tooSoon = FALSE /\ call = NoCall
    /\ result = [value |-> "none", reply |-> NoReply, n |-> 0, cmd |-> ""]
    /\ link = NoLink /\ fds = 0 /\ up = TRUE /\ died = FALSE
    /\ drops = 0 /\ outages = 0 /\ refusals = 0 /\ logins = {}

-----------------------------------------------------------------------------
(* redisContextInit and redisFree. *)
NewContext == [null |-> FALSE, err |-> "", obuf |-> <<>>, reader |-> <<>>]
\* Mutant: the context is kept after a null reply.
RedisFreeKept == UNCHANGED <<context, fds, link>>
RedisFree == context' = Null /\ fds' = fds - 1 /\ link' = NoLink

(* What a method makes of its reply. *)
Failed == "failed"
IfType(reply, type, otherwise) == IF reply.type = type THEN "value" ELSE otherwise
Get(reply) == IfType(reply, "string", "empty")
Hget(reply) == IfType(reply, "string", "empty")
HgetInto(reply) == IfType(reply, "string", Failed)
Set(reply) == "text"
SetEx(reply) == "text"
Hmset(reply) == "text"
MGet(reply) == IfType(reply, "array", "empty")
HgetAll(reply) == IfType(reply, "array", "empty")
Hmget(reply) == IfType(reply, "array", "empty")
Lrange(reply) == IfType(reply, "array", "empty")
IsExists(reply) == IfType(reply, "integer", "zero")
Del(reply) == IfType(reply, "integer", "zero")
Hdel(reply) == IfType(reply, "integer", "zero")
Hset(reply) == IfType(reply, "integer", "zero")
HincrBy(reply) == IfType(reply, "integer", "zero")
IncrBy(reply) == IfType(reply, "integer", "zero")
Incr(reply) == IfType(reply, "integer", "zero")
Decr(reply) == IfType(reply, "integer", "zero")
Lpush(reply) == IfType(reply, "integer", "zero")
Rpush(reply) == IfType(reply, "integer", "zero")
Llen(reply) == IfType(reply, "integer", "zero")
ZsetExist(reply) == IfType(reply, "integer", Failed)
ZsetAdd(reply) == IfType(reply, "integer", Failed)
ZsetZrem(reply) == IfType(reply, "integer", Failed)
ZsetIncr(reply) == Failed                   \* the score is never "OK"
ZsetZcard(reply) == IfType(reply, "integer", Failed)
ZsetZrevrange(reply) == IfType(reply, "array", Failed)
ZsetGetScore(reply) == IfType(reply, "string", Failed)
FlushDb(reply) == Failed                    \* "OK" comes as a status, not as a string

Returned(method, reply) ==
    CASE method = "Get" -> Get(reply) [] method = "Hget" -> Hget(reply)
      [] method = "HgetInto" -> HgetInto(reply)
      [] method = "Set" -> Set(reply) [] method = "SetEx" -> SetEx(reply) [] method = "Hmset" -> Hmset(reply)
      [] method = "MGet" -> MGet(reply) [] method = "HgetAll" -> HgetAll(reply)
      [] method = "Hmget" -> Hmget(reply) [] method = "Lrange" -> Lrange(reply)
      [] method = "IsExists" -> IsExists(reply) [] method = "Del" -> Del(reply)
      [] method = "Hdel" -> Hdel(reply) [] method = "Hset" -> Hset(reply)
      [] method = "HincrBy" -> HincrBy(reply) [] method = "IncrBy" -> IncrBy(reply)
      [] method = "Incr" -> Incr(reply) [] method = "Decr" -> Decr(reply)
      [] method = "Lpush" -> Lpush(reply) [] method = "Rpush" -> Rpush(reply) [] method = "Llen" -> Llen(reply)
      [] method = "ZsetExist" -> ZsetExist(reply) [] method = "ZsetAdd" -> ZsetAdd(reply)
      [] method = "ZsetZrem" -> ZsetZrem(reply) [] method = "ZsetIncr" -> ZsetIncr(reply)
      [] method = "ZsetZcard" -> ZsetZcard(reply) [] method = "ZsetZrevrange" -> ZsetZrevrange(reply)
      [] method = "ZsetGetScore" -> ZsetGetScore(reply) [] method = "FlushDb" -> FlushDb(reply)

(* What a method returns when it has no connection or no reply. *)
Unreached(method) ==
    IF method \in {"Get", "Hget", "Set", "SetEx", "Hmset"} THEN "empty"
    ELSE IF method \in {"IsExists", "Del"} THEN "zero" ELSE Failed

Strings == {"Get", "Hget", "HgetInto", "ZsetIncr", "ZsetGetScore"}
Statuses == {"AUTH", "SELECT", "Set", "SetEx", "Hmset", "FlushDb"}
ArrayMethods == {"MGet", "HgetAll", "Hmget", "Lrange", "ZsetZrevrange"}
ReplyType(cmd) ==
    IF cmd \in Strings THEN "string" ELSE IF cmd \in Statuses THEN "status"
    ELSE IF cmd \in ArrayMethods THEN "array" ELSE "integer"

(* The methods that look at the reply without asking whether there is one. *)
Unchecked == {"ZsetExist", "ZsetAdd", "ZsetZrem", "ZsetIncr", "ZsetZcard", "ZsetZrevrange", "ZsetGetScore"}

-----------------------------------------------------------------------------
(* __redisAppendCommand.  What is appended after an error is never sent, and
   left out here: the buffer only grows. *)
Send(cmd) ==
    LET byte == [n |-> call.n, cmd |-> cmd] IN
    /\ call' = [call EXCEPT !.at = "pending", !.cmd = cmd]
    /\ context' = IF context.err # "" THEN context ELSE [context EXCEPT !.obuf = @ \o <<byte, byte>>]
Return(value, reply) ==
    /\ call' = [NoCall EXCEPT !.n = call.n]
    /\ result' = [value |-> value, reply |-> reply, n |-> call.n, cmd |-> call.method]

Enter(method) ==
    /\ call.at = "idle" /\ ~ died
    /\ call' = [at |-> "init", method |-> method, n |-> (call.n + 1) % Calls, cmd |-> ""]
    /\ UNCHANGED <<context, tooSoon, result, link, fds, up, died, limits>>

(* CacheConn::Init, then the method's own command. *)
Init_Connected ==
    /\ call.at = "init" /\ ~ IsNull(context)
    /\ Send(call.method)
    /\ UNCHANGED <<tooSoon, result, link, fds, up, died, limits>>

(* ZsetIncr gives 0 for a failed Init, which elsewhere means success. *)
NotConnected == IF call.method = "ZsetIncr" THEN "zero" ELSE Unreached(call.method)
Init_TooSoon ==
    /\ call.at = "init" /\ IsNull(context) /\ tooSoon
    /\ Return(NotConnected, NoReply)
    /\ UNCHANGED <<context, tooSoon, link, fds, up, died, limits>>

(* redisConnectWithTimeout: refused, unreachable and timed out are all alike. *)
Init_Connect ==
    /\ call.at = "init" /\ IsNull(context) /\ ~ tooSoon
    /\ tooSoon' = TRUE
    /\ \/ /\ up
          /\ link' = [NoLink EXCEPT !.open = TRUE, !.authed = ~ HasPassword]
          /\ fds' = fds + 1
          /\ context' = NewContext
          /\ call' = [call EXCEPT !.at = IF HasPassword THEN "auth" ELSE "select"]
          /\ UNCHANGED result
       \/ /\ ~ up
          /\ Return(NotConnected, NoReply)
          /\ UNCHANGED <<link, fds, context>>
    /\ UNCHANGED <<up, died, limits>>
Init_Auth ==
    /\ call.at = "auth" /\ Send("AUTH")
    /\ UNCHANGED <<tooSoon, result, link, fds, up, died, limits>>
Init_Select ==
    /\ call.at = "select" /\ Send("SELECT")
    /\ UNCHANGED <<tooSoon, result, link, fds, up, died, limits>>

(* redisCommand gives NULL: Init, the sorted set methods and the Hget into
   a buffer leave the context; the others free it. *)
NullReply ==
    \/ /\ call.cmd \in {"AUTH", "SELECT"}
       /\ Return(NotConnected, NoReply)
       /\ UNCHANGED <<context, fds, link, died>>
    \/ /\ call.cmd \in Unchecked
       /\ died' = TRUE /\ context' = Null /\ fds' = 0 /\ link' = NoLink
       /\ call' = NoCall /\ UNCHANGED result
    \/ /\ call.cmd = "HgetInto"
       /\ Return(Failed, NoReply)
       /\ UNCHANGED <<context, fds, link, died>>
    \/ /\ call.cmd \in CacheMethods \ (Unchecked \cup {"HgetInto"})
       /\ RedisFree
       /\ Return(Unreached(call.method), NoReply)
       /\ UNCHANGED died

(* A reply: Init goes on or gives up, keeping the context; a method returns. *)
Reply(reply) ==
    \/ /\ call.cmd \in {"AUTH", "SELECT"} /\ reply.type = "error"
       /\ Return(NotConnected, NoReply)
    \/ /\ call.cmd = "AUTH" /\ reply.type # "error"
       /\ call' = [call EXCEPT !.at = "select"] /\ UNCHANGED result
    \/ /\ call.cmd = "SELECT" /\ reply.type # "error"
       /\ call' = [call EXCEPT !.at = "init"] /\ UNCHANGED result
    \/ /\ call.cmd \in CacheMethods
       /\ Return(Returned(call.method, reply), reply)

-----------------------------------------------------------------------------
(* redisGetReply: what the reader has; else write all, then read until there
   is a reply.  An error is kept in err and ends every later attempt. *)
HasReply == Len(context.reader) >= 2
SetErr(why) == context' = [context EXCEPT !.err = why]

GetReply_Pending ==
    /\ call.at = "pending"
    /\ call' = [call EXCEPT !.at = IF HasReply THEN "reply" ELSE "write"]
    /\ UNCHANGED <<context, tooSoon, result, link, fds, up, died, limits>>

(* redisBufferWrite. *)
Write_Some ==
    /\ call.at = "write" /\ context.err = "" /\ link.open
    /\ \E k \in 1..Len(context.obuf) :
          /\ link' = [link EXCEPT !.out = @ \o SubSeq(context.obuf, 1, k)]
          /\ context' = [context EXCEPT !.obuf = SubSeq(@, k + 1, Len(@))]
          /\ call' = IF k = Len(context.obuf) THEN [call EXCEPT !.at = "read"] ELSE call
    /\ UNCHANGED <<tooSoon, result, fds, up, died, limits>>
Write_Error ==
    /\ call.at = "write" /\ context.err = "" /\ ~ link.open
    /\ SetErr("IO")
    /\ UNCHANGED <<tooSoon, call, result, link, fds, up, died, limits>>

(* redisBufferRead and redisGetReplyFromReader. *)
Read_Some ==
    /\ call.at = "read" /\ context.err = "" /\ link.back # <<>>
    /\ \E k \in 1..Len(link.back) :
          /\ context' = [context EXCEPT !.reader = @ \o SubSeq(link.back, 1, k)]
          /\ link' = [link EXCEPT !.back = SubSeq(@, k + 1, Len(@))]
    /\ call' = IF Len(context'.reader) >= 2 THEN [call EXCEPT !.at = "reply"] ELSE call
    /\ UNCHANGED <<tooSoon, result, fds, up, died, limits>>
Read_Eof ==
    /\ call.at = "read" /\ context.err = "" /\ link.back = <<>> /\ ~ link.open
    /\ SetErr("EOF")
    /\ UNCHANGED <<tooSoon, call, result, link, fds, up, died, limits>>

GetReply_Failed ==
    /\ call.at \in {"write", "read"} /\ context.err # ""
    /\ NullReply
    /\ UNCHANGED <<tooSoon, up, limits>>

\* Mutant: the reader keeps a reply it has given.
TakeReplyKept ==
    /\ call.at = "reply"
    /\ Reply(context.reader[1])
    /\ UNCHANGED <<context, tooSoon, link, fds, up, died, limits>>

TakeReply ==
    /\ call.at = "reply"
    /\ Reply(context.reader[1])
    /\ context' = [context EXCEPT !.reader = SubSeq(@, 3, Len(@))]
    /\ UNCHANGED <<tooSoon, link, fds, up, died, limits>>
Conn == \/ Init_Connected \/ Init_TooSoon \/ Init_Connect \/ Init_Auth \/ Init_Select
        \/ GetReply_Pending \/ Write_Some \/ Write_Error \/ Read_Some \/ Read_Eof
        \/ GetReply_Failed \/ TakeReply

-----------------------------------------------------------------------------
(* The server: it answers the commands of a connection in order; it may
   answer with an error, close the connection with answers still under way,
   or be away for a while. *)
Answer(type) ==
    LET answer == [n |-> link.out[1].n, cmd |-> link.out[1].cmd, type |-> type]
    IN  link' = [link EXCEPT !.out = SubSeq(@, 3, Len(@)), !.back = @ \o <<answer, answer>>,
                             !.authed = @ \/ (answer.cmd = "AUTH" /\ type = "status")]
Serve ==
    /\ link.open /\ Len(link.out) >= 2
    /\ LET cmd == link.out[1].cmd IN
       \/ /\ link.authed \/ cmd = "AUTH"
          /\ Answer(ReplyType(cmd)) /\ UNCHANGED <<logins, refusals>>
       \/ /\ ~ link.authed /\ cmd # "AUTH"
          /\ Answer("error") /\ UNCHANGED <<logins, refusals>>
       \/ /\ cmd \in LoginRefusals \ logins
          /\ Answer("error") /\ logins' = logins \cup {cmd} /\ UNCHANGED refusals
       \/ /\ cmd \in CacheMethods /\ refusals < MaxRefusals
          /\ Answer("error") /\ refusals' = refusals + 1 /\ UNCHANGED logins
    /\ UNCHANGED <<context, tooSoon, call, result, fds, up, died, drops, outages>>

Lost == \E k \in 0..Len(link.back) :
           link' = [link EXCEPT !.open = FALSE, !.out = <<>>, !.back = SubSeq(@, 1, k)]
Drop ==
    /\ link.open /\ drops < MaxDrops
    /\ drops' = drops + 1 /\ Lost
    /\ UNCHANGED <<context, tooSoon, call, result, fds, up, died, outages, refusals, logins>>
GoDown ==
    /\ up /\ outages < MaxOutages
    /\ up' = FALSE /\ outages' = outages + 1 /\ Lost
    /\ UNCHANGED <<context, tooSoon, call, result, fds, died, drops, refusals, logins>>
ComeUp ==
    /\ ~ up /\ up' = TRUE
    /\ UNCHANGED <<context, tooSoon, call, result, link, fds, died, limits>>
(* A second goes by. *)
Tick ==
    /\ tooSoon /\ tooSoon' = FALSE
    /\ UNCHANGED <<context, call, result, link, fds, up, died, limits>>
Restart ==
    /\ died /\ died' = FALSE /\ tooSoon' = FALSE
    /\ UNCHANGED <<context, call, result, link, fds, up, limits>>

CacheNext ==
    \/ \E method \in CacheMethods : Enter(method)
    \/ Conn \/ Serve \/ Drop \/ GoDown \/ ComeUp \/ Tick \/ Restart

(* A blocked thread is resumed, the server answers what it has received, and
   time passes; nothing makes the server fail. *)
CacheSpec ==
    /\ CacheInit /\ [][CacheNext]_cacheVars
    /\ WF_cacheVars(Conn) /\ WF_cacheVars(\E method \in CacheMethods : Enter(method))
    /\ WF_cacheVars(Serve) /\ WF_cacheVars(ComeUp) /\ WF_cacheVars(Tick) /\ WF_cacheVars(Restart)

-----------------------------------------------------------------------------
(* A CacheConn holds one socket while it has a context and none without: no
   way out of Init or of a method loses one or closes one twice. *)
CacheTypeOK ==
    /\ call.n \in 0..Calls - 1 /\ call.method \in CacheMethods \cup {""}
    /\ tooSoon \in BOOLEAN /\ up \in BOOLEAN /\ died \in BOOLEAN
    /\ fds = IF IsNull(context) THEN 0 ELSE 1
    /\ call.at \in {"auth", "select", "pending", "write", "read", "reply"} => ~ IsNull(context)

(* The reply a method works on answers the command it has just sent, never
   one left over from a call, a login or a connection that failed before. *)
ReplyOwn ==
    result.reply # NoReply => result.reply.n = result.n /\ result.reply.cmd = result.cmd

(* One CacheConn, one socket, and its own replies. *)
ConnKept == CacheTypeOK /\ ReplyOwn

(* Why: while the context has no error, what is under way in its buffers and on the
   link belongs to the command at work, and nothing is under way between two
   commands; a context with an error never gets another reply, whole or not. *)
Between == {"idle", "init", "auth", "select"}
Waiting == {"pending", "write", "read", "reply"}
Commands == CacheMethods \cup {"AUTH", "SELECT"}
CommandBytes == [n : 0..Calls - 1, cmd : Commands]
ReplyBytes == [n : 0..Calls - 1, cmd : Commands, type : {"string", "status", "array", "integer", "error"}]
Contexts == [null : {FALSE}, err : {"", "IO", "EOF"}, obuf : Seq(CommandBytes), reader : Seq(ReplyBytes)]
Links == [open : BOOLEAN, out : Seq(CommandBytes), back : Seq(ReplyBytes), authed : BOOLEAN]
CallStates == [at : Between \cup Waiting, method : CacheMethods \cup {""}, n : 0..Calls - 1, cmd : Commands \cup {""}]
CallInv ==
    /\ call \in CallStates
    /\ call.at # "idle" => call.method \in CacheMethods
    /\ call.at \in Waiting => call.cmd \in {"AUTH", "SELECT", call.method}
ContextInv == context = Null \/ context \in Contexts
SocketInv ==
    /\ IsNull(context) => fds = 0
    /\ ~ IsNull(context) => fds = 1
    /\ call.at \in {"auth", "select", "pending", "write", "read", "reply"} => ~ IsNull(context)
FlagsInv == tooSoon \in BOOLEAN /\ up \in BOOLEAN /\ died \in BOOLEAN
Belong(bytes, c) == \A i \in 1..Len(bytes) : bytes[i].n = c.n /\ bytes[i].cmd = c.cmd
WireInv ==
    /\ link.open => ~ IsNull(context) /\ context.err = ""
    /\ ~ IsNull(context) =>
          /\ context.err # "" => Len(context.reader) < 2 /\ call.at # "reply"
          /\ context.err = "" =>
                /\ call.at \in Waiting =>
                    /\ Belong(context.obuf, call) /\ Belong(link.out, call)
                    /\ Belong(link.back, call) /\ Belong(context.reader, call)
                /\ call.at \in Between \cup {"pending", "write"} => link.back = <<>> /\ context.reader = <<>>
                /\ call.at \in Between \cup {"pending"} => link.out = <<>>
                /\ call.at \in Between \cup {"read", "reply"} => context.obuf = <<>>
                /\ call.at \in {"pending", "write"} => Len(context.obuf) > 0
                /\ call.at = "read" => Len(context.reader) < 2
                /\ call.at = "reply" => Len(context.reader) = 2
                /\ Len(context.obuf) + Len(link.out) + Len(link.back) + Len(context.reader) <= 2
ConnInv == CallInv /\ ContextInv /\ link \in Links /\ SocketInv /\ FlagsInv /\ WireInv /\ ReplyOwn

(* The connection heals by itself: once the server stays up, every call from
   some point on gets an answer that is no error, although no call asks first
   whether the connection still works.  Two things would prevent it: a refused
   AUTH, after which the context is kept and never logged in again, and an
   endless run of the one method that keeps a broken context. *)
Recovers ==
    <>[]("AUTH" \notin logins /\ call.method # "HgetInto")
        => <>[](result.reply.type \notin {"none", "error"})

(* "Redis operation fails - write a log and go on": losing Redis does not
   end the process. *)
SurvivesRedis == ~ died

=============================================================================
