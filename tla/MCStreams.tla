----------------------------- MODULE MCStreams -----------------------------
(***************************************************************************)
(* What takes bytes apart and puts them together, for TLC: the buffers,    *)
(* http_parser with its wrapper, the reply reader, the strings and the     *)
(* dictionary of hiredis, the text helpers and the asynchronous log.  They *)
(* share no state, so one run checks them side by side: subject says which *)
(* of them a behaviour is about.                                           *)
(***************************************************************************)
EXTENDS Buffer, MCHttpParser, MCRedisReader, Sds, Dict, TextHelpers, AsyncLogging

VARIABLE subject

httpVars == <<input, consumed, parser, events, leftover, closed>>
sdsVars == <<str, text>>
streamVars == <<subject, buf, httpVars, readerVars, sdsVars, dictVars, helperVars, logVars>>

MCBlocks == {<<1>>, <<2, 1, 2>>}
MCLimit == <<2, 4>>
(* A NUL and a control character, a quote and a backslash, an x. *)
MCTexts == {<<1, 0>>, <<34>>, <<92, 120>>}
MCCsets == {{1, 34}}
MCOffsets == {-2, 1, 9}
MCNumbers == {-10, 7}
(* Four keys that share chains in a table of 4, two of them in one of 8. *)
MCDictKeys == {<<1>>, <<5>>, <<9>>, <<2>>, <<0, 2>>}
MCConfigKeys == {<<"a">>, <<"b", "b">>}
MCConfigValues == {<<"c", "=", "d">>, <<"d", " ">>, <<"c", "c", "c", "c">>}

-----------------------------------------------------------------------------
HttpOff == input = 0 /\ consumed = 0 /\ parser = 0 /\ events = 0 /\ leftover = 0 /\ closed = 0
ReaderOff == incoming = 0 /\ fed = 0 /\ reader = 0 /\ replies = 0 /\ drained = 0
SdsOff == str = 0 /\ text = 0
HelpersOff == typed = 0 /\ configMap = 0 /\ configFile = 0 /\ configLoaded = 0 /\ configRet = 0

StreamInit ==
    /\ BufferInit /\ DictInit /\ LogInit
    /\ \/ subject = "buffer" /\ HttpOff /\ ReaderOff /\ SdsOff /\ HelpersOff
       \/ subject = "http" /\ Init /\ ReaderOff /\ SdsOff /\ HelpersOff
       \/ subject = "redis" /\ ReaderInit /\ HttpOff /\ SdsOff /\ HelpersOff
       \/ subject \in {"dict", "log"} /\ HttpOff /\ ReaderOff /\ SdsOff /\ HelpersOff
       \/ subject = "sds" /\ SdsInit /\ HttpOff /\ ReaderOff /\ HelpersOff
       \/ subject = "helpers" /\ HelperInit /\ HttpOff /\ ReaderOff /\ SdsOff

StreamNext ==
    /\ \/ subject = "buffer" /\ BufferNext /\ UNCHANGED <<httpVars, readerVars, sdsVars, dictVars, helperVars, logVars>>
       \/ subject = "http" /\ Next /\ UNCHANGED <<buf, readerVars, sdsVars, dictVars, helperVars, logVars>>
       \/ subject = "redis" /\ ReaderNext /\ UNCHANGED <<buf, httpVars, sdsVars, dictVars, helperVars, logVars>>
       \/ subject = "sds" /\ SdsNext /\ UNCHANGED <<buf, httpVars, readerVars, dictVars, helperVars, logVars>>
       \/ subject = "dict" /\ DictStep /\ UNCHANGED <<buf, httpVars, readerVars, sdsVars, helperVars, logVars>>
       \/ subject = "helpers" /\ HelperNext /\ UNCHANGED <<buf, httpVars, readerVars, sdsVars, dictVars, logVars>>
       \/ subject = "log" /\ LogNext /\ UNCHANGED <<buf, httpVars, readerVars, sdsVars, dictVars, helperVars>>
    /\ UNCHANGED subject

(* Only the log has something that must happen. *)
StreamSpec ==
    /\ StreamInit /\ [][StreamNext]_streamVars
    /\ WF_logVars(subject = "log" /\ LogThread)
    /\ WF_logVars(subject = "log" /\ (LatchOpen \/ JoinLog))

-----------------------------------------------------------------------------
(* However the bytes of a request are cut into pieces, http_parser ends where one
   call with all of them would: OnRead parses the same bytes again and again.  It
   reports a well-formed text as what it means and with its last byte, finds the parts
   of its URL, and refuses a malformed text for its reason; none of its assertions
   fails.  CHttpParserWrapper has a complete request exactly when all of it has been
   received, with its URL, its body and its headers. *)
HttpExact ==
    subject = "http" =>
        PiecesInvisible /\ Asserts /\ Understood /\ CompleteOnTime /\ UrlParts /\ WrapperSees

(* redisReader: however a stream is cut, the replies are those that were
   written, each with its last byte; a command is as long as was computed
   for it, and read by the server as its arguments. *)
ReaderExact == subject = "redis" => ReaderTypeOK /\ RepliesExact /\ CommandFits

(* sds: whatever is appended, cut or moved between headers, the string holds
   what it should and fits its block; splitting is undone by joining, quoting
   by sdssplitargs.  dict: what was put in is found, however the table has grown,
   and an iterator gives out every entry once. *)
ContainersExact ==
    /\ subject = "sds" => SdsSound /\ TextExact /\ SplitJoins /\ ReprParses
    /\ subject = "dict" => DictSound /\ FindExact /\ AllVisited

(* The text helpers of api_common.cc and util.cc give what they are for, and what
   CConfigFileReader writes is what it reads again. *)
HelpersExact == subject = "helpers" => HelpersRight /\ ConfigKept
=============================================================================
