---------------------------- MODULE AsyncLogging ----------------------------
(***************************************************************************)
(* muduo's AsyncLogging: threads append lines to a buffer in memory, one   *)
(* thread swaps full buffers for empty ones and writes them to a LogFile,  *)
(* which is rolled by size and by period.  Two spare buffers go round, so  *)
(* that append seldom allocates; lines are dropped when there are too many *)
(* buffers.                                                                *)
(*                                                                         *)
(* A line is its number and its length, a buffer the lines in it.  A       *)
(* pointer to a buffer is Null or <<buffer>>.  The disk is never full.     *)
(***************************************************************************)
EXTENDS Naturals, FiniteSets, SequencesExt, FiniteSetsExt

CONSTANTS
    kLargeBuffer,           \* the size of a buffer
    LineLengths,            \* how long lines are
    MaxBuffers,             \* more buffers than these are dropped (25)
    rollSize,               \* a file longer than this is rolled
    checkEveryN,            \* how often LogFile looks at the time
    kRollPerSeconds,        \* the period of a file
    flushInterval,
    MaxLines, MaxSeconds    \* bounds

(* Lines come from a FixedBuffer<kSmallBuffer>, so they fit; two buffers are kept. *)
ASSUME LogAssumption ==
    /\ kLargeBuffer \in Nat /\ \A n \in LineLengths : n \in 1..kLargeBuffer - 1
    /\ MaxBuffers \in Nat /\ MaxBuffers >= 2
    /\ checkEveryN \in Nat \ {0} /\ kRollPerSeconds \in Nat \ {0}

VARIABLES
    running_, currentBuffer_, nextBuffer_, buffers_,
    newBuffer1, newBuffer2, buffersToWrite,     \* locals of threadFunc
    logAt,          \* where the logging thread is
    written,        \* buffers of buffersToWrite that have been written
    output,         \* the LogFile
    owner,          \* what the owner of the AsyncLogging does
    lines,          \* lines appended so far
    seconds         \* time(NULL)

frontVars == <<currentBuffer_, nextBuffer_, buffers_>>
backVars == <<newBuffer1, newBuffer2, buffersToWrite, written>>
logVars == <<running_, frontVars, backVars, logAt, output, owner, lines, seconds>>

Null == <<>>
Empty == <<>>
FreshBuffer == <<Empty>>
Notice == <<0, 0>>              \* the message about dropped lines

BufferLength(buffer) == FoldLeft(LAMBDA n, line : n + line[2], 0, buffer)
Avail(buffer) == kLargeBuffer - BufferLength(buffer)

-----------------------------------------------------------------------------
(* LogFile: the files, the bytes of the last one, and how much is on the disk. *)
Period(now) == now \div kRollPerSeconds
Entries(out) == FlattenSeq(out.files)
Flush(out) == [out EXCEPT !.onDisk = Len(Entries(out))]

(* A name has the second in it: within one second there is no other file. *)
RollFile(out, now) ==
    IF now <= out.lastRoll THEN out
    ELSE [Flush(out) EXCEPT !.files = Append(@, <<>>), !.bytes = 0, !.lastRoll = now,
                            !.lastFlush = now, !.startOfPeriod = Period(now)]

AppendFile(out, text) ==
    [out EXCEPT !.files[Len(out.files)] = @ \o text, !.bytes = @ + BufferLength(text)]

CheckTime(out, now) ==
    IF Period(now) # out.startOfPeriod THEN RollFile(out, now)
    ELSE IF now - out.lastFlush > flushInterval THEN Flush([out EXCEPT !.lastFlush = now])
    ELSE out

LogFileAppend(out, text, now) ==
    LET w == AppendFile(out, text)
    IN  IF w.bytes > rollSize THEN RollFile(w, now)
        ELSE IF w.count + 1 >= checkEveryN THEN CheckTime([w EXCEPT !.count = 0], now)
        ELSE [w EXCEPT !.count = @ + 1]

LogFile(now) ==
    [files |-> <<<<>>>>, bytes |-> 0, count |-> 0, lastRoll |-> now, lastFlush |-> now,
     startOfPeriod |-> Period(now), onDisk |-> 0]

-----------------------------------------------------------------------------
LogInit ==
    /\ running_ = FALSE /\ owner = "made" /\ logAt = "none"
    /\ currentBuffer_ = FreshBuffer /\ nextBuffer_ = FreshBuffer /\ buffers_ = <<>>
    /\ newBuffer1 = Null /\ newBuffer2 = Null /\ buffersToWrite = <<>> /\ written = 0
    /\ seconds = 1 /\ output = LogFile(seconds) /\ lines = 0

(* start: the thread is made, then its countDown is waited for. *)
StartLog ==
    /\ owner = "made" /\ owner' = "starting" /\ running_' = TRUE /\ logAt' = "begin"
    /\ UNCHANGED <<frontVars, backVars, output, lines, seconds>>
LatchOpen ==
    /\ owner = "starting" /\ logAt # "begin" /\ owner' = "started"
    /\ UNCHANGED <<running_, frontVars, backVars, logAt, output, lines, seconds>>

(* cond_.notify() *)
NotifyLog == logAt' = IF logAt = "waiting" THEN "woken" ELSE logAt

(* stop does not hold the mutex: its notify may come just before the wait. *)
StopLog ==
    /\ owner = "started" /\ owner' = "stopping" /\ running_' = FALSE /\ NotifyLog
    /\ UNCHANGED <<frontVars, backVars, output, lines, seconds>>
JoinLog ==
    /\ owner = "stopping" /\ logAt = "ended" /\ owner' = "stopped"
    /\ UNCHANGED <<running_, frontVars, backVars, logAt, output, lines, seconds>>

(* append, by any thread and also before start and after stop. *)
AppendLine(len) ==
    LET line == <<lines + 1, len>>
    IN  /\ lines < MaxLines /\ lines' = lines + 1
        /\ \/ /\ Avail(currentBuffer_[1]) > len
              /\ currentBuffer_' = <<Append(currentBuffer_[1], line)>>
              /\ UNCHANGED <<nextBuffer_, buffers_, logAt>>
           \/ /\ Avail(currentBuffer_[1]) <= len
              /\ buffers_' = buffers_ \o currentBuffer_
              /\ currentBuffer_' = <<Append((IF nextBuffer_ # Null THEN nextBuffer_ ELSE FreshBuffer)[1], line)>>
              /\ nextBuffer_' = Null
              /\ NotifyLog
        /\ UNCHANGED <<running_, backVars, output, owner, seconds>>

-----------------------------------------------------------------------------
(* threadFunc *)
BeginLog ==
    /\ logAt = "begin" /\ logAt' = "loop"
    /\ output' = LogFile(seconds) /\ newBuffer1' = FreshBuffer /\ newBuffer2' = FreshBuffer
    /\ UNCHANGED <<running_, frontVars, buffersToWrite, written, owner, lines, seconds>>

CheckRunning ==
    /\ logAt = "loop"
    /\ \/ running_ /\ logAt' = "lock" /\ UNCHANGED output
       \/ ~ running_ /\ logAt' = "ended" /\ output' = Flush(output)
    /\ UNCHANGED <<running_, frontVars, backVars, owner, lines, seconds>>

(* The end of the critical section, with the mutex held. *)
TakeBuffers ==
    /\ logAt' = "write" /\ written' = 0
    /\ buffersToWrite' = buffers_ \o currentBuffer_ /\ buffers_' = <<>>
    /\ currentBuffer_' = newBuffer1 /\ newBuffer1' = Null
    /\ \/ nextBuffer_ = Null /\ nextBuffer_' = newBuffer2 /\ newBuffer2' = Null
       \/ nextBuffer_ # Null /\ UNCHANGED <<nextBuffer_, newBuffer2>>
    /\ UNCHANGED <<running_, output, owner, lines, seconds>>

LockLog ==
    /\ logAt = "lock"
    /\ \/ buffers_ # <<>> /\ TakeBuffers
       \/ /\ buffers_ = <<>> /\ logAt' = "waiting"
          /\ UNCHANGED <<running_, frontVars, backVars, output, owner, lines, seconds>>
(* Mutant: wait in place of waitForSeconds. *)
WaitEndless == FALSE /\ UNCHANGED logVars
(* waitForSeconds returns at the latest after flushInterval_; "if", not "while". *)
WaitEnds ==
    /\ logAt = "waiting" /\ logAt' = "woken"
    /\ UNCHANGED <<running_, frontVars, backVars, output, owner, lines, seconds>>
Woken == logAt = "woken" /\ TakeBuffers

(* Too many: a message, and all but the first two are dropped. *)
DropBuffers ==
    /\ logAt = "write" /\ written = 0 /\ Len(buffersToWrite) > MaxBuffers
    /\ output' = LogFileAppend(output, <<Notice>>, seconds)
    /\ buffersToWrite' = SubSeq(buffersToWrite, 1, 2)
    /\ UNCHANGED <<running_, frontVars, newBuffer1, newBuffer2, written, logAt, owner, lines, seconds>>

WriteBuffer ==
    /\ logAt = "write" /\ Len(buffersToWrite) <= MaxBuffers
    /\ written < Len(buffersToWrite) /\ written' = written + 1
    /\ output' = LogFileAppend(output, buffersToWrite[written + 1], seconds)
    /\ UNCHANGED <<running_, frontVars, newBuffer1, newBuffer2, buffersToWrite, logAt, owner, lines, seconds>>

(* The spare buffers are taken from the back of the two that are kept. *)
KeptBuffers == SubSeq(buffersToWrite, 1, Min({2, Len(buffersToWrite)}))
(* Mutant: a spare buffer is not emptied. *)
ResetForgotten(buffer) == buffer
ResetBuffer(buffer) == Empty
RefillBuffers ==
    /\ logAt = "write" /\ written = Len(buffersToWrite) /\ logAt' = "loop"
    /\ newBuffer1' = <<ResetBuffer(Last(KeptBuffers))>>
    /\ newBuffer2' = IF newBuffer2 # Null THEN newBuffer2
                     ELSE IF Len(KeptBuffers) = 2 THEN <<ResetBuffer(KeptBuffers[1])>> ELSE Null
    /\ buffersToWrite' = <<>> /\ written' = 0
    /\ output' = Flush(output)
    /\ UNCHANGED <<running_, frontVars, owner, lines, seconds>>

LogThread ==
    BeginLog \/ CheckRunning \/ LockLog \/ WaitEnds \/ Woken \/ DropBuffers \/ WriteBuffer \/ RefillBuffers

SecondPasses ==
    /\ seconds < MaxSeconds /\ seconds' = seconds + 1
    /\ UNCHANGED <<running_, frontVars, backVars, logAt, output, owner, lines>>

LogNext ==
    \/ StartLog \/ LatchOpen \/ StopLog \/ JoinLog \/ LogThread \/ SecondPasses
    \/ \E len \in LineLengths : AppendLine(len)

(* The logging thread runs, and so does the thread that stops it. *)
LogFairness == WF_logVars(LogThread) /\ WF_logVars(LatchOpen \/ JoinLog)
LogSpec == LogInit /\ [][LogNext]_logVars /\ LogFairness

-----------------------------------------------------------------------------
(* What has been logged, in the order of the files and then of the buffers. *)
Logged ==
    Entries(output) \o FlattenSeq(SubSeq(buffersToWrite, written + 1, Len(buffersToWrite)))
                    \o FlattenSeq(buffers_ \o currentBuffer_)
LineNumbers(log) == [i \in DOMAIN log |-> log[i][1]]
LinesIn(log) == {i \in DOMAIN log : log[i] # Notice}
NoticesIn(log) == DOMAIN log \ LinesIn(log)
\* The lines after which the next one in the log is not the next that was appended.
Gaps(log) == {i \in LinesIn(log) : \E j \in LinesIn(log) :
                 i < j /\ log[j][1] > log[i][1] + 1 /\ \A k \in LinesIn(log) : k <= i \/ j <= k}

(* No line is lost, repeated or out of order on its way through the buffers and into
   the files, except where a message says so: each gap has a message before it. *)
LinesKept ==
    LET log == Logged
    IN  /\ \A i, j \in LinesIn(log) : i < j => log[i][1] < log[j][1]
        /\ NoticesIn(log) = {} => LineNumbers(log) = [i \in 1..lines |-> i]
        /\ \A n \in DOMAIN log : Cardinality(Gaps(log) \cap 1..n) <= Cardinality(NoticesIn(log) \cap 1..n)

(* The assertions of threadFunc: at its head both spare buffers are there and empty,
   also after buffers were dropped or append has used the next one. *)
SparesReady ==
    /\ logAt = "loop" => newBuffer1 = FreshBuffer /\ newBuffer2 = FreshBuffer /\ buffersToWrite = <<>>
    /\ logAt = "write" => buffersToWrite # <<>>
    /\ currentBuffer_ # Null /\ nextBuffer_ \in {Null, FreshBuffer}

(* The log is kept by whatever threads append, drop or roll. *)
LogKept == LinesKept /\ SparesReady

(* While the logging thread runs, a line comes to the disk, unless it is dropped: the
   first one whatever comes after it, the last one although nothing does.  And stop()
   returns although its notify may come before the wait. *)
OnDisk(n) == \E i \in 1..output.onDisk : Entries(output)[i] = Notice \/ Entries(output)[i][1] >= n
LogWritten ==
    /\ \A n \in {1, MaxLines} : running_ /\ lines >= n ~> OnDisk(n) \/ ~ running_
    /\ owner = "stopping" ~> owner = "stopped"
=============================================================================
