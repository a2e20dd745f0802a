----------------------------- MODULE FdfsTools ------------------------------
(***************************************************************************)
(* FastDFS as the server uses it: child processes that print on a pipe     *)
(* (uploadFileToFastDfs, getFullUrlByFileid) or are run by system()        *)
(* (RemoveFileFromFastDfs), by several worker threads of one process.      *)
(* wait(NULL) reaps whichever child has ended; a child that is forked      *)
(* between another thread's pipe() and close() keeps that pipe open.       *)
(*                                                                         *)
(* Calls are numbered; a call, its pipe and its child share the number.    *)
(* fdfs_file_info can be executed: otherwise the child goes on as a second *)
(* copy of the server (README).                                            *)
(***************************************************************************)
EXTENDS Integers, FiniteSets

CONSTANTS
    ToolUsers,      \* the threads
    MaxTools        \* bound: calls made

ASSUME ToolAssumption == MaxTools \in Nat

VARIABLES
    toolAt,         \* toolAt[t]: where thread t is
    tool,           \* tool[t]: its call
    made,           \* calls made
    child,          \* child[k]: "none", "running", "zombie", "reaped"
    worked,         \* the calls whose child has done its work and printed
    unread,         \* the pipes with something to read
    readFds,        \* fd[0] of these calls is open in the server
    writeFds,       \* fd[1] of these calls is open in the server
    inherited,      \* inherited[k]: the pipes whose fd[1] the child of k holds
    leaked,         \* pipes getFullUrlByFileid has left open
    lies,           \* calls that returned success without the work (history)
    gone            \* waits that found no child (history)

toolVars == <<toolAt, tool, made, child, worked, unread, readFds, writeFds, inherited, leaked, lies, gone>>
pipeVars == <<unread, readFds, writeFds, inherited, leaked>>
callVars == <<tool, worked, lies>>

Tools == 1..MaxTools
NoTool == 0
Unreaped == {k \in Tools : child[k] \in {"running", "zombie"}}
Zombies == {k \in Tools : child[k] = "zombie"}

(* All copies of fd[1] are closed. *)
Eof(k) == k \notin writeFds /\ \A j \in Tools : k \notin inherited[j]

ToolInit ==
    /\ toolAt = [t \in ToolUsers |-> "idle"] /\ tool = [t \in ToolUsers |-> NoTool]
    /\ child = [k \in Tools |-> "none"] /\ inherited = [k \in Tools |-> {}]
    /\ worked = {} /\ unread = {} /\ readFds = {} /\ writeFds = {} /\ leaked = {}
    /\ made = 0 /\ lies = 0 /\ gone = 0

ToolGoto(t, there) == toolAt' = [toolAt EXCEPT ![t] = there]
ToolReturn(t, what) ==
    /\ ToolGoto(t, "idle")
    /\ tool' = [tool EXCEPT ![t] = NoTool]
    /\ worked' = worked \ {tool[t]}
    /\ lies' = IF what = "ok" /\ tool[t] \notin worked THEN lies + 1 ELSE lies

-----------------------------------------------------------------------------
Calling(t, there) ==
    /\ toolAt[t] = "idle" /\ made < MaxTools
    /\ made' = made + 1
    /\ tool' = [tool EXCEPT ![t] = made + 1]
    /\ ToolGoto(t, there)
    /\ UNCHANGED <<child, worked, pipeVars, lies, gone>>

CallUpload(t) == Calling(t, "up_pipe")
CallUrl(t) == Calling(t, "url_pipe")
CallRemove(t) == Calling(t, "rm_fork")

(* pipe(fd) < 0 ends both functions. *)
Pipe(t, here, there) ==
    /\ toolAt[t] = here
    /\ \/ /\ readFds' = readFds \cup {tool[t]} /\ writeFds' = writeFds \cup {tool[t]}
          /\ ToolGoto(t, there)
          /\ UNCHANGED callVars
       \/ ToolReturn(t, "failed") /\ UNCHANGED <<readFds, writeFds>>
    /\ UNCHANGED <<made, child, unread, inherited, leaked, gone>>

(* The child has a copy of every descriptor of the server. *)
Forked(t) ==
    /\ child' = [child EXCEPT ![tool[t]] = "running"]
    /\ inherited' = [inherited EXCEPT ![tool[t]] = writeFds]

UploadFork(t) ==
    /\ toolAt[t] = "up_fork"
    /\ \/ /\ Forked(t) /\ ToolGoto(t, "up_close")
          /\ UNCHANGED <<callVars, readFds, writeFds>>
       \/ /\ readFds' = readFds \ {tool[t]} /\ writeFds' = writeFds \ {tool[t]}
          /\ ToolReturn(t, "failed")
          /\ UNCHANGED <<child, inherited>>
    /\ UNCHANGED <<made, unread, leaked, gone>>

(* A failed fork leaves both ends of the pipe open for good. *)
UrlFork(t) ==
    /\ toolAt[t] = "url_fork"
    /\ \/ /\ Forked(t) /\ ToolGoto(t, "url_close")
          /\ UNCHANGED <<callVars, leaked>>
       \/ /\ ToolReturn(t, "failed") /\ leaked' = leaked \cup {tool[t]}
          /\ UNCHANGED <<child, inherited>>
    /\ UNCHANGED <<made, unread, readFds, writeFds, gone>>

CloseWriteEnd(t, here, there) ==
    /\ toolAt[t] = here /\ ToolGoto(t, there)
    /\ writeFds' = writeFds \ {tool[t]}
    /\ UNCHANGED <<callVars, made, child, unread, readFds, inherited, leaked, gone>>

Readable(k) == k \in unread \/ Eof(k)
CloseReadEnd(t) == readFds' = readFds \ {tool[t]} /\ unread' = unread \ {tool[t]}

(* Mutant: whoever has lost patience does not wait for the child. *)
SelectImpatient(t) ==
    /\ toolAt[t] = "up_select"
    /\ \/ /\ Readable(tool[t]) /\ ToolGoto(t, "up_read")
          /\ UNCHANGED <<callVars, readFds, unread>>
       \/ CloseReadEnd(t) /\ ToolReturn(t, "failed")
    /\ UNCHANGED <<made, child, writeFds, inherited, leaked, gone>>

(* select() with 30 seconds. *)
Select(t) ==
    /\ toolAt[t] = "up_select"
    /\ \/ Readable(tool[t]) /\ ToolGoto(t, "up_read") /\ UNCHANGED <<readFds, unread>>
       \/ CloseReadEnd(t) /\ ToolGoto(t, "up_give_up")
    /\ UNCHANGED <<callVars, made, child, writeFds, inherited, leaked, gone>>

UploadRead(t) ==
    /\ toolAt[t] = "up_read"
    /\ CloseReadEnd(t)
    /\ ToolGoto(t, IF tool[t] \in unread THEN "up_waitpid" ELSE "up_give_up")
    /\ UNCHANGED <<callVars, made, child, writeFds, inherited, leaked, gone>>

(* waitpid(pid) of the own child: it ends, or wait(NULL) has reaped it before. *)
Reap(k) == child' = [child EXCEPT ![k] = "reaped"]
WaitPid(t, here, taken, found) ==
    /\ toolAt[t] = here
    /\ \/ child[tool[t]] = "zombie" /\ Reap(tool[t]) /\ ToolReturn(t, taken) /\ UNCHANGED gone
       \/ /\ child[tool[t]] = "reaped" /\ gone' = gone + 1 /\ UNCHANGED child
          /\ \E what \in found : ToolReturn(t, what)
    /\ UNCHANGED <<made, pipeVars>>

(* Without its child the thread looks at a status that was never set. *)
UploadWait(t) ==
    WaitPid(t, "up_waitpid", IF tool[t] \in worked THEN "ok" ELSE "failed", {"ok", "failed"})
UploadGiveUp(t) == WaitPid(t, "up_give_up", "failed", {"failed"})

UrlRead(t) ==
    /\ toolAt[t] = "url_read" /\ Readable(tool[t])
    /\ unread' = unread \ {tool[t]}
    /\ ToolGoto(t, IF tool[t] \in unread THEN "url_wait" ELSE "url_wait_empty")
    /\ UNCHANGED <<callVars, made, child, readFds, writeFds, inherited, leaked, gone>>

(* wait(NULL), then the address is looked for in what was read. *)
UrlWait(t) ==
    /\ toolAt[t] \in {"url_wait", "url_wait_empty"}
    /\ \/ \E k \in Zombies : Reap(k) /\ UNCHANGED gone
       \/ Unreaped = {} /\ gone' = gone + 1 /\ UNCHANGED child
    /\ CloseReadEnd(t)
    /\ ToolReturn(t, IF toolAt[t] = "url_wait" THEN "ok" ELSE "failed")
    /\ UNCHANGED <<made, writeFds, inherited, leaked>>

(* system(): fork and waitpid. *)
RemoveFork(t) ==
    /\ toolAt[t] = "rm_fork"
    /\ \/ Forked(t) /\ ToolGoto(t, "rm_wait") /\ UNCHANGED callVars
       \/ ToolReturn(t, "failed") /\ UNCHANGED <<child, inherited>>
    /\ UNCHANGED <<made, unread, readFds, writeFds, leaked, gone>>
RemoveWait(t) == WaitPid(t, "rm_wait", IF tool[t] \in worked THEN "ok" ELSE "failed", {"failed"})

-----------------------------------------------------------------------------
(* The tools: one does its work and says so on its pipe, if it can.  What it does
   after its call is over is not seen here. *)
ToolWorks(k) ==
    /\ child[k] = "running" /\ k \notin worked
    /\ \E t \in ToolUsers : tool[t] = k
    /\ worked' = worked \cup {k}
    /\ unread' = IF k \in readFds THEN unread \cup {k} ELSE unread
    /\ UNCHANGED <<toolAt, tool, made, child, readFds, writeFds, inherited, leaked, lies, gone>>
ToolEnds(k) ==
    /\ child[k] = "running"
    /\ child' = [child EXCEPT ![k] = "zombie"]
    /\ inherited' = [inherited EXCEPT ![k] = {}]
    /\ UNCHANGED <<toolAt, callVars, made, unread, readFds, writeFds, leaked, gone>>

ToolCall(t) == CallUpload(t) \/ CallUrl(t) \/ CallRemove(t)
ToolStep(t) ==
    \/ Pipe(t, "up_pipe", "up_fork") \/ UploadFork(t) \/ CloseWriteEnd(t, "up_close", "up_select")
    \/ Select(t) \/ UploadRead(t) \/ UploadWait(t) \/ UploadGiveUp(t)
    \/ Pipe(t, "url_pipe", "url_fork") \/ UrlFork(t) \/ CloseWriteEnd(t, "url_close", "url_read")
    \/ UrlRead(t) \/ UrlWait(t)
    \/ RemoveFork(t) \/ RemoveWait(t)

ToolNext ==
    \/ \E t \in ToolUsers : ToolCall(t) \/ ToolStep(t)
    \/ \E k \in Tools : ToolWorks(k) \/ ToolEnds(k)

(* Threads run and tools end; nobody has to call, and no tool has to do its work. *)
ToolFairness ==
    /\ \A t \in ToolUsers : WF_toolVars(ToolStep(t))
    /\ \A k \in Tools : WF_toolVars(ToolEnds(k))
ToolSpec == ToolInit /\ [][ToolNext]_toolVars /\ ToolFairness

-----------------------------------------------------------------------------
ToolTypeOK ==
    /\ \A t \in ToolUsers : toolAt[t] = "idle" <=> tool[t] = NoTool
    /\ \A t, s \in ToolUsers : tool[t] = tool[s] /\ t # s => tool[t] = NoTool
    /\ writeFds \subseteq readFds /\ unread \subseteq readFds /\ gone \in 0..MaxTools

(* How far a call has come: nothing is forked yet; its child is still to be waited for;
   its pipe is open; the server may still hold the end to write to. *)
UnforkedPCs == {"up_pipe", "url_pipe", "up_fork", "url_fork", "rm_fork"}
ForkedPCs == {"up_close", "url_close", "up_select", "up_read", "url_read", "up_waitpid",
              "up_give_up", "url_wait", "url_wait_empty", "rm_wait"}
PipePCs == {"up_fork", "url_fork", "up_close", "url_close", "up_select", "up_read",
            "url_read", "url_wait", "url_wait_empty"}
WritePCs == {"up_fork", "url_fork", "up_close", "url_close"}
Calls(pcs) == {k \in Tools : \E t \in ToolUsers : tool[t] = k /\ toolAt[t] \in pcs}

ToolSetsOK ==
    /\ toolAt \in [ToolUsers -> {"idle"} \cup UnforkedPCs \cup ForkedPCs]
    /\ tool \in [ToolUsers -> 0..MaxTools]
    /\ child \in [Tools -> {"none", "running", "zombie", "reaped"}]
    /\ inherited \in [Tools -> SUBSET Tools]
    /\ made \in 0..MaxTools /\ gone \in Nat

(* A call is one thread's and has a number that was given out; it has a child from its
   fork on, and only the child of a call works. *)
CallsInv ==
    /\ \A t \in ToolUsers : toolAt[t] = "idle" <=> tool[t] = NoTool
    /\ \A t, s \in ToolUsers : tool[t] = tool[s] /\ t # s => tool[t] = NoTool
    /\ \A t \in ToolUsers : tool[t] <= made
    /\ \A k \in Tools : k > made \/ k \in Calls(UnforkedPCs) => child[k] = "none"
    /\ \A k \in worked : k \in Tools /\ child[k] # "none"

(* As many children are left as threads have still to wait for one or found none. *)
ChildrenInv == Cardinality(Unreaped) = gone + Cardinality(Calls(ForkedPCs))

(* An open pipe is that of a call that is using it, or leaked. *)
PipesInv ==
    /\ readFds \subseteq leaked \cup Calls(PipePCs)
    /\ writeFds \subseteq leaked \cup Calls(WritePCs)
    /\ writeFds \subseteq readFds
    /\ \A k \in leaked : k \in 1..made /\ \A t \in ToolUsers : tool[t] # k

(* What is read was printed by a tool that has done its work. *)
AnswersInv ==
    /\ unread \subseteq readFds \cap worked
    /\ \A t \in ToolUsers : toolAt[t] \in {"up_waitpid", "url_wait"} => tool[t] \in worked
    /\ lies = 0

ToolInv == ToolSetsOK /\ CallsInv /\ ChildrenInv /\ PipesInv /\ AnswersInv

(* What is called done was done, by the tool of this call, whoever has reaped it. *)
OutcomeTrue == lies = 0

(* Every child is waited for once: while nobody is calling, only so many children are
   left as waits were robbed of theirs. *)
AllWaitedFor ==
    (\A t \in ToolUsers : toolAt[t] = "idle") => Cardinality(Unreaped) = gone

(* A call that is over has closed its pipe, unless getFullUrlByFileid could not fork. *)
PipesClosed ==
    readFds \cup writeFds \subseteq leaked \cup {tool[t] : t \in ToolUsers}

(* The tools of all threads are kept apart although they share pipes and waits. *)
ToolsSound == ToolTypeOK /\ OutcomeTrue /\ AllWaitedFor /\ PipesClosed

(* Every call returns once the tools end, also when another thread has reaped
   its child or another child holds its pipe. *)
ToolsReturn == \A t \in ToolUsers : toolAt[t] # "idle" ~> toolAt[t] = "idle"
=============================================================================
