----------------------------- MODULE McpProcess -----------------------------
(***************************************************************************)
(* Calling a Hero MCP tool as a child process: run_process and call_tool   *)
(* of hero/mcp_cli_client.h.                                               *)
(*                                                                         *)
(* The caller forks the tool, then loops: poll the child with              *)
(* waitpid(WNOHANG), kill it when the deadline has passed, wait for output *)
(* with select and drain it.  The loop ends when the pipe is at its end    *)
(* and the child has been reaped.  Every system call is a step, so the     *)
(* child may write or exit between any two of them.                        *)
(*                                                                         *)
(* Output is counted in chunks.  One stream stands for stdout and stderr,  *)
(* which are opened, drained and closed alike; both end with the child,    *)
(* which starts no process of its own here.  What the child does is up to  *)
(* the module that extends this one (ChildWrites, ChildExits).             *)
(***************************************************************************)
EXTENDS Integers

CONSTANTS Caller,      \* the callers, each with one call at a time
          PipeCap,     \* chunks the kernel's pipe holds
          CaptureCap   \* capture_cap, in chunks

ASSUME McpAssumption ==
    /\ PipeCap \in Nat \ {0}
    /\ CaptureCap \in Nat \ {0}

VARIABLES ppc,        \* ppc[c]: where the caller stands in run_process
          child,      \* child[c]: its child process
          status,     \* status[c]: how the child ended
          sent,       \* sent[c]: chunks the child wrote
          unread,     \* unread[c]: chunks in the pipe
          captured,   \* captured[c]: chunks in stdout_text
          truncated,  \* truncated[c]: stdout_truncated
          open,       \* open[c]: stdout_open
          late,       \* late[c]: timeout_seconds have elapsed
          timedOut    \* timedOut[c]: result.timed_out

mcpVars == <<ppc, child, status, sent, unread, captured, truncated, open, late,
             timedOut>>

CallState == {"idle", "wait", "timer", "select", "returned"}

McpTypeOK ==
    /\ ppc \in [Caller -> CallState]
    /\ child \in [Caller -> {"none", "alive", "zombie", "reaped"}]
    /\ status \in [Caller -> {"none", "zero", "nonzero", "killed"}]
    /\ sent \in [Caller -> Nat]
    /\ unread \in [Caller -> 0..PipeCap]
    /\ captured \in [Caller -> 0..CaptureCap]
    /\ truncated \in [Caller -> BOOLEAN] /\ open \in [Caller -> BOOLEAN]
    /\ late \in [Caller -> BOOLEAN] /\ timedOut \in [Caller -> BOOLEAN]

McpInit ==
    /\ ppc = [c \in Caller |-> "idle"]
    /\ child = [c \in Caller |-> "none"]
    /\ status = [c \in Caller |-> "none"]
    /\ sent = [c \in Caller |-> 0]
    /\ unread = [c \in Caller |-> 0]
    /\ captured = [c \in Caller |-> 0]
    /\ truncated = [c \in Caller |-> FALSE]
    /\ open = [c \in Caller |-> FALSE]
    /\ late = [c \in Caller |-> FALSE]
    /\ timedOut = [c \in Caller |-> FALSE]

\* access, pipe and fork succeed; the child holds the pipe open.
Spawn(c) ==
    /\ ppc[c] = "idle" /\ child[c] = "none"
    /\ ppc' = [ppc EXCEPT ![c] = "wait"]
    /\ child' = [child EXCEPT ![c] = "alive"]
    /\ open' = [open EXCEPT ![c] = TRUE]
    /\ UNCHANGED <<status, sent, unread, captured, truncated, late, timedOut>>

\* The binary is not executable, or pipe or fork fails: the call returns an
\* error at once.
SpawnFails(c) ==
    /\ ppc[c] = "idle" /\ child[c] = "none"
    /\ ppc' = [ppc EXCEPT ![c] = "returned"]
    /\ UNCHANGED <<child, status, sent, unread, captured, truncated, open, late,
                   timedOut>>

Exited(c) == child[c] = "reaped"

PollChild_NoDrain(c) ==
    /\ ppc[c] = "wait"
    /\ ppc' = [ppc EXCEPT ![c] = IF child[c] = "zombie" THEN "returned" ELSE "timer"]
    /\ child' = [child EXCEPT ![c] = IF @ = "zombie" THEN "reaped" ELSE @]
    /\ UNCHANGED <<status, sent, unread, captured, truncated, open, late, timedOut>>

\* waitpid(pid, &status, WNOHANG): reaps the child if it has exited.
PollChild(c) ==
    /\ ppc[c] = "wait"
    /\ ppc' = [ppc EXCEPT ![c] = "timer"]
    /\ child' = [child EXCEPT ![c] = IF @ = "zombie" THEN "reaped" ELSE @]
    /\ UNCHANGED <<status, sent, unread, captured, truncated, open, late, timedOut>>

Overdue_SilentOnly(c) ==
    ppc[c] = "timer" /\ ~ Exited(c) /\ late[c] /\ captured[c] = 0

Overdue(c) == ppc[c] = "timer" /\ ~ Exited(c) /\ late[c]

TimeoutKills_NoWait(c) ==
    /\ Overdue(c)
    /\ ppc' = [ppc EXCEPT ![c] = "returned"]
    /\ timedOut' = [timedOut EXCEPT ![c] = TRUE]
    /\ UNCHANGED <<child, status, sent, unread, captured, truncated, open, late>>

\* The deadline has passed and the child was not seen to exit: SIGKILL, and a
\* waitpid that blocks until the child is gone.  A child that exited after the
\* poll keeps its own exit status.
TimeoutKills(c) ==
    /\ Overdue(c)
    /\ ppc' = [ppc EXCEPT ![c] = "select"]
    /\ timedOut' = [timedOut EXCEPT ![c] = TRUE]
    /\ child' = [child EXCEPT ![c] = "reaped"]
    /\ status' = [status EXCEPT ![c] = IF child[c] = "alive" THEN "killed" ELSE @]
    /\ UNCHANGED <<sent, unread, captured, truncated, open, late>>

\* append_capped: what fits of n more chunks; the flag is also set when the text
\* fills the cap exactly.
Appended(c, n) ==
    IF captured[c] + n > CaptureCap THEN CaptureCap ELSE captured[c] + n
Overflows(c, n) == n > 0 /\ captured[c] + n >= CaptureCap

\* The loop goes on while the pipe is open or the child not reaped.
LoopOn(c, stillOpen) == IF stillOpen \/ ~ Exited(c) THEN "wait" ELSE "returned"

\* The child is not overdue, or was killed: select, then drain_fd.  It takes all
\* the pipe holds and meets the end of file when no child is left to write.  With
\* the pipe closed there is nothing to wait for.
SelectDrains(c) ==
    /\ ppc[c] \in {"timer", "select"} /\ ~ Overdue(c)
    /\ LET stillOpen == open[c] /\ child[c] = "alive"
       IN  /\ ppc' = [ppc EXCEPT ![c] = LoopOn(c, stillOpen)]
           /\ open' = [open EXCEPT ![c] = stillOpen]
    /\ IF open[c]
       THEN /\ captured' = [captured EXCEPT ![c] = Appended(c, unread[c])]
            /\ truncated' = [truncated EXCEPT ![c] = @ \/ Overflows(c, unread[c])]
            /\ unread' = [unread EXCEPT ![c] = 0]
       ELSE UNCHANGED <<captured, truncated, unread>>
    /\ UNCHANGED <<child, status, sent, late, timedOut>>

\* One pass of the caller's loop.
CallerStep(c) == PollChild(c) \/ TimeoutKills(c) \/ SelectDrains(c)

\* timeout_seconds pass.
DeadlinePasses(c) ==
    /\ ppc[c] \in {"wait", "timer", "select"} /\ ~ late[c]
    /\ late' = [late EXCEPT ![c] = TRUE]
    /\ UNCHANGED <<ppc, child, status, sent, unread, captured, truncated, open,
                   timedOut>>

\* The child writes a chunk; it blocks while the pipe is full.
ChildWrites(c) ==
    /\ child[c] = "alive" /\ unread[c] < PipeCap
    /\ sent' = [sent EXCEPT ![c] = @ + 1]
    /\ unread' = [unread EXCEPT ![c] = @ + 1]
    /\ UNCHANGED <<ppc, child, status, captured, truncated, open, late, timedOut>>

ChildExits(c, code) ==
    /\ child[c] = "alive"
    /\ child' = [child EXCEPT ![c] = "zombie"]
    /\ status' = [status EXCEPT ![c] = code]
    /\ UNCHANGED <<ppc, sent, unread, captured, truncated, open, late, timedOut>>

\* The state of a call is gone: a caller that has its result may make another
\* call, and one that crashed leaves at most its child behind.
Forgotten(c) ==
    /\ ppc' = [ppc EXCEPT ![c] = "idle"]
    /\ status' = [status EXCEPT ![c] = "none"]
    /\ sent' = [sent EXCEPT ![c] = 0]
    /\ unread' = [unread EXCEPT ![c] = 0]
    /\ captured' = [captured EXCEPT ![c] = 0]
    /\ truncated' = [truncated EXCEPT ![c] = FALSE]
    /\ open' = [open EXCEPT ![c] = FALSE]
    /\ late' = [late EXCEPT ![c] = FALSE]
    /\ timedOut' = [timedOut EXCEPT ![c] = FALSE]

Taken(c) ==
    /\ ppc[c] = "returned"
    /\ child' = [child EXCEPT ![c] = IF @ = "reaped" THEN "none" ELSE @]
    /\ Forgotten(c)

\* call_tool: process_ok.
ProcessOk(c) == status[c] = "zero" /\ ~ timedOut[c] /\ captured[c] > 0

-----------------------------------------------------------------------------
\* The text a call returns is what its child wrote, up to the cap and with
\* nothing lost: the loop goes on after the exit of the child until the pipe is
\* at its end, whichever of exit, output and deadline comes first.  A result that
\* is not marked as truncated is the whole output.
CapturedWhole ==
    \A c \in Caller : ppc[c] = "returned" =>
        /\ captured[c] = IF sent[c] > CaptureCap THEN CaptureCap ELSE sent[c]
        /\ ~ truncated[c] => captured[c] = sent[c]
=============================================================================
