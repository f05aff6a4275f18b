---------------------------- MODULE BlockMethods ----------------------------
(***************************************************************************)
(* The block methods: iptables (src/iptables.cc), which runs a command by  *)
(* execute() of src/execute.cc, and hosts.deny (src/hosts.deny.cc), which  *)
(* appends a line by a StdioFile (src/StdioFile.cc).  The daemon's calls   *)
(* interleave with the child process, whatever it runs, and with programs  *)
(* that edit hosts.deny.                                                   *)
(*                                                                         *)
(* Any system call may fail.  Of hosts.deny the model knows how many lines *)
(* of their own an address has (only those block it) and whether the last  *)
(* line is incomplete; what is appended to such a line is of no effect.    *)
(***************************************************************************)
EXTENDS Integers

CONSTANTS
  Address,
  PipeSize,       \* writes that fit in the pipe
  MaxOutput,      \* bound: writes of the command
  MaxCalls        \* bound: calls of block()

ASSUME SizeAssumption == PipeSize \in Nat \ {0} /\ MaxOutput \in Nat /\ MaxCalls \in Nat

VARIABLES
  pc,             \* where the daemon is
  addr,           \* the address to block
  verdict,        \* what block() returned last
  fds,            \* open descriptors: the ends of the pipe, and hosts.deny
  pipe,           \* writes in the pipe
  child,          \* what the child process does
  writers,        \* other holders of the pipe's write end
  todo,           \* writes the child has still to do
  status,         \* the child's exit status: 0, or 1 for any other
  rules,          \* rules[a]: how many firewall rules reject a
  denied,         \* denied[a]: how many lines of hosts.deny are for a
  torn,           \* the last line of hosts.deny is incomplete
  replaced,       \* the open hosts.deny is no longer the one at its path
  made,           \* history: the latest call's rule or line is there
  calls           \* calls so far

process == <<child, writers, todo, status, rules>>
list == <<denied, torn, replaced>>
vars == <<pc, addr, verdict, fds, pipe, process, list, made, calls>>

Executing == {"pipe", "fork", "close", "read", "reap", "catch"}
Appending == {"open", "print", "flush"}

TypeOK ==
  /\ pc \in {"idle", "exited"} \cup Executing \cup Appending
  /\ addr \in Address
  /\ verdict \in BOOLEAN
  /\ fds \in {{}, {"r"}, {"r", "w"}, {"file"}}
  /\ pipe \in 0 .. PipeSize
  /\ child \in {"none", "setup", "command", "dying", "zombie"}
  /\ writers \subseteq {"child", "descendant"}
  /\ todo \in 0 .. MaxOutput + 1
  /\ status \in {0, 1}
  /\ rules \in [Address -> Nat] /\ denied \in [Address -> Nat]
  /\ torn \in BOOLEAN /\ replaced \in BOOLEAN /\ made \in BOOLEAN
  /\ calls \in 0 .. MaxCalls

Init ==
  /\ pc = "idle"
  /\ addr \in Address
  /\ verdict = FALSE
  /\ fds = {}
  /\ pipe = 0
  /\ child = "none"
  /\ writers = {}
  /\ todo = 0
  /\ status = 0
  /\ rules = [a \in Address |-> 0]
  /\ denied = [a \in Address |-> 0]
  /\ torn \in BOOLEAN
  /\ replaced = FALSE
  /\ made = FALSE
  /\ calls = 0

\* blockAddress() calls block() of either method.
Call(a) ==
  /\ pc = "idle"
  /\ calls < MaxCalls
  /\ calls' = calls + 1
  /\ addr' = a
  /\ made' = FALSE
  /\ pc' \in {"pipe", "open"}
  /\ UNCHANGED <<verdict, fds, pipe, process, list>>

Return(v) == pc' = "idle" /\ verdict' = v
-----------------------------------------------------------------------------
(* execute(), in the daemon.                                               *)

Pipe ==
  /\ pc = "pipe"
  /\ \/ pc' = "fork" /\ fds' = {"r", "w"}
     \/ pc' = "catch" /\ UNCHANGED fds
  /\ UNCHANGED <<addr, verdict, pipe, process, list, made, calls>>

Fork ==
  /\ pc = "fork"
  /\ \/ pc' = "close" /\ child' = "setup" /\ writers' = {"child"}
     \/ pc' = "catch" /\ UNCHANGED <<child, writers>>
  /\ UNCHANGED <<addr, verdict, fds, pipe, todo, status, rules, list, made, calls>>

\* mutant of CloseWriteEnd: the daemon keeps its own write end
KeepWriteEnd ==
  /\ pc = "close"
  /\ pc' = "read"
  /\ UNCHANGED <<addr, verdict, fds, pipe, process, list, made, calls>>

\* Should close() fail, the descriptor is gone all the same.
CloseWriteEnd ==
  /\ pc = "close"
  /\ fds' = fds \ {"w"}
  /\ pc' \in {"read", "catch"}
  /\ UNCHANGED <<addr, verdict, pipe, process, list, made, calls>>

Read ==
  /\ pc = "read"
  /\ pipe > 0
  /\ pipe' = pipe - 1
  /\ UNCHANGED <<pc, addr, verdict, fds, process, list, made, calls>>

\* mutant of ReadEnd: the child is not waited for
ReadEndOnly ==
  /\ pc = "read"
  /\ pipe = 0 /\ writers = {} /\ "w" \notin fds
  /\ fds' = fds \ {"r"}
  /\ Return(status = 0)
  /\ UNCHANGED <<addr, pipe, process, list, made, calls>>

\* The end of the output: nobody holds the write end any more.
ReadEnd ==
  /\ pc = "read"
  /\ pipe = 0 /\ writers = {} /\ "w" \notin fds
  /\ fds' = fds \ {"r"}
  /\ pc' = "reap"
  /\ UNCHANGED <<addr, verdict, pipe, process, list, made, calls>>

\* mutant of Reap: the exit status is not looked at
ReapOnly ==
  /\ pc = "reap"
  /\ child = "zombie"
  /\ child' = "none"
  /\ Return(TRUE)
  /\ UNCHANGED <<addr, fds, pipe, writers, todo, status, rules, list, made, calls>>

\* waitpid() returns; block() succeeds if the exit status is 0.
Reap ==
  /\ pc = "reap"
  /\ child = "zombie"
  /\ child' = "none"
  /\ Return(status = 0)
  /\ UNCHANGED <<addr, fds, pipe, writers, todo, status, rules, list, made, calls>>

\* read() or waitpid() fails, other than with EINTR.
WaitFails ==
  /\ pc \in {"read", "reap"}
  /\ pc' = "catch"
  /\ UNCHANGED <<addr, verdict, fds, pipe, process, list, made, calls>>

\* mutant of Catch: only the read end is closed
CatchReadEnd ==
  /\ pc = "catch"
  /\ fds' = fds \ {"r"}
  /\ child' = IF child = "zombie" THEN "none" ELSE child
  /\ pc' = "exited"
  /\ UNCHANGED <<addr, verdict, pipe, writers, todo, status, rules, list, made, calls>>

\* Clean up without waiting, and throw; main() catches it and exits.
Catch ==
  /\ pc = "catch"
  /\ fds' = fds \ {"r", "w"}
  /\ child' = IF child = "zombie" THEN "none" ELSE child
  /\ pc' = "exited"
  /\ UNCHANGED <<addr, verdict, pipe, writers, todo, status, rules, list, made, calls>>
-----------------------------------------------------------------------------
(* The child process.                                                      *)

Exits(s) ==
  /\ child' = "zombie"
  /\ status' = s
  /\ writers' = writers \ {"child"}

\* execvp(), or an error before or in it, which may be reported first.
Exec ==
  /\ child = "setup"
  /\ \/ child' = "command" /\ todo' \in 0 .. MaxOutput
     \/ child' = "dying" /\ todo' \in {0, 1}
  /\ UNCHANGED <<pc, addr, verdict, fds, pipe, writers, status, rules, list, made, calls>>

\* The child blocks while the pipe is full.
Output ==
  /\ child \in {"command", "dying"}
  /\ todo > 0
  /\ "r" \in fds
  /\ pipe < PipeSize
  /\ pipe' = pipe + 1
  /\ todo' = todo - 1
  /\ UNCHANGED <<pc, addr, verdict, fds, child, writers, status, rules, list, made, calls>>

\* iptables -I; it may be that some output is still to come.
Insert ==
  /\ child = "command"
  /\ ~made
  /\ made' = TRUE
  /\ rules' = [rules EXCEPT ![addr] = @ + 1]
  /\ UNCHANGED <<pc, addr, verdict, fds, pipe, child, writers, todo, status, list, calls>>

\* The command leaves a process behind that has its output.
Spawn ==
  /\ child = "command"
  /\ "child" \in writers
  /\ writers' = writers \cup {"descendant"}
  /\ UNCHANGED <<pc, addr, verdict, fds, pipe, child, todo, status, rules, list, made, calls>>

\* The command closes its output, and goes on.
CloseOutput ==
  /\ child = "command"
  /\ todo = 0
  /\ writers' = writers \ {"child"}
  /\ UNCHANGED <<pc, addr, verdict, fds, pipe, child, todo, status, rules, list, made, calls>>

DescendantExits ==
  /\ writers' = writers \ {"descendant"}
  /\ UNCHANGED <<pc, addr, verdict, fds, pipe, child, todo, status, rules, list, made, calls>>

\* The command succeeds only if the rule is there.
Exit ==
  /\ child \in {"command", "dying"}
  /\ todo = 0
  /\ \E s \in {0, 1} : (s = 0 => child = "command" /\ made) /\ Exits(s)
  /\ UNCHANGED <<pc, addr, verdict, fds, pipe, todo, rules, list, made, calls>>

\* A signal, SIGPIPE among them.
Killed ==
  /\ child \in {"setup", "command", "dying"}
  /\ Exits(1)
  /\ UNCHANGED <<pc, addr, verdict, fds, pipe, todo, rules, list, made, calls>>
-----------------------------------------------------------------------------
(* block() of hosts.deny, and other programs that use that file.           *)

\* mutant of Open: mode "w"
OpenTruncating ==
  /\ pc = "open"
  /\ pc' = "print"
  /\ fds' = {"file"}
  /\ denied' = [a \in Address |-> 0]
  /\ torn' = FALSE
  /\ UNCHANGED <<addr, verdict, pipe, process, replaced, made, calls>>

Open ==
  /\ pc = "open"
  /\ \/ pc' = "print" /\ fds' = {"file"} /\ UNCHANGED verdict
     \/ Return(FALSE) /\ UNCHANGED fds
  /\ UNCHANGED <<addr, pipe, process, list, made, calls>>

\* The line stays in the buffer.  On an error the destructor closes the file.
Printf ==
  /\ pc = "print"
  /\ \/ pc' = "flush" /\ UNCHANGED <<verdict, fds, replaced>>
     \/ Return(FALSE) /\ fds' = {} /\ replaced' = FALSE
  /\ UNCHANGED <<addr, pipe, process, denied, torn, made, calls>>

\* What reaches the file: nothing, a part of the line, or all of it.
Append(part) ==
  LET entry == part = "whole" /\ ~torn /\ ~replaced
  IN  /\ denied' = IF entry THEN [denied EXCEPT ![addr] = @ + 1] ELSE denied
      /\ torn' = IF part = "none" \/ replaced THEN torn ELSE part = "some"
      /\ made' = entry

\* close() flushes the buffer; an error may come after all has been written.
Flush ==
  /\ pc = "flush"
  /\ fds' = {}
  /\ \E part \in {"none", "some", "whole"} :
       /\ Append(part)
       /\ \/ Return(FALSE)
          \/ part = "whole" /\ Return(TRUE)
  /\ replaced' = FALSE
  /\ UNCHANGED <<addr, pipe, process, calls>>

\* Another file with these lines is put in its place, or its last line is
\* completed or not.
Edit ==
  /\ torn' \in BOOLEAN
  /\ replaced' \in {replaced, "file" \in fds \/ replaced}
  /\ UNCHANGED <<pc, addr, verdict, fds, pipe, process, denied, made, calls>>
-----------------------------------------------------------------------------
Daemon == Pipe \/ Fork \/ CloseWriteEnd \/ Read \/ ReadEnd \/ Reap \/ Catch
            \/ Open \/ Printf \/ Flush

Child == Exec \/ Output \/ Exit

Others == WaitFails \/ Insert \/ Spawn \/ CloseOutput \/ DescendantExits \/ Killed \/ Edit

Next == (\E a \in Address : Call(a)) \/ Daemon \/ Child \/ Others

Spec == Init /\ [][Next]_vars

FairSpec == Spec /\ WF_vars(Daemon) /\ WF_vars(Child)
-----------------------------------------------------------------------------
\* Whichever call fails, execute() leaves no descriptor open, and a child
\* unreaped only when it throws; nor does block() leave hosts.deny open.
NothingLeaked ==
  /\ pc \in {"idle", "exited"} => fds = {}
  /\ pc = "idle" => child = "none" /\ writers = {} /\ pipe = 0

\* No call removes what another has added.
EntriesKept == [][\A a \in Address : rules'[a] >= rules[a] /\ denied'[a] >= denied[a]]_vars

\* block() returns or throws, however much the command writes, fails or is
\* killed, unless it leaves a process behind that keeps the output open.
Returns == pc \notin {"idle", "exited"} ~> pc \in {"idle", "exited"} \/ "descendant" \in writers

Caller == IF pc \in {"idle", "exited"} THEN pc ELSE "waiting"

Entries == [a \in Address |-> rules[a] + denied[a]]

Spoiled == pc \in Appending /\ (torn \/ replaced)

Promise ==
  INSTANCE BlockPromise WITH
    caller <- Caller, address <- addr, entries <- Entries, spoiled <- Spoiled

\* block() returns TRUE only if there is an entry, unless hosts.deny ended
\* in an incomplete line or was replaced while it was open; and a call makes
\* one entry at most, also one that fails or throws.
KeepsPromise == Promise!Spec
=============================================================================
