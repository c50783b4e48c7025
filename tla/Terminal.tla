------------------------------ MODULE Terminal ------------------------------
(***************************************************************************)
(* The web terminal of the P4Pi web interface (terminal/views.py).         *)
(*                                                                         *)
(* One shell, held in the module globals fd and child_pid, is shared by    *)
(* every browser socket.  The server is one process whose handlers are     *)
(* greenthreads: a handler runs alone until it sleeps, selects or waits    *)
(* for a child, so an action below is the code between two such points.    *)
(*                                                                         *)
(* A shell is named by its number; the descriptor of its pty master, never *)
(* closed by the code, carries the same number.                            *)
(***************************************************************************)
EXTENDS Integers

CONSTANTS
  Sockets,     \* socket.io connections that exist at the same time
  MaxShells,   \* bound: how many times pty.fork may be called
  OnePage      \* TRUE: a page is only opened once the previous one is gone

ASSUME ShellBound == MaxShells \in Nat \ {0}
ASSUME PageMode == OnePage \in BOOLEAN

VARIABLES
  child_pid,   \* global child_pid: a shell, or None
  fd,          \* global fd: the pty master of a shell, or None
  proc,        \* the kernel's view of the child processes
  tty,         \* per pty: "in" typed and unanswered, "out" unread output
  sock,        \* per socket: "closed", "open", "reaping" (in os.waitpid)
  waits,       \* the process a handler in os.waitpid waits for
  reader,      \* the output reader started together with each shell
  sel,         \* the descriptor a reader passed to select
  garbled      \* ghost: output that does not decode has ended a reader of this shell

vars == <<child_pid, fd, proc, tty, sock, waits, reader, sel, garbled>>

None == 0
Shells == 1 .. MaxShells

TypeOK ==
  /\ child_pid \in Shells \cup {None}
  /\ fd \in Shells \cup {None}
  /\ proc \in [Shells -> {"unborn", "live", "killed", "zombie", "reaped"}]
  /\ tty \in [Shells -> SUBSET {"in", "out"}]
  /\ sock \in [Sockets -> {"closed", "open", "reaping"}]
  /\ waits \in [Sockets -> Shells \cup {None}]
  /\ reader \in [Shells -> {"none", "sleep", "select", "ready", "blocked",
                            "returned", "failed"}]
  /\ sel \in [Shells -> Shells \cup {None}]
  /\ garbled \in BOOLEAN

Init ==
  /\ child_pid = None
  /\ fd = None
  /\ proc = [p \in Shells |-> "unborn"]
  /\ tty = [p \in Shells |-> {}]
  /\ sock = [s \in Sockets |-> "closed"]
  /\ waits = [s \in Sockets |-> None]
  /\ reader = [r \in Shells |-> "none"]
  /\ sel = [r \in Shells |-> None]
  /\ garbled = FALSE

(***************************************************************************)
(* The whole worker stands still while a reader sits in a blocking         *)
(* os.read: os.read is not a green operation.                              *)
(***************************************************************************)
Frozen == \E r \in Shells : reader[r] = "blocked"

\* The hub runs timers only once the callbacks of its last poll have run.
TimerDue == \A r \in Shells : reader[r] \notin {"ready", "blocked"}

\* Some reader waits on descriptor f: the hub admits no second one.
Listened(f) == \E q \in Shells : reader[q] \in {"select", "ready"} /\ sel[q] = f

\* os.write to the master of pty p.
Typed(p) == [tty EXCEPT ![p] = IF proc[p] = "live" THEN @ \cup {"in"} ELSE @]

\* pty.fork(): the next shell, which will print its prompt.
NewShell(p) ==
  /\ garbled' = FALSE
  /\ proc[p] = "unborn"
  /\ \A q \in Shells : q < p => proc[q] # "unborn"
  /\ proc' = [proc EXCEPT ![p] = "live"]
  /\ tty' = [tty EXCEPT ![p] = {"in"}]

ReaderGoes(r, to) == reader' = [reader EXCEPT ![r] = to]

\* Mutant: a flag never cleared lets the reader be started only once.
ForkReaderOnce(p) == /\ NewShell(p) /\ child_pid' = p /\ fd' = p
                     /\ ReaderGoes(p, IF p = 1 THEN "sleep" ELSE "none")

\* The fork of a connect, and the background task that reads the new pty.
Fork(p) ==
  /\ NewShell(p)
  /\ child_pid' = p
  /\ fd' = p
  /\ ReaderGoes(p, "sleep")

connect(s) ==
  /\ ~Frozen
  /\ sock[s] = "closed"
  /\ OnePage => \A t \in Sockets : sock[t] # "open"
  /\ sock' = [sock EXCEPT ![s] = "open"]
  /\ \/ /\ child_pid # None
        /\ tty' = Typed(fd)
        /\ UNCHANGED <<child_pid, fd, proc, reader, garbled>>
     \/ /\ child_pid = None
        /\ \E p \in Shells : Fork(p)
  /\ UNCHANGED <<waits, sel>>

\* What reaches the shell through its pty makes it print.
ToShell(s) ==
  /\ ~Frozen
  /\ sock[s] = "open"
  /\ fd # None
  /\ tty' = Typed(fd)
  /\ UNCHANGED <<child_pid, fd, proc, sock, waits, reader, sel, garbled>>

pty_input(s) == ToShell(s)   \* the keys
resize(s) == ToShell(s)      \* SIGWINCH: the shell draws its line again

\* os.waitpid returns the child p and the globals are reset.
Reaped(p) ==
  /\ proc' = [proc EXCEPT ![p] = "reaped"]
  /\ child_pid' = None
  /\ fd' = None

\* The handler sleeps in os.waitpid(child_pid).
WaitFor(s) ==
  /\ sock' = [sock EXCEPT ![s] = "reaping"]
  /\ waits' = [waits EXCEPT ![s] = child_pid]

(***************************************************************************)
(* The disconnect handler up to its first suspension.  Without a child     *)
(* os.kill(None) raises; with one, the child may be dead in time for the   *)
(* first poll of waitpid, or the handler sleeps between polls.             *)
(***************************************************************************)
disconnect(s) ==
  /\ ~Frozen
  /\ sock[s] = "open"
  /\ \/ /\ child_pid = None
        /\ sock' = [sock EXCEPT ![s] = "closed"]
        /\ UNCHANGED <<child_pid, fd, proc, waits>>
     \/ /\ child_pid # None
        /\ Reaped(child_pid)
        /\ sock' = [sock EXCEPT ![s] = "closed"]
        /\ UNCHANGED waits
     \/ /\ child_pid # None
        /\ proc[child_pid] # "zombie"
        /\ proc' = [proc EXCEPT ![child_pid] = "killed"]
        /\ WaitFor(s)
        /\ UNCHANGED <<child_pid, fd>>
  /\ UNCHANGED <<tty, reader, sel, garbled>>

HandlerEnds(s) ==
  /\ sock' = [sock EXCEPT ![s] = "closed"]
  /\ waits' = [waits EXCEPT ![s] = None]
  /\ UNCHANGED <<tty, reader, sel, garbled>>

\* Mutants: the error of a second waiter caught, by a reset or by a retry.
WaitpidResets(s) == /\ TimerDue /\ sock[s] = "reaping"
                    /\ proc[waits[s]] \in {"zombie", "reaped"}
                    /\ Reaped(waits[s]) /\ HandlerEnds(s)
WaitpidRetries(s) == /\ TimerDue /\ sock[s] = "reaping"
                     /\ proc[waits[s]] = "zombie"
                     /\ Reaped(waits[s]) /\ HandlerEnds(s)

(***************************************************************************)
(* A later poll of waitpid.  If another handler has reaped the child, the  *)
(* call raises ChildProcessError and the globals are left alone.           *)
(***************************************************************************)
waitpid(s) ==
  /\ TimerDue
  /\ sock[s] = "reaping"
  /\ \/ /\ proc[waits[s]] = "zombie"
        /\ Reaped(waits[s])
     \/ /\ proc[waits[s]] = "reaped"
        /\ UNCHANGED <<child_pid, fd, proc>>
  /\ HandlerEnds(s)

-----------------------------------------------------------------------------
(***************************************************************************)
(* read_and_forward_pty_output.  Reader r was started with shell r, but it *)
(* reads the global fd again on every turn, before and after the select.   *)
(***************************************************************************)
HungUp(f) == "out" \notin tty[f] /\ proc[f] \in {"zombie", "reaped"}

Select(r) ==
  /\ ReaderGoes(r, "select")
  /\ sel' = [sel EXCEPT ![r] = fd]

\* Mutant: without a descriptor the reader sleeps again instead of returning.
WakeStays(r) == /\ TimerDue /\ reader[r] = "sleep" /\ fd # None /\ ~Listened(fd)
                /\ Select(r)
                /\ UNCHANGED <<child_pid, fd, proc, tty, sock, waits, garbled>>

\* After the 10 ms sleep.  eventlet refuses a second waiter on a descriptor.
Wake(r) ==
  /\ TimerDue
  /\ reader[r] = "sleep"
  /\ \/ fd = None /\ ReaderGoes(r, "returned") /\ UNCHANGED sel
     \/ fd # None /\ Listened(fd) /\ ReaderGoes(r, "failed") /\ UNCHANGED sel
     \/ fd # None /\ ~Listened(fd) /\ Select(r)
  /\ UNCHANGED <<child_pid, fd, proc, tty, sock, waits, garbled>>

\* The hub polls the descriptors: output, or the hang-up of a dead shell.
SelectReady(r) ==
  /\ ~Frozen
  /\ reader[r] = "select"
  /\ "out" \in tty[sel[r]] \/ HungUp(sel[r])
  /\ ReaderGoes(r, "ready")
  /\ UNCHANGED <<child_pid, fd, proc, tty, sock, waits, sel, garbled>>

SelectTimeout(r) ==
  /\ TimerDue
  /\ reader[r] = "select"
  /\ "out" \notin tty[sel[r]]
  /\ ReaderGoes(r, "sleep")
  /\ UNCHANGED <<child_pid, fd, proc, tty, sock, waits, sel, garbled>>

(***************************************************************************)
(* The reader takes the output of the pty, decodes it and emits it to      *)
(* every client.  A read takes what is there, up to a limit: it may end    *)
(* within a character, or bring bytes that are no text; decode then raises *)
(* and the reader is gone.                                                 *)
(***************************************************************************)
Taken(r) ==
  /\ "out" \in tty[fd]
  /\ tty' = [tty EXCEPT ![fd] = @ \ {"out"}]
  /\ \/ ReaderGoes(r, "sleep") /\ UNCHANGED garbled
     \/ ReaderGoes(r, "failed") /\ garbled' = TRUE

\* os.read(fd): fd may have changed since the select.
Read(r) ==
  /\ ~Frozen
  /\ reader[r] = "ready"
  /\ \/ fd # None /\ Taken(r)
     \/ /\ IF fd = None THEN TRUE ELSE HungUp(fd)
        /\ ReaderGoes(r, "failed")
        /\ UNCHANGED <<tty, garbled>>
     \/ /\ fd # None /\ "out" \notin tty[fd] /\ ~HungUp(fd)
        /\ ReaderGoes(r, "blocked")
        /\ UNCHANGED <<tty, garbled>>
  /\ UNCHANGED <<child_pid, fd, proc, sock, waits, sel>>

\* The blocking os.read returns, with data or with the error of a hang-up.
Unblock(r) ==
  /\ reader[r] = "blocked"
  /\ \/ Taken(r)
     \/ /\ HungUp(fd)
        /\ ReaderGoes(r, "failed")
        /\ UNCHANGED <<tty, garbled>>
  /\ UNCHANGED <<child_pid, fd, proc, sock, waits, sel>>

-----------------------------------------------------------------------------
\* The shell: it answers what was typed, or a program in it prints.
ShellWrites(p) ==
  /\ proc[p] = "live"
  /\ tty' = [tty EXCEPT ![p] = {"out"}]
  /\ UNCHANGED <<child_pid, fd, proc, sock, waits, reader, sel, garbled>>

\* The kernel finishes a killed shell.
Die(p) ==
  /\ proc[p] = "killed"
  /\ proc' = [proc EXCEPT ![p] = "zombie"]
  /\ UNCHANGED <<child_pid, fd, tty, sock, waits, reader, sel, garbled>>

(***************************************************************************)
(* gunicorn's arbiter kills a worker that has been silent for its timeout  *)
(* and starts another.  The pty masters close with the worker, so its      *)
(* shells are hung up, and init reaps them.                                *)
(***************************************************************************)
WorkerRestart ==
  /\ Frozen
  /\ child_pid' = None
  /\ fd' = None
  /\ proc' = [p \in Shells |-> IF proc[p] = "unborn" THEN "unborn" ELSE "reaped"]
  /\ reader' = [r \in Shells |-> IF reader[r] = "none" THEN "none" ELSE "failed"]
  /\ sock' = [s \in Sockets |-> "closed"]
  /\ waits' = [s \in Sockets |-> None]
  /\ UNCHANGED <<tty, sel, garbled>>

Next ==
  \/ \E s \in Sockets : \/ connect(s) \/ pty_input(s) \/ resize(s)
                        \/ disconnect(s) \/ waitpid(s)
  \/ \E r \in Shells : \/ Wake(r) \/ SelectReady(r) \/ SelectTimeout(r)
                       \/ Read(r) \/ Unblock(r)
  \/ \E p \in Shells : ShellWrites(p) \/ Die(p)
  \/ WorkerRestart

Spec == Init /\ [][Next]_vars

(***************************************************************************)
(* The hub polls its descriptors and fires every due timer in each round,  *)
(* so a timer that is due again and again fires: strong fairness.  The     *)
(* kernel runs every process.  Nothing obliges a user to type, connect or  *)
(* disconnect.                                                             *)
(***************************************************************************)
Fairness ==
  /\ \A s \in Sockets : SF_vars(waitpid(s))
  /\ \A r \in Shells : /\ SF_vars(Wake(r)) /\ SF_vars(SelectTimeout(r))
                       /\ SF_vars(SelectReady(r)) /\ WF_vars(Read(r))
                       /\ WF_vars(Unblock(r))
  /\ \A p \in Shells : WF_vars("in" \in tty[p] /\ ShellWrites(p)) /\ WF_vars(Die(p))
  /\ WF_vars(WorkerRestart)

FairSpec == Spec /\ Fairness

-----------------------------------------------------------------------------
(***************************************************************************)
(* The process named by child_pid is the only unreaped child, and it is    *)
(* unreaped: the os.kill of a disconnect never hits a pid the kernel may   *)
(* have given to someone else, and no shell is forgotten while it runs,    *)
(* however the connects and disconnects of several sockets interleave.     *)
(***************************************************************************)
Unreaped == {p \in Shells : proc[p] \in {"live", "killed", "zombie"}}

OwnsItsChild ==
  /\ Unreaped = {child_pid} \ {None}
  /\ fd = child_pid

(***************************************************************************)
(* A running shell always has a reader that will come back to its pty,     *)
(* although readers of earlier shells pick up the new descriptor, collide  *)
(* with its own reader in select, and make that one fail.  Only output     *)
(* that does not decode can take the last one away, for as long as this    *)
(* shell runs.                                                             *)
(***************************************************************************)
Reading == {r \in Shells : reader[r] \in {"sleep", "select", "ready", "blocked"}}

SomeReader ==
  child_pid # None /\ proc[child_pid] = "live" => Reading # {} \/ garbled

(***************************************************************************)
(* Every disconnect handler returns, also when another handler reaps the   *)
(* child it waits for.                                                     *)
(***************************************************************************)
DisconnectEnds ==
  \A s \in Sockets : sock[s] = "reaping" ~> sock[s] = "closed"

(***************************************************************************)
(* What the shell prints is read, or the shell is gone, or a reader of it  *)
(* was lost to output that does not decode.                                *)
(***************************************************************************)
OutputForwarded ==
  \A p \in Shells :
    "out" \in tty[p] ~> ("out" \notin tty[p] \/ p # child_pid \/ garbled)

(***************************************************************************)
(* Once nobody opens a terminal any more, every reader ends.               *)
(***************************************************************************)
ReadersEnd == <>[](fd = None) => <>[](Reading = {})

(***************************************************************************)
(* The comment of connect: a client that refreshes the page finds a shell  *)
(* that prints its prompt.  An open socket, with no disconnect handler     *)
(* under way, has a shell.                                                 *)
(***************************************************************************)
RefreshFindsShell ==
  (\A s \in Sockets : sock[s] # "reaping") =>
    \A s \in Sockets : sock[s] = "open" => child_pid # None

=============================================================================
