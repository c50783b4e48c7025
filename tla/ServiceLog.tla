----------------------------- MODULE ServiceLog -----------------------------
(***************************************************************************)
(* The log of the switch page (dashboard/views.py, forward_service_output  *)
(* and page_loaded).  Each page load, and each run of an example, replaces *)
(* the greenthread that forwards the journal of the switch service: it     *)
(* sets the global stop, joins the running forwarder, and starts another.  *)
(*                                                                         *)
(* Forwarders are numbered in the order they are started; forwarder f      *)
(* starts journalctl process f.                                            *)
(***************************************************************************)
EXTENDS Naturals

CONSTANTS
  Callers,     \* page loads and POSTs handled at the same time
  MaxTasks,    \* bound: forwarders started
  MaxLines     \* bound: lines in the pipe of a journalctl

ASSUME Bounds == {MaxTasks, MaxLines} \subseteq Nat \ {0}

VARIABLES
  task,        \* global task: the last forwarder started, or None
  stop,        \* global stop
  proc,        \* global proc: the last journalctl started, or None
  fw,          \* where each forwarder is
  sel,         \* the journalctl whose pipe a forwarder selects on
  journal,     \* each journalctl process
  pipe, buf,   \* its lines: in the pipe, and read ahead into proc.stdout
  joins,       \* the forwarder a caller joins, or None
  met          \* two callers have joined at the same time

callers == <<joins, met>>
vars == <<task, stop, proc, fw, sel, journal, pipe, buf, callers>>

None == 0
Tasks == 1 .. MaxTasks
Loop == {"sleep", "select", "ready"}

TypeOK ==
  /\ {task, proc} \subseteq Tasks \cup {None}
  /\ stop \in BOOLEAN
  /\ fw \in [Tasks -> {"none", "query", "ended"} \cup Loop]
  /\ sel \in [Tasks -> Tasks \cup {None}]
  /\ journal \in [Tasks -> {"none", "running", "killed"}]
  /\ pipe \in [Tasks -> 0 .. MaxLines]
  /\ buf \in [Tasks -> 0 .. MaxLines]
  /\ joins \in [Callers -> Tasks \cup {None}]
  /\ met \in BOOLEAN

Init ==
  /\ task = None /\ stop = FALSE /\ proc = None
  /\ fw = [f \in Tasks |-> "none"]
  /\ sel = [f \in Tasks |-> None]
  /\ journal = [f \in Tasks |-> "none"]
  /\ pipe = [f \in Tasks |-> 0]
  /\ buf = [f \in Tasks |-> 0]
  /\ joins = [c \in Callers |-> None]
  /\ met = FALSE

lines == <<pipe, buf>>

Goes(f, to) == fw' = [fw EXCEPT ![f] = to]

-----------------------------------------------------------------------------
\* task = sio.start_background_task(target=forward_service_output)
StartTask ==
  \E f \in Tasks :
    /\ fw[f] = "none"
    /\ \A g \in Tasks : g < f => fw[g] # "none"
    /\ Goes(f, "query")
    /\ task' = f

page_loaded(c) ==
  /\ joins[c] = None
  /\ \/ /\ task = None
        /\ StartTask
        /\ UNCHANGED <<stop, callers>>
     \/ /\ task # None
        /\ stop' = TRUE
        /\ joins' = [joins EXCEPT ![c] = task]
        /\ met' = (met \/ \E d \in Callers : joins[d] # None)
        /\ UNCHANGED <<task, fw>>
  /\ UNCHANGED <<proc, sel, journal, lines>>

\* task.join() returns.
joined(c) ==
  /\ joins[c] # None
  /\ fw[joins[c]] = "ended"
  /\ joins' = [joins EXCEPT ![c] = None]
  /\ StartTask
  /\ UNCHANGED <<stop, proc, sel, journal, lines, met>>

-----------------------------------------------------------------------------
\* Some forwarder waits on the pipe of journalctl j.
Listened(j) == \E g \in Tasks : fw[g] \in {"select", "ready"} /\ sel[g] = j

\* proc becomes f: the pipe of the one before is closed once nobody uses it.
NewProc(f) ==
  /\ proc' = f
  /\ journal' = [journal EXCEPT ![f] = "running"]
  /\ pipe' = [j \in Tasks |-> IF j = proc /\ ~Listened(j) THEN 0 ELSE pipe[j]]
  /\ buf' = [j \in Tasks |-> IF j = proc /\ ~Listened(j) THEN 0 ELSE buf[j]]

\* Mutant: without the reset of stop.
FollowStopped(f) == /\ fw[f] = "query" /\ Goes(f, "sleep")
                    /\ NewProc(f)
                    /\ UNCHANGED <<task, stop, sel, callers>>

\* systemctl has answered: journalctl is started, and stop is reset.
Follow(f) ==
  /\ fw[f] = "query"
  /\ Goes(f, "sleep")
  /\ NewProc(f)
  /\ stop' = FALSE
  /\ UNCHANGED <<task, sel, callers>>

\* proc.kill(), on the global proc; what it has written stays in the pipe.
KillProc == journal' = [journal EXCEPT ![proc] = "killed"]

\* Mutants: stop is not looked at, and the journalctl is not killed.
WakeDeaf(f) == /\ fw[f] = "sleep" /\ ~Listened(proc)
               /\ Goes(f, "select")
               /\ sel' = [sel EXCEPT ![f] = proc]
               /\ UNCHANGED <<task, stop, proc, journal, lines, callers>>
WakeNoKill(f) == /\ fw[f] = "sleep"
                 /\ \/ stop /\ Goes(f, "ended") /\ UNCHANGED sel
                    \/ /\ ~stop /\ Goes(f, "select")
                       /\ sel' = [sel EXCEPT ![f] = proc]
                 /\ UNCHANGED <<task, stop, proc, journal, lines, callers>>

\* After the 10 ms sleep; a second select on the same pipe is refused.
Wake(f) ==
  /\ fw[f] = "sleep"
  /\ \/ stop /\ KillProc /\ Goes(f, "ended") /\ UNCHANGED sel
     \/ ~stop /\ Listened(proc) /\ Goes(f, "ended") /\ UNCHANGED <<sel, journal>>
     \/ /\ ~stop /\ ~Listened(proc)
        /\ Goes(f, "select")
        /\ sel' = [sel EXCEPT ![f] = proc]
        /\ UNCHANGED journal
  /\ UNCHANGED <<task, stop, proc, lines, callers>>

\* Mutant: the pipe passed to select in the list of exceptional conditions.
SelectedHangUp(f) == /\ fw[f] = "select"
                     /\ Goes(f, IF journal[sel[f]] = "killed" THEN "ready" ELSE "sleep")
                     /\ UNCHANGED <<task, stop, proc, sel, journal, lines, callers>>

\* select sees the pipe only, not what proc.stdout has read ahead.
Selected(f) ==
  /\ fw[f] = "select"
  /\ Goes(f, IF pipe[sel[f]] > 0 \/ journal[sel[f]] = "killed" THEN "ready" ELSE "sleep")
  /\ UNCHANGED <<task, stop, proc, sel, journal, lines, callers>>

\* proc.stdout.readline(), which reads ahead, and the emit of the line.  It may
\* wait, for another pipe than the one select saw.  At the end of the output
\* at_eof, which a pipe has not, raises.
Empty == buf[proc] = 0 /\ pipe[proc] = 0

Readline(f) ==
  /\ fw[f] = "ready"
  /\ \/ /\ buf[proc] > 0
        /\ buf' = [buf EXCEPT ![proc] = @ - 1]
        /\ Goes(f, "sleep")
        /\ UNCHANGED <<sel, pipe>>
     \/ /\ buf[proc] = 0 /\ pipe[proc] > 0
        /\ buf' = [buf EXCEPT ![proc] = pipe[proc] - 1]
        /\ pipe' = [pipe EXCEPT ![proc] = 0]
        /\ Goes(f, "sleep")
        /\ UNCHANGED sel
     \/ /\ Empty /\ journal[proc] = "running" /\ sel[f] # proc /\ ~Listened(proc)
        /\ sel' = [sel EXCEPT ![f] = proc]
        /\ UNCHANGED <<fw, lines>>
     \/ /\ Empty
        /\ \/ journal[proc] = "killed"
           \/ journal[proc] = "running" /\ sel[f] # proc /\ Listened(proc)
        /\ Goes(f, "ended")
        /\ UNCHANGED <<sel, lines>>
  /\ UNCHANGED <<task, stop, proc, journal, callers>>

-----------------------------------------------------------------------------
\* The switch prints a line, and a journalctl writes it to a pipe in use.
Prints(j) ==
  /\ journal[j] = "running"
  /\ j = proc \/ Listened(j)
  /\ pipe[j] < MaxLines
  /\ pipe' = [pipe EXCEPT ![j] = @ + 1]
  /\ UNCHANGED <<task, stop, proc, fw, sel, journal, buf, callers>>

Forward(f) == Follow(f) \/ Wake(f) \/ Selected(f) \/ Readline(f)

Next ==
  \/ \E c \in Callers : page_loaded(c) \/ joined(c)
  \/ \E f \in Tasks : Forward(f) \/ Prints(f)

Spec == Init /\ [][Next]_vars

\* Every greenthread that can run is run.
FairSpec ==
  /\ Spec
  /\ \A c \in Callers : WF_vars(joined(c))
  /\ \A f \in Tasks : WF_vars(Forward(f))

-----------------------------------------------------------------------------
(***************************************************************************)
(* As long as no two callers have met there is one forwarder, its          *)
(* journalctl is the global proc, and no other is left running behind it.  *)
(***************************************************************************)
OneFollower ==
  ~met =>
    /\ \A f \in Tasks : fw[f] \in Loop \cup {"query"} => f = task
    /\ \A j \in Tasks : journal[j] = "running" => j = proc /\ fw[j] \in Loop

(***************************************************************************)
(* However callers interleave, and although forwarders kill each other's   *)
(* journalctl and collide in select: after the first page load some        *)
(* forwarder runs, or some caller is about to start one.                   *)
(***************************************************************************)
SomeForwarder ==
  task # None =>
    \/ \E f \in Tasks : fw[f] \in Loop \cup {"query"}
    \/ \E c \in Callers : joins[c] # None

(***************************************************************************)
(* A stop that a forwarder meets in its loop is obeyed, and the caller     *)
(* that joins it goes on, as long as no two callers have met.  (A stop set *)
(* before the forwarder's own stop = False is lost.)                       *)
(***************************************************************************)
StopObeyed ==
  \A c \in Callers, f \in Tasks :
    (joins[c] = f /\ stop /\ fw[f] \in Loop) ~> (joins[c] # f \/ fw[f] = "ended" \/ met)

(***************************************************************************)
(* What a journalctl prints leaves its pipe, so that it never blocks on it *)
(* for good, as long as no two callers have met.                           *)
(***************************************************************************)
PipeDrained ==
  \A j \in Tasks :
    pipe[j] = MaxLines ~> (pipe[j] < MaxLines \/ journal[j] = "killed" \/ met)

=============================================================================
