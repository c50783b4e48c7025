-------------------------- MODULE ServiceLogProofs ---------------------------
(***************************************************************************)
(* The forwarders of the service log, for any number of callers,           *)
(* forwarders and lines.                                                   *)
(***************************************************************************)
EXTENDS ServiceLog, TLAPS

\* A pipe has room for a line.
LEMMA TaskFacts == MaxLines \in Nat \ {0}
  BY Bounds
\* The absence of a forwarder is not a forwarder.
LEMMA NoneIsNoTask == None \notin Tasks
  BY Bounds DEF None, Tasks

-----------------------------------------------------------------------------
\* A forwarder goes from one place to another.
LEMMA GoesType ==
  ASSUME TypeOK, NEW f \in Tasks, NEW to \in {"query", "ended"} \cup Loop, Goes(f, to)
  PROVE  fw' \in [Tasks -> {"none", "query", "ended"} \cup Loop]
BY DEF Goes, TypeOK

\* A pipe and a buffer hold a number of lines.
LEMMA LineTypes ==
  ASSUME NEW q \in [Tasks -> 0 .. MaxLines], NEW j \in Tasks, NEW n \in 0 .. MaxLines
  PROVE  [q EXCEPT ![j] = n] \in [Tasks -> 0 .. MaxLines]
OBVIOUS

\* Every step of a caller, a forwarder or the journal keeps the types.
LEMMA TypeStep == TypeOK /\ [Next]_vars => TypeOK'
<1> SUFFICES ASSUME TypeOK, [Next]_vars PROVE TypeOK'
  OBVIOUS
<1>0. /\ "query" \in {"query", "ended"} \cup Loop
      /\ "sleep" \in Loop /\ "select" \in Loop /\ "ready" \in Loop
  BY DEF Loop
<1>1. ASSUME NEW c \in Callers, page_loaded(c) PROVE TypeOK'
  <2>1. CASE task = None
    <3>1. PICK f \in Tasks : Goes(f, "query") /\ task' = f
      BY <1>1, <2>1 DEF page_loaded, StartTask
    <3>2. UNCHANGED <<stop, callers, proc, sel, journal, lines>>
      BY <1>1, <2>1 DEF page_loaded
    <3>3. QED
      BY <3>1, <3>2, <1>0, GoesType DEF TypeOK, callers, lines
  <2>2. CASE task # None
    <3>1. joins' = [joins EXCEPT ![c] = task] /\ stop' = TRUE
      BY <1>1, <2>2 DEF page_loaded
    <3>2. met' \in BOOLEAN
      BY <1>1, <2>2 DEF page_loaded, TypeOK
    <3>3. UNCHANGED <<task, fw, proc, sel, journal, lines>>
      BY <1>1, <2>2 DEF page_loaded
    <3>4. QED
      BY <3>1, <3>2, <3>3 DEF TypeOK, lines
  <2>3. QED
    BY <2>1, <2>2
<1>2. ASSUME NEW c \in Callers, joined(c) PROVE TypeOK'
  <2>1. PICK f \in Tasks : Goes(f, "query") /\ task' = f
    BY <1>2 DEF joined, StartTask
  <2>2. joins' = [joins EXCEPT ![c] = None] /\ UNCHANGED <<stop, proc, sel, journal, lines, met>>
    BY <1>2 DEF joined
  <2>3. QED
    BY <2>1, <2>2, <1>0, GoesType DEF TypeOK, lines
<1>3. ASSUME NEW f \in Tasks, Follow(f) PROVE TypeOK'
  <2>1. Goes(f, "sleep") /\ proc' = f /\ stop' = FALSE
        /\ journal' = [journal EXCEPT ![f] = "running"] /\ UNCHANGED <<task, sel, callers>>
    BY <1>3 DEF Follow, NewProc
  <2>2. pipe' \in [Tasks -> 0 .. MaxLines] /\ buf' \in [Tasks -> 0 .. MaxLines]
    BY <1>3, TaskFacts DEF Follow, NewProc, TypeOK
  <2>3. QED
    BY <2>1, <2>2, <1>0, GoesType DEF TypeOK, callers
<1>4. ASSUME NEW f \in Tasks, Wake(f) PROVE TypeOK'
  <2>1. UNCHANGED <<task, stop, proc, lines, callers>>
    BY <1>4 DEF Wake
  <2>2. fw' \in [Tasks -> {"none", "query", "ended"} \cup Loop]
    BY <1>4, <1>0, GoesType DEF Wake
  <2>3. sel' \in [Tasks -> Tasks \cup {None}]
    BY <1>4 DEF Wake, TypeOK
  <2>4. journal' \in [Tasks -> {"none", "running", "killed"}]
    BY <1>4 DEF Wake, KillProc, TypeOK
  <2>5. QED
    BY <2>1, <2>2, <2>3, <2>4 DEF TypeOK, lines, callers
<1>5. ASSUME NEW f \in Tasks, Selected(f) PROVE TypeOK'
  <2>1. Goes(f, "ready") \/ Goes(f, "sleep")
    BY <1>5 DEF Selected
  <2>2. UNCHANGED <<task, stop, proc, sel, journal, lines, callers>>
    BY <1>5 DEF Selected
  <2>3. fw' \in [Tasks -> {"none", "query", "ended"} \cup Loop]
    BY <2>1, <1>0, GoesType
  <2>4. QED
    BY <2>2, <2>3 DEF TypeOK, lines, callers
<1>6. ASSUME NEW f \in Tasks, Readline(f) PROVE TypeOK'
  <2>1. UNCHANGED <<task, stop, proc, journal, callers>>
    BY <1>6 DEF Readline
  <2>2. fw' \in [Tasks -> {"none", "query", "ended"} \cup Loop]
    <3>1. CASE UNCHANGED fw
      BY <3>1 DEF TypeOK
    <3>2. CASE Goes(f, "sleep") \/ Goes(f, "ended")
      BY <3>2, <1>0, GoesType
    <3>3. QED
      BY <1>6, <3>1, <3>2 DEF Readline
  <2>3. sel' \in [Tasks -> Tasks \cup {None}]
    BY <1>6 DEF Readline, TypeOK
  <2>4. buf' \in [Tasks -> 0 .. MaxLines] /\ pipe' \in [Tasks -> 0 .. MaxLines]
    <3>1. CASE UNCHANGED lines
      BY <3>1 DEF lines, TypeOK
    <3>2. CASE /\ buf[proc] > 0
               /\ buf' = [buf EXCEPT ![proc] = @ - 1] /\ UNCHANGED pipe
      <4>1. CASE proc \in Tasks
        <5>1. buf[proc] - 1 \in 0 .. MaxLines
          BY <3>2, <4>1, TaskFacts DEF TypeOK
        <5>2. QED
          BY <3>2, <4>1, <5>1, LineTypes DEF TypeOK
      <4>2. CASE proc \notin Tasks
        BY <3>2, <4>2 DEF TypeOK
      <4>3. QED
        BY <4>1, <4>2
    <3>3. CASE /\ pipe[proc] > 0 /\ buf' = [buf EXCEPT ![proc] = pipe[proc] - 1]
               /\ pipe' = [pipe EXCEPT ![proc] = 0]
      <4>1. CASE proc \in Tasks
        <5>1. pipe[proc] - 1 \in 0 .. MaxLines /\ 0 \in 0 .. MaxLines
          BY <3>3, <4>1, TaskFacts DEF TypeOK
        <5>2. QED
          BY <3>3, <4>1, <5>1, LineTypes DEF TypeOK
      <4>2. CASE proc \notin Tasks
        BY <3>3, <4>2 DEF TypeOK
      <4>3. QED
        BY <4>1, <4>2
    <3>4. QED
      BY <1>6, <3>1, <3>2, <3>3 DEF Readline, lines
  <2>5. QED
    BY <2>1, <2>2, <2>3, <2>4 DEF TypeOK, callers
<1>7. ASSUME NEW j \in Tasks, Prints(j) PROVE TypeOK'
  <2>1. pipe[j] + 1 \in 0 .. MaxLines /\ pipe' = [pipe EXCEPT ![j] = pipe[j] + 1]
    BY <1>7, TaskFacts DEF Prints, TypeOK
  <2>2. UNCHANGED <<task, stop, proc, fw, sel, journal, buf, callers>>
    BY <1>7 DEF Prints
  <2>3. QED
    BY <2>1, <2>2, LineTypes DEF TypeOK, callers
<1>8. ASSUME UNCHANGED vars PROVE TypeOK'
  BY <1>8 DEF vars, lines, callers, TypeOK
<1>9. QED
  BY <1>1, <1>2, <1>3, <1>4, <1>5, <1>6, <1>7, <1>8 DEF Next, Forward

\* Before the first page load everything is well typed.
LEMMA InitTypeOK == Init => TypeOK
<1>1. 0 \in 0 .. MaxLines
  BY TaskFacts
<1>2. QED
  BY <1>1 DEF Init, TypeOK

(***************************************************************************)
(* Callers, forwarders and pipes hold what they can hold.                  *)
(***************************************************************************)
THEOREM TypeInvariant == Spec => []TypeOK
<1>1. Init => TypeOK
  BY InitTypeOK
<1>2. QED
  BY <1>1, TypeStep, PTL DEF Spec

-----------------------------------------------------------------------------
(***************************************************************************)
(* SomeForwarder is not inductive: it holds after a forwarder has ended    *)
(* because of what made it end.  While stop is set, the caller that set it *)
(* is there or has started a forwarder that has not yet reset it; and a    *)
(* journalctl is killed only because stop was set.                         *)
(***************************************************************************)
StopPending ==
  stop => \/ \E f \in Tasks : fw[f] = "query"
          \/ \E c \in Callers : joins[c] # None
KilledByStop == proc # None /\ journal[proc] = "killed" => stop

\* A forwarder that has come to its loop has set proc.
ProcSet == \A f \in Tasks : fw[f] \in Loop => proc # None

USE NoneIsNoTask DEF Loop

IInv == TypeOK /\ SomeForwarder /\ StopPending /\ KilledByStop /\ ProcSet

\* Before the first page load there is nothing to attend to.
LEMMA InitIInv == Init => IInv
<1> SUFFICES ASSUME Init PROVE IInv
  OBVIOUS
<1>1. TypeOK
  BY InitTypeOK
<1>2. task = None /\ proc = None /\ ~stop /\ \A f \in Tasks : fw[f] = "none"
  BY DEF Init
<1>3. QED
  BY <1>1, <1>2 DEF IInv, SomeForwarder, StopPending, KilledByStop, ProcSet

\* A forwarder ends only when a caller or another forwarder is there.
LEMMA NextIInv == IInv /\ TypeOK' /\ [Next]_vars => IInv'
<1> SUFFICES ASSUME IInv, TypeOK', [Next]_vars PROVE IInv'
  OBVIOUS
<1> USE DEF IInv, TypeOK
<1>1. ASSUME NEW c \in Callers, page_loaded(c) PROVE IInv'
  <2>1. CASE task = None
    <3>1. PICK f \in Tasks : fw' = [fw EXCEPT ![f] = "query"] /\ fw[f] = "none" /\ task' = f
      BY <1>1, <2>1 DEF page_loaded, StartTask, Goes
    <3>2. UNCHANGED <<stop, proc, journal, joins>>
      BY <1>1, <2>1 DEF page_loaded, callers
    <3>3. QED
      BY <3>1, <3>2 DEF SomeForwarder, StopPending, KilledByStop, ProcSet
  <2>2. CASE task # None
    <3>1. joins' = [joins EXCEPT ![c] = task] /\ UNCHANGED <<fw, proc, journal>> /\ stop'
      BY <1>1, <2>2 DEF page_loaded
    <3>2. QED
      BY <2>2, <3>1 DEF SomeForwarder, StopPending, KilledByStop, ProcSet
  <2>3. QED
    BY <2>1, <2>2
<1>2. ASSUME NEW c \in Callers, joined(c) PROVE IInv'
  <2>1. PICK f \in Tasks : fw' = [fw EXCEPT ![f] = "query"] /\ fw[f] = "none" /\ task' = f
    BY <1>2 DEF joined, StartTask, Goes
  <2>2. UNCHANGED <<stop, proc, journal>>
    BY <1>2 DEF joined
  <2>3. QED
    BY <2>1, <2>2 DEF SomeForwarder, StopPending, KilledByStop, ProcSet
<1>3. ASSUME NEW f \in Tasks, Follow(f) PROVE IInv'
  <2>1. /\ fw' = [fw EXCEPT ![f] = "sleep"] /\ proc' = f /\ ~stop'
        /\ journal' = [journal EXCEPT ![f] = "running"] /\ UNCHANGED <<task, joins>>
    BY <1>3 DEF Follow, NewProc, Goes, callers
  <2>2. QED
    BY <2>1 DEF SomeForwarder, StopPending, KilledByStop, ProcSet
<1>4. ASSUME NEW f \in Tasks, Wake(f) PROVE IInv'
  <2>1. fw[f] = "sleep" /\ UNCHANGED <<task, stop, proc, joins>>
    BY <1>4 DEF Wake, callers
  <2>2. PICK to \in {"select", "ended"} : fw' = [fw EXCEPT ![f] = to]
    BY <1>4 DEF Wake, Goes
  <2>3. StopPending' /\ ProcSet'
    BY <2>1, <2>2 DEF StopPending, ProcSet
  <2>4. KilledByStop'
    BY <1>4, <2>1 DEF Wake, KillProc, KilledByStop
  <2>5. SomeForwarder'
    <3>1. CASE to = "select"
      BY <2>1, <2>2, <3>1 DEF SomeForwarder
    <3>2. CASE stop
      BY <2>1, <2>2, <3>2 DEF SomeForwarder, StopPending
    <3>3. CASE ~stop /\ Listened(proc)
      BY <2>1, <2>2, <3>3 DEF SomeForwarder, Listened
    <3>4. QED
      BY <1>4, <2>2, <3>1, <3>2, <3>3 DEF Wake, Goes
  <2>6. QED
    BY <2>3, <2>4, <2>5
<1>5. ASSUME NEW f \in Tasks, Selected(f) PROVE IInv'
  <2>1. fw[f] = "select" /\ UNCHANGED <<task, stop, proc, journal, joins>>
    BY <1>5 DEF Selected, callers
  <2>2. PICK to \in {"ready", "sleep"} : fw' = [fw EXCEPT ![f] = to]
    BY <1>5 DEF Selected, Goes
  <2>3. QED
    BY <2>1, <2>2 DEF SomeForwarder, StopPending, KilledByStop, ProcSet
<1>6. ASSUME NEW f \in Tasks, Readline(f) PROVE IInv'
  <2>1. fw[f] = "ready" /\ UNCHANGED <<task, stop, proc, journal, joins>>
    BY <1>6 DEF Readline, callers
  <2>2. CASE UNCHANGED fw
    BY <2>1, <2>2 DEF SomeForwarder, StopPending, KilledByStop, ProcSet
  <2>3. CASE Goes(f, "sleep")
    BY <2>1, <2>3 DEF Goes, SomeForwarder, StopPending, KilledByStop, ProcSet
  <2>4. CASE /\ Goes(f, "ended")
             /\ \/ journal[proc] = "killed"
                \/ sel[f] # proc /\ Listened(proc)
    <3>1. StopPending' /\ KilledByStop' /\ ProcSet'
      BY <2>1, <2>4 DEF Goes, StopPending, KilledByStop, ProcSet
    <3>2. SomeForwarder'
      <4>1. CASE journal[proc] = "killed"
        BY <2>1, <2>4, <4>1 DEF Goes, SomeForwarder, StopPending, KilledByStop, ProcSet
      <4>2. CASE sel[f] # proc /\ Listened(proc)
        BY <2>1, <2>4, <4>2 DEF Goes, SomeForwarder, Listened
      <4>3. QED
        BY <2>4, <4>1, <4>2
    <3>3. QED
      BY <3>1, <3>2
  <2>5. QED
    BY <1>6, <2>2, <2>3, <2>4 DEF Readline
<1>7. ASSUME UNCHANGED <<task, stop, proc, fw, journal, joins>> PROVE IInv'
  BY <1>7 DEF SomeForwarder, StopPending, KilledByStop, ProcSet
<1>8. QED
  BY <1>1, <1>2, <1>3, <1>4, <1>5, <1>6, <1>7 DEF Next, Forward, Prints, vars, callers

(***************************************************************************)
(* However callers interleave, the log does not lose its last forwarder.   *)
(***************************************************************************)
THEOREM NeverUnattended == Spec => []SomeForwarder
<1>1. Init => IInv
  BY InitIInv
<1>2. IInv => SomeForwarder
  BY DEF IInv
<1>3. QED
  BY <1>1, <1>2, NextIInv, TypeInvariant, PTL DEF Spec

-----------------------------------------------------------------------------
(***************************************************************************)
(* Until two callers meet, the one that joins waits for the last forwarder *)
(* started, and none has been started before the first.                    *)
(***************************************************************************)
OneJoins ==
  /\ task = None => \A f \in Tasks : fw[f] = "none"
  /\ \A c \in Callers : joins[c] # None => joins[c] = task
  /\ \A c, d \in Callers : joins[c] # None /\ joins[d] # None => c = d

Alone == ~met => OneJoins /\ OneFollower

\* As long as no two callers have met, no step brings a second forwarder.
LEMMA NextAlone == TypeOK /\ ProcSet /\ Alone /\ TypeOK' /\ [Next]_vars => Alone'
<1> SUFFICES ASSUME TypeOK, ProcSet, Alone, TypeOK', [Next]_vars, ~met'
             PROVE  OneJoins' /\ OneFollower'
  BY DEF Alone
<1> USE DEF TypeOK
<1>1. ~met
  BY DEF Next, page_loaded, joined, Forward, Follow, Wake, Selected, Readline, Prints, vars, callers
<1>2. /\ OneJoins
      /\ \A f \in Tasks : fw[f] \in Loop \cup {"query"} => f = task
      /\ \A j \in Tasks : journal[j] = "running" => j = proc /\ fw[j] \in Loop
  BY <1>1 DEF Alone, OneFollower
<1>3. ASSUME NEW c \in Callers, page_loaded(c) PROVE OneJoins' /\ OneFollower'
  <2>1. CASE task = None
    <3>1. PICK f \in Tasks : fw' = [fw EXCEPT ![f] = "query"] /\ fw[f] = "none" /\ task' = f
      BY <1>3, <2>1 DEF page_loaded, StartTask, Goes
    <3>2. UNCHANGED <<proc, journal, joins>>
      BY <1>3, <2>1 DEF page_loaded, callers
    <3>3. \A d \in Callers : joins[d] = None
      BY <1>2, <2>1 DEF OneJoins
    <3>4. QED
      BY <1>2, <2>1, <3>1, <3>2, <3>3 DEF OneJoins, OneFollower
  <2>2. CASE task # None
    <3>1. /\ joins' = [joins EXCEPT ![c] = task] /\ UNCHANGED <<task, fw, proc, journal>>
          /\ \A d \in Callers : joins[d] = None
      BY <1>3, <2>2 DEF page_loaded
    <3>2. QED
      BY <1>2, <2>2, <3>1 DEF OneJoins, OneFollower
  <2>3. QED
    BY <2>1, <2>2
<1>4. ASSUME NEW c \in Callers, joined(c) PROVE OneJoins' /\ OneFollower'
  <2>1. PICK f \in Tasks : fw' = [fw EXCEPT ![f] = "query"] /\ fw[f] = "none" /\ task' = f
    BY <1>4 DEF joined, StartTask, Goes
  <2>2. joins' = [joins EXCEPT ![c] = None] /\ UNCHANGED <<proc, journal>>
    BY <1>4 DEF joined
  <2>3. fw[task] = "ended" /\ \A d \in Callers : d # c => joins[d] = None
    BY <1>2, <1>4 DEF joined, OneJoins
  <2>4. \A g \in Tasks : fw[g] \notin Loop \cup {"query"}
    BY <1>2, <2>3
  <2>5. QED
    BY <1>2, <2>1, <2>2, <2>3, <2>4 DEF OneJoins, OneFollower
<1>5. ASSUME NEW f \in Tasks, Follow(f) PROVE OneJoins' /\ OneFollower'
  <2>1. /\ fw' = [fw EXCEPT ![f] = "sleep"] /\ proc' = f /\ fw[f] = "query"
        /\ journal' = [journal EXCEPT ![f] = "running"] /\ UNCHANGED <<task, joins>>
    BY <1>5 DEF Follow, NewProc, Goes, callers
  <2>2. \A j \in Tasks : journal[j] # "running"
    BY <1>2, <2>1
  <2>3. QED
    BY <1>2, <2>1, <2>2 DEF OneJoins, OneFollower
<1>6. ASSUME NEW f \in Tasks, Wake(f) PROVE OneJoins' /\ OneFollower'
  <2>1. fw[f] = "sleep" /\ UNCHANGED <<task, proc, joins>> /\ f = task
    BY <1>2, <1>6 DEF Wake, callers
  <2>2. CASE /\ journal' = [journal EXCEPT ![proc] = "killed"]
             /\ fw' = [fw EXCEPT ![f] = "ended"]
    <3>1. proc \in Tasks
      BY <2>1 DEF ProcSet
    <3>2. QED
      BY <1>2, <2>1, <2>2, <3>1 DEF OneJoins, OneFollower
  <2>3. CASE Listened(proc)
    BY <1>2, <2>1, <2>3 DEF Listened
  <2>4. CASE fw' = [fw EXCEPT ![f] = "select"] /\ UNCHANGED journal
    BY <1>2, <2>1, <2>4 DEF OneJoins, OneFollower
  <2>5. QED
    BY <1>6, <2>2, <2>3, <2>4 DEF Wake, KillProc, Goes
<1>7. ASSUME NEW f \in Tasks, NEW to \in {"sleep", "ready"}, fw[f] \in Loop,
             fw' = [fw EXCEPT ![f] = to], UNCHANGED <<task, proc, journal, joins>>
      PROVE OneJoins' /\ OneFollower'
  BY <1>2, <1>7 DEF OneJoins, OneFollower
<1>8. ASSUME NEW f \in Tasks, Readline(f) PROVE OneJoins' /\ OneFollower'
  <2>1. fw[f] = "ready" /\ UNCHANGED <<task, proc, journal, joins>> /\ f = task
    BY <1>2, <1>8 DEF Readline, callers
  <2>2. CASE UNCHANGED fw
    BY <1>2, <2>1, <2>2 DEF OneJoins, OneFollower
  <2>3. CASE Goes(f, "sleep")
    BY <1>7, <2>1, <2>3 DEF Goes
  <2>4. CASE Goes(f, "ended") /\ journal[proc] = "killed"
    <3>1. \A j \in Tasks : journal[j] # "running"
      BY <1>2, <2>4
    <3>2. QED
      BY <1>2, <2>1, <2>4, <3>1 DEF Goes, OneJoins, OneFollower
  <2>5. CASE sel[f] # proc /\ Listened(proc)
    BY <1>2, <2>1, <2>5 DEF Listened
  <2>6. QED
    BY <1>8, <2>2, <2>3, <2>4, <2>5 DEF Readline
<1>9. ASSUME NEW f \in Tasks, Selected(f) PROVE OneJoins' /\ OneFollower'
  <2>1. fw[f] = "select" /\ UNCHANGED <<task, proc, journal, joins>>
    BY <1>9 DEF Selected, callers
  <2>2. PICK to \in {"sleep", "ready"} : fw' = [fw EXCEPT ![f] = to]
    BY <1>9 DEF Selected, Goes
  <2>3. QED
    BY <1>7, <2>1, <2>2
<1>10. ASSUME UNCHANGED <<task, proc, fw, journal, joins>> PROVE OneJoins' /\ OneFollower'
  BY <1>2, <1>10 DEF OneJoins, OneFollower
<1>11. QED
  BY <1>3, <1>4, <1>5, <1>6, <1>8, <1>9, <1>10 DEF Next, Forward, Prints, vars, callers

(***************************************************************************)
(* Until two callers meet there is one forwarder and one journalctl.       *)
(***************************************************************************)
THEOREM OnlyOneFollows == Spec => []OneFollower
<1>1. Init => IInv /\ Alone
  <2>1. Init => \A f \in Tasks : fw[f] = "none" /\ journal[f] = "none"
    BY DEF Init
  <2>2. Init => \A c \in Callers : joins[c] = None
    BY DEF Init
  <2>3. QED
    BY <2>1, <2>2, InitIInv DEF Alone, OneJoins, OneFollower
<1>2. IInv => ProcSet
  BY DEF IInv
<1>3. Alone => OneFollower
  BY DEF Alone, OneFollower
<1>4. QED
  BY <1>1, <1>2, <1>3, NextIInv, NextAlone, TypeInvariant, PTL DEF Spec
=============================================================================
