--------------------------- MODULE TerminalProofs ---------------------------
(***************************************************************************)
(* The invariants of the web terminal, for every set of sockets and every  *)
(* number of shells.                                                       *)
(***************************************************************************)
EXTENDS Terminal, TLAPS

(***************************************************************************)
(* OwnsItsChild alone is not inductive: a handler back from os.waitpid     *)
(* resets globals that may by then name another shell, unless the process  *)
(* it waited for is still the child.  What a handler waits for has been    *)
(* killed, and only its first reaper finds it a zombie.                    *)
(***************************************************************************)
WaitsForKilled ==
  \A s \in Sockets : sock[s] = "reaping" =>
    waits[s] \in Shells /\ proc[waits[s]] \in {"killed", "zombie", "reaped"}

IInv == TypeOK /\ OwnsItsChild /\ WaitsForKilled

\* The absence of a shell is not a shell.
LEMMA NoneIsNoShell == None \notin Shells
BY DEF None, Shells

\* Initially nothing runs and nobody waits.
LEMMA InitIInv == Init => IInv
<1> SUFFICES ASSUME Init PROVE IInv
  OBVIOUS
<1>1. garbled \in BOOLEAN
  BY DEF Init
<1>2. TypeOK
  BY <1>1, ShellBound DEF Init, TypeOK, Shells, None
<1>3. OwnsItsChild /\ WaitsForKilled
  BY DEF Init, OwnsItsChild, WaitsForKilled, Unreaped
<1> QED
  BY <1>2, <1>3 DEF IInv

\* Reaping the child p, with the globals reset, keeps the ownership.
LEMMA ReapedOwns ==
  ASSUME IInv, NEW p \in Shells, p = child_pid \/ proc[p] = "zombie", Reaped(p)
  PROVE  /\ proc' \in [Shells -> {"unborn", "live", "killed", "zombie", "reaped"}]
         /\ child_pid' = None /\ fd' = None
         /\ OwnsItsChild'
         /\ \A q \in Shells : proc[q] \in {"killed", "zombie", "reaped"}
                                => proc'[q] \in {"killed", "zombie", "reaped"}
<1>1. Unreaped = {p}
  BY NoneIsNoShell DEF IInv, TypeOK, OwnsItsChild, Unreaped
<1>2. Unreaped' = {}
  BY <1>1 DEF IInv, TypeOK, Unreaped, Reaped
<1> QED
  BY <1>2 DEF IInv, TypeOK, Reaped, OwnsItsChild

\* Every action keeps the strengthened invariant.
LEMMA NextIInv == IInv /\ [Next]_vars => IInv'
<1> SUFFICES ASSUME IInv, [Next]_vars PROVE IInv'
  OBVIOUS
<1> USE NoneIsNoShell
<1>1. ASSUME NEW s \in Sockets, connect(s) PROVE IInv'
  <2>1. CASE child_pid # None
    BY <1>1, <2>1 DEF connect, Typed, IInv, TypeOK, OwnsItsChild, WaitsForKilled, Unreaped
  <2>2. CASE child_pid = None
    <3>1. PICK p \in Shells : Fork(p)
      BY <1>1, <2>2 DEF connect
    <3>2. TypeOK'
      BY <1>1, <3>1 DEF connect, Fork, NewShell, ReaderGoes, IInv, TypeOK
    <3>3. Unreaped' = {p}
      BY <2>2, <3>1 DEF Fork, NewShell, IInv, TypeOK, OwnsItsChild, Unreaped
    <3>4. WaitsForKilled'
      BY <1>1, <3>1 DEF connect, Fork, NewShell, IInv, TypeOK, WaitsForKilled
    <3> QED
      BY <3>1, <3>2, <3>3, <3>4 DEF Fork, IInv, OwnsItsChild
  <2> QED
    BY <2>1, <2>2
<1>2. ASSUME NEW s \in Sockets, pty_input(s) \/ resize(s) PROVE IInv'
  BY <1>2 DEF pty_input, resize, ToShell, Typed, IInv, TypeOK, OwnsItsChild, WaitsForKilled, Unreaped
<1>3. ASSUME NEW s \in Sockets, disconnect(s) PROVE IInv'
  <2>1. CASE child_pid = None
    BY <1>3, <2>1 DEF disconnect, IInv, TypeOK, OwnsItsChild, WaitsForKilled, Unreaped
  <2>2. CASE child_pid # None /\ Reaped(child_pid) /\ sock' = [sock EXCEPT ![s] = "closed"] /\ UNCHANGED waits
    <3>1. child_pid \in Shells
      BY <2>2 DEF IInv, TypeOK
    <3> QED
      BY <1>3, <2>2, <3>1, ReapedOwns DEF disconnect, IInv, TypeOK, WaitsForKilled
  <2>3. CASE /\ child_pid # None
             /\ proc' = [proc EXCEPT ![child_pid] = "killed"]
             /\ WaitFor(s)
             /\ UNCHANGED <<child_pid, fd>>
    <3>1. child_pid \in Shells
      BY <2>3 DEF IInv, TypeOK
    <3>2. TypeOK'
      BY <1>3, <2>3, <3>1 DEF disconnect, WaitFor, IInv, TypeOK
    <3>3. Unreaped' = Unreaped
      BY <2>3, <3>1 DEF IInv, TypeOK, OwnsItsChild, Unreaped
    <3>4. WaitsForKilled'
      BY <2>3, <3>1 DEF WaitFor, IInv, TypeOK, WaitsForKilled
    <3> QED
      BY <2>3, <3>2, <3>3, <3>4 DEF IInv, OwnsItsChild
  <2> QED
    BY <1>3, <2>1, <2>2, <2>3 DEF disconnect
<1>4. ASSUME NEW s \in Sockets, waitpid(s) PROVE IInv'
  <2>1. waits[s] \in Shells
    BY <1>4 DEF waitpid, IInv, WaitsForKilled
  <2>2. CASE proc[waits[s]] = "zombie" /\ Reaped(waits[s])
    BY <1>4, <2>1, <2>2, ReapedOwns DEF waitpid, HandlerEnds, IInv, TypeOK, WaitsForKilled
  <2>3. CASE UNCHANGED <<child_pid, fd, proc>>
    BY <1>4, <2>1, <2>3 DEF waitpid, HandlerEnds, IInv, TypeOK, OwnsItsChild, Unreaped, WaitsForKilled
  <2> QED
    BY <1>4, <2>2, <2>3 DEF waitpid
<1>5. ASSUME NEW r \in Shells,
             Wake(r) \/ SelectReady(r) \/ SelectTimeout(r) \/ Read(r) \/ Unblock(r)
      PROVE IInv'
  <2>1. UNCHANGED <<child_pid, fd, proc, sock, waits>>
    BY <1>5 DEF Wake, SelectReady, SelectTimeout, Read, Unblock
  <2>2. garbled' \in BOOLEAN
    <3>1. garbled' = garbled \/ garbled' = TRUE
      BY <1>5 DEF Wake, SelectReady, SelectTimeout, Read, Unblock, Taken
    <3> QED
      BY <3>1 DEF IInv, TypeOK
  <2>3. TypeOK'
    <3>1. CASE Wake(r)
      BY <2>2, <3>1 DEF Wake, Select, ReaderGoes, IInv, TypeOK
    <3>2. CASE SelectReady(r) \/ SelectTimeout(r)
      BY <2>2, <3>2 DEF SelectReady, SelectTimeout, ReaderGoes, IInv, TypeOK
    <3>3. CASE Read(r) \/ Unblock(r)
      <4>1. /\ UNCHANGED <<child_pid, fd, proc, sock, waits, sel>>
            /\ tty' = tty \/ tty' = [tty EXCEPT ![fd] = @ \ {"out"}]
            /\ \E to \in {"sleep", "failed", "blocked"} : ReaderGoes(r, to)
        BY <3>3 DEF Read, Unblock, Taken
      <4> QED
        BY <2>2, <4>1 DEF ReaderGoes, IInv, TypeOK
    <3> QED
      BY <1>5, <3>1, <3>2, <3>3
  <2> QED
    BY <2>1, <2>3 DEF IInv, OwnsItsChild, Unreaped, WaitsForKilled
<1>6. ASSUME NEW p \in Shells, ShellWrites(p) \/ Die(p) PROVE IInv'
  BY <1>6 DEF ShellWrites, Die, IInv, TypeOK, OwnsItsChild, Unreaped, WaitsForKilled
<1>7. ASSUME WorkerRestart PROVE IInv'
  BY <1>7 DEF WorkerRestart, IInv, TypeOK, OwnsItsChild, Unreaped, WaitsForKilled
<1>8. ASSUME UNCHANGED vars PROVE IInv'
  BY <1>8 DEF vars, IInv, TypeOK, OwnsItsChild, Unreaped, WaitsForKilled
<1> QED
  BY <1>1, <1>2, <1>3, <1>4, <1>5, <1>6, <1>7, <1>8 DEF Next

(***************************************************************************)
(* The terminal's globals stay well formed, and child_pid names the one    *)
(* unreaped child: os.kill of the disconnect handler hits nothing else.    *)
(***************************************************************************)
THEOREM ChildOwned == Spec => [](TypeOK /\ OwnsItsChild)
<1>1. IInv => TypeOK /\ OwnsItsChild
  BY DEF IInv
<1> QED
  BY InitIInv, NextIInv, <1>1, PTL DEF Spec

-----------------------------------------------------------------------------
(***************************************************************************)
(* A reader fails in select only because another one waits there, and in   *)
(* os.read only because the shell is dead: unless a read does not decode,  *)
(* the last reader of a running shell never leaves.                        *)
(***************************************************************************)
LEMMA NextSomeReader == IInv /\ SomeReader /\ [Next]_vars => SomeReader'
<1> SUFFICES ASSUME IInv, SomeReader, [Next]_vars,
                    child_pid' # None, proc'[child_pid'] = "live"
             PROVE  Reading' # {} \/ garbled'
  BY DEF SomeReader
<1> USE NoneIsNoShell
<1>1. ASSUME NEW s \in Sockets, connect(s) PROVE Reading' # {} \/ garbled'
  <2>1. CASE child_pid # None
    BY <1>1, <2>1 DEF connect, SomeReader, Reading
  <2>2. CASE child_pid = None
    <3>1. PICK p \in Shells : Fork(p)
      BY <1>1, <2>2 DEF connect
    <3>2. reader'[p] = "sleep"
      BY <3>1 DEF Fork, ReaderGoes, IInv, TypeOK
    <3> QED
      BY <3>2 DEF Reading
  <2> QED
    BY <2>1, <2>2
<1>2. ASSUME NEW s \in Sockets, pty_input(s) \/ resize(s) PROVE Reading' # {} \/ garbled'
  BY <1>2 DEF pty_input, resize, ToShell, SomeReader, Reading
<1>3. ASSUME NEW s \in Sockets, disconnect(s) PROVE Reading' # {} \/ garbled'
  BY <1>3 DEF disconnect, Reaped, IInv, TypeOK
<1>4. ASSUME NEW s \in Sockets, waitpid(s) PROVE Reading' # {} \/ garbled'
  BY <1>4 DEF waitpid, HandlerEnds, Reaped, SomeReader, Reading
<1>5. ASSUME NEW r \in Shells, Wake(r) PROVE Reading' # {} \/ garbled'
  <2>1. child_pid # None /\ proc[child_pid] = "live" /\ fd # None
    BY <1>5 DEF Wake, IInv, OwnsItsChild
  <2>2. CASE Listened(fd) /\ ReaderGoes(r, "failed")
    <3>1. PICK q \in Shells : reader[q] \in {"select", "ready"}
      BY <2>2 DEF Listened
    <3>2. q # r /\ reader'[q] = reader[q]
      BY <1>5, <2>2, <3>1 DEF Wake, ReaderGoes, IInv, TypeOK
    <3> QED
      BY <3>1, <3>2 DEF Reading
  <2>3. CASE ReaderGoes(r, "select")
    <3>1. reader'[r] = "select"
      BY <2>3 DEF ReaderGoes, IInv, TypeOK
    <3> QED
      BY <3>1 DEF Reading
  <2> QED
    BY <1>5, <2>1, <2>2, <2>3 DEF Wake, Select
<1>6. ASSUME NEW r \in Shells,
             SelectReady(r) \/ SelectTimeout(r) \/ Read(r) \/ Unblock(r)
      PROVE Reading' # {} \/ garbled'
  <2>1. fd # None /\ ~HungUp(fd)
    BY <1>6 DEF SelectReady, SelectTimeout, Read, Unblock, HungUp, IInv, OwnsItsChild
  <2>2. reader'[r] \in {"ready", "sleep", "blocked"} \/ garbled'
    BY <1>6, <2>1 DEF SelectReady, SelectTimeout, Read, Unblock, Taken, ReaderGoes, IInv, TypeOK
  <2> QED
    BY <2>2 DEF Reading
<1>7. ASSUME NEW p \in Shells, ShellWrites(p) \/ Die(p) PROVE Reading' # {} \/ garbled'
  BY <1>7 DEF ShellWrites, Die, IInv, TypeOK, SomeReader, Reading
<1>8. ASSUME WorkerRestart PROVE Reading' # {} \/ garbled'
  BY <1>8 DEF WorkerRestart
<1>9. ASSUME UNCHANGED vars PROVE Reading' # {} \/ garbled'
  BY <1>9 DEF vars, SomeReader, Reading
<1> QED
  BY <1>1, <1>2, <1>3, <1>4, <1>5, <1>6, <1>7, <1>8, <1>9 DEF Next

(***************************************************************************)
(* A running shell is never left without a reader of its output, whatever  *)
(* readers of earlier shells do to the reader it was started with, unless  *)
(* output that does not decode has ended a reader of it.                   *)
(***************************************************************************)
THEOREM ShellHasReader == Spec => []SomeReader
<1>1. Init => SomeReader
  BY DEF Init, SomeReader
<1> QED
  BY InitIInv, NextIInv, NextSomeReader, <1>1, PTL DEF Spec

=============================================================================
