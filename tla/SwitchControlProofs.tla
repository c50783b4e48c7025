------------------------- MODULE SwitchControlProofs -------------------------
(***************************************************************************)
(* The switch page for every number of requests, programs and versions.    *)
(***************************************************************************)
EXTENDS SwitchControl, TLAPS

\* Of two services, each is the other one's other.
LEMMA OtherService ==
  ASSUME NEW s \in Services
  PROVE  Other(s) \in Services /\ Other(s) # s /\ Other(Other(s)) = s
BY DEF Services, Other

\* A file that is missing does not name the default program.
LEMMA Default_Program == Default \in Programs /\ Absent # Default
BY ExamplesAssumption DEF Programs

\* The image a start script builds has the type of an image.
LEMMA ImageType ==
  ASSUME NEW s \in Services, NEW p \in Programs, source \in [Services -> Sources]
  PROVE  Image(s, p) \in Images
BY DEF Image, Images, Sources

\* systemctl stop, whether it works or not, stops at most service s.
LEMMA CallStopType ==
  ASSUME TypeOK, NEW s \in Services, NEW works \in BOOLEAN, CallStop(s, works)
  PROVE  /\ unit' \in [Services -> States] /\ runs' \in [Services -> Images]
         /\ \A t \in Services : unit'[t] \in {unit[t], "inactive"}
         /\ \A t \in Services : unit'[t] = unit[t] => runs'[t] = runs[t] \/ unit[t] = "inactive"
         /\ \A t \in Services \ {s} : unit'[t] = unit[t] /\ runs'[t] = runs[t]
         /\ works => unit'[s] = "inactive"
<1>1. NoImage \in Images
  BY DEF Images, Sources, NoImage
<1>2. CASE works
  BY <1>1, <1>2 DEF CallStop, Stopped, TypeOK, States
<1>3. CASE ~works
  BY <1>3 DEF CallStop, TypeOK
<1> QED
  BY <1>2, <1>3

\* What is noted are stops and disables of services.
LEMMA NotedType ==
  ASSUME TypeOK, NEW calls \in SUBSET ({"stop", "disable"} \X Services),
         NEW works \in BOOLEAN, Noted(calls, works)
  PROVE  missed' \subseteq {"stop", "disable"} \X Services
BY DEF TypeOK, Noted

\* No call, failure, crash or reboot takes a variable out of its type.
LEMMA TypeInvariant == Spec => []TypeOK
<1>0. NoImage \in Images /\ "t4p4s" \in Services
  BY DEF Images, Sources, NoImage, Services
<1>1. Init => TypeOK
  <2> SUFFICES ASSUME Init PROVE TypeOK
    OBVIOUS
  <2>1. source \in [Services -> Sources] /\ unit \in [Services -> States]
    BY DEF Init, States, Sources
  <2>2. runs \in [Services -> Images] /\ enabled \subseteq Services
    BY <1>0 DEF Init
  <2>3. QED
    BY <1>0, <2>1, <2>2 DEF Init, TypeOK
<1>2. TypeOK /\ [Next]_vars => TypeOK'
  <2> SUFFICES ASSUME TypeOK, [Next]_vars PROVE TypeOK'
    OBVIOUS
  <2> DEFINE Pcs == {"idle", "stop", "disable", "enable", "restart", "kill", "kill_other"}
             Calls == {"stop", "disable"} \X Services
  <2>0. /\ pc \in [Requests -> Pcs] /\ svc \in [Requests -> Services]
        /\ \A s \in Services : <<"stop", s>> \in Calls /\ <<"disable", s>> \in Calls
    BY DEF TypeOK
  <2>1. ASSUME NEW r \in Requests, Post(r) PROVE TypeOK'
    <3>1. PICK s \in Services :
            \/ \E p \in Examples : PostExample(r, s, p)
            \/ \E v \in Versions : PostUpload(r, s, v)
            \/ PostKill(r, s)
      BY <2>1 DEF Post
    <3>2. PICK to \in {"stop", "kill"} : Accept(r, s, to)
      BY <3>1 DEF PostExample, PostUpload, PostKill, Select
    <3>3. svc' \in [Requests -> Services] /\ pc' \in [Requests -> Pcs]
      BY <2>0, <3>2 DEF Accept, Goes
    <3>4. file' \in Programs \cup {Absent}
      BY <3>1 DEF PostExample, PostUpload, PostKill, Programs, TypeOK, disk
    <3>5. source' \in [Services -> Sources]
      BY <3>1 DEF PostExample, PostUpload, PostKill, Sources, TypeOK, disk
    <3>6. UNCHANGED <<unit, runs, enabled, aborted, missed>>
      BY <3>2 DEF Accept, systemd
    <3>7. crossed' \in BOOLEAN
      <4>1. CASE PostKill(r, s)
        BY <4>1 DEF PostKill, TypeOK
      <4>2. CASE Select(r, s)
        <5>1. crossed \in BOOLEAN
          BY DEF TypeOK
        <5>2. QED
          BY <4>2, <5>1, Zenon DEF Select
      <4>3. QED
        BY <3>1, <4>1, <4>2 DEF PostExample, PostUpload
    <3>8. QED
      BY <3>3, <3>4, <3>5, <3>6, <3>7 DEF TypeOK
  <2>2. ASSUME NEW r \in Requests, StopOther(r) \/ KillOwn(r) \/ KillOther(r)
        PROVE TypeOK'
    <3>1. svc[r] \in Services /\ Other(svc[r]) \in Services
      BY <2>0, OtherService
    <3>2. PICK s \in Services, works \in BOOLEAN, calls \in SUBSET Calls :
            CallStop(s, works) /\ Noted(calls, works)
      <4>1. CASE StopOther(r)
        <5>1. PICK works \in BOOLEAN :
                /\ CallStop(Other(svc[r]), works)
                /\ \/ Noted({<<"stop", Other(svc[r])>>}, works)
                   \/ Noted({<<"stop", Other(svc[r])>>, <<"disable", Other(svc[r])>>}, works)
          BY <4>1 DEF StopOther
        <5>2. QED
          BY <2>0, <3>1, <5>1
      <4>2. CASE KillOwn(r)
        BY <2>0, <3>1, <4>2 DEF KillOwn
      <4>3. CASE KillOther(r)
        BY <2>0, <3>1, <4>3 DEF KillOther
      <4>4. QED
        BY <2>2, <4>1, <4>2, <4>3
    <3>3. /\ unit' \in [Services -> States] /\ runs' \in [Services -> Images]
          /\ missed' \subseteq Calls
      BY <3>2, CallStopType, NotedType
    <3>4. pc' \in [Requests -> Pcs] /\ svc' \in [Requests -> Services]
      <4>1. CASE StopOther(r)
        BY <2>0, <4>1 DEF StopOther, Goes
      <4>2. CASE KillOwn(r)
        BY <2>0, <4>2 DEF KillOwn, Goes
      <4>3. CASE KillOther(r)
        BY <1>0, <2>0, <4>3 DEF KillOther, Succeeds, Ends, Goes
      <4>4. QED
        BY <2>2, <4>1, <4>2, <4>3
    <3>5. UNCHANGED <<file, source, enabled, aborted, crossed>>
      BY <2>2 DEF StopOther, KillOwn, KillOther, Succeeds, disk
    <3>6. QED
      BY <3>3, <3>4, <3>5 DEF TypeOK
  <2>3. ASSUME NEW r \in Requests, DisableOther(r) PROVE TypeOK'
    <3>1. missed' \subseteq Calls
      <4>1. PICK works \in BOOLEAN : Noted({<<"disable", Other(svc[r])>>}, works)
        BY <2>3 DEF DisableOther
      <4>2. QED
        BY <2>0, <4>1, OtherService, NotedType
    <3>2. enabled' \subseteq Services /\ pc' \in [Requests -> Pcs]
      BY <2>0, <2>3 DEF DisableOther, Goes, TypeOK
    <3>3. QED
      BY <2>3, <3>1, <3>2 DEF DisableOther, TypeOK, disk
  <2>4. ASSUME NEW r \in Requests, Enable(r) PROVE TypeOK'
    <3>1. missed' \subseteq Calls
      BY <2>0, <2>4, NotedType DEF Enable, Fails, TypeOK
    <3>2. /\ enabled' \subseteq Services /\ pc' \in [Requests -> Pcs]
          /\ svc' \in [Requests -> Services] /\ aborted' \in BOOLEAN
      BY <1>0, <2>0, <2>4 DEF Enable, Fails, Ends, Goes, TypeOK
    <3>3. QED
      BY <2>4, <3>1, <3>2 DEF Enable, TypeOK, disk
  <2>5. ASSUME NEW r \in Requests, Restart(r) PROVE TypeOK'
    <3>1. missed' \subseteq Calls
      <4>1. CASE Noted({<<"stop", svc[r]>>}, TRUE)
        BY <2>0, <4>1, NotedType
      <4>2. CASE Fails(r)
        BY <4>2 DEF Fails, TypeOK
      <4>3. QED
        BY <2>5, <4>1, <4>2 DEF Restart
    <3>2. unit' \in [Services -> States] /\ runs' \in [Services -> Images]
      <4>1. ASSUME NEW works \in BOOLEAN, CallStop(svc[r], works)
            PROVE  unit' \in [Services -> States] /\ runs' \in [Services -> Images]
        BY <2>0, <4>1, CallStopType
      <4>2. CASE /\ unit' = [unit EXCEPT ![svc[r]] = "starting"]
                 /\ runs' = [runs EXCEPT ![svc[r]] = NoImage]
        BY <1>0, <2>0, <4>2 DEF TypeOK, States
      <4>3. QED
        BY <2>5, <4>1, <4>2 DEF Restart
    <3>3. /\ pc' \in [Requests -> Pcs] /\ svc' \in [Requests -> Services]
          /\ aborted' \in BOOLEAN
      BY <1>0, <2>0, <2>5 DEF Restart, Fails, Succeeds, Ends, Goes, TypeOK
    <3>4. QED
      BY <2>5, <3>1, <3>2, <3>3 DEF Restart, TypeOK, disk
  <2>6. ASSUME NEW s \in Services, Boot(s) PROVE TypeOK'
    <3>1. file' \in Programs
      BY <2>6, Default_Program DEF Boot, TypeOK
    <3>2. Image(s, file') \in Images
      BY <3>1, ImageType DEF TypeOK
    <3>3. QED
      BY <2>6, <3>1, <3>2 DEF Boot, Unattended, history, TypeOK, States
  <2>7. ASSUME NEW s \in Services, Fail(s) \/ AutoRestart(s) PROVE TypeOK'
    BY <1>0, <2>7 DEF Fail, AutoRestart, Unattended, history, TypeOK, States
  <2>8. ASSUME WebRestart \/ Reboot PROVE TypeOK'
    <3>1. HandlersDie
      BY <2>8 DEF WebRestart, Reboot
    <3>2. aborted' \in BOOLEAN
      <4>1. aborted \in BOOLEAN
        BY DEF TypeOK
      <4>2. QED
        BY <3>1, <4>1, Zenon DEF HandlersDie
    <3>3. /\ unit' \in [Services -> States] /\ runs' \in [Services -> Images]
          /\ enabled' = enabled /\ missed' \subseteq Calls
      BY <1>0, <2>8 DEF WebRestart, Reboot, TypeOK, States, systemd
    <3>4. QED
      BY <1>0, <3>1, <3>2, <3>3 DEF HandlersDie, TypeOK, disk
  <2>9. ASSUME UNCHANGED vars PROVE TypeOK'
    BY <2>9 DEF vars, TypeOK
  <2>10. QED
    BY <2>1, <2>2, <2>3, <2>4, <2>5, <2>6, <2>7, <2>8, <2>9 DEF Next, Step
<1>3. QED
  BY <1>1, <1>2, PTL DEF Spec

-----------------------------------------------------------------------------
(***************************************************************************)
(* RunsSelected speaks of quiet moments.  What holds at every moment: a    *)
(* running switch that is not the one of the file will be stopped or       *)
(* restarted by a request under way.                                       *)
(***************************************************************************)
WillRenew(r, s) ==
  \/ pc[r] = "stop"
  \/ pc[r] \in {"disable", "enable", "restart"} /\ s = svc[r]

\* A switch that a failed stop left running is not promised anything.
Stale(s) ==
  unit[s] = "active" /\ <<"stop", s>> \notin missed /\ runs[s] # Image(s, file)

StaleIsRenewed == aborted \/ \A s \in Services : Stale(s) => \E r \in Requests : WillRenew(r, s)

\* Nothing runs before some start script has written the file.
FileWritten == file = Absent => \A s \in Services : unit[s] # "active"

IInv == TypeOK /\ StaleIsRenewed /\ FileWritten

\* A step of one request that makes no service stale and leaves no service it
\* would have renewed stale keeps the promise of the others.
LEMMA KeepsRenewal ==
  ASSUME StaleIsRenewed, aborted' = aborted, NEW r \in Requests,
         \A q \in Requests \ {r} : pc'[q] = pc[q] /\ svc'[q] = svc[q],
         \A s \in Services : Stale(s)' => Stale(s) /\ (WillRenew(r, s) => WillRenew(r, s)')
  PROVE  StaleIsRenewed'
<1> SUFFICES ASSUME ~aborted, NEW s \in Services, Stale(s)'
             PROVE  \E q \in Requests : WillRenew(q, s)'
  BY DEF StaleIsRenewed
<1>1. PICK q \in Requests : WillRenew(q, s)
  BY DEF StaleIsRenewed
<1>2. WillRenew(q, s)'
  BY <1>1 DEF WillRenew
<1> QED
  BY <1>2

\* A stop of a service makes nothing stale, and that service is not stale after it.
LEMMA StopLeavesNoneStale ==
  ASSUME TypeOK, NEW s \in Services, NEW works \in BOOLEAN, NEW calls,
         CallStop(s, works), Noted(calls, works), <<"stop", s>> \in calls,
         \A t \in Services \ {s} : <<"stop", t>> \notin calls, UNCHANGED disk
  PROVE  ~Stale(s)' /\ \A t \in Services : Stale(t)' => Stale(t)
<1>1. ~Stale(s)'
  BY CallStopType DEF Noted, Stale
<1>2. ASSUME NEW t \in Services \ {s} PROVE Stale(t)' = Stale(t)
  BY CallStopType DEF Noted, Stale, Image, disk
<1>3. QED
  BY <1>1, <1>2

\* Every step keeps the promises to renew what is stale.
LEMMA NextIInv == IInv /\ [Next]_vars /\ TypeOK' => IInv'
<1> SUFFICES ASSUME IInv, [Next]_vars, TypeOK' PROVE StaleIsRenewed' /\ FileWritten'
  BY DEF IInv
<1> DEFINE Pcs == {"idle", "stop", "disable", "enable", "restart", "kill", "kill_other"}
<1>0. TypeOK /\ StaleIsRenewed /\ FileWritten /\ pc \in [Requests -> Pcs]
      /\ svc \in [Requests -> Services]
  BY DEF IInv, TypeOK
<1>1. ASSUME NEW r \in Requests, Post(r) PROVE StaleIsRenewed' /\ FileWritten'
  <2>1. PICK s \in Services :
          \/ \E p \in Examples : PostExample(r, s, p)
          \/ \E v \in Versions : PostUpload(r, s, v)
          \/ PostKill(r, s)
    BY <1>1 DEF Post
  <2>2. CASE Select(r, s)
    <3>1. pc'[r] = "stop"
      BY <1>0, <2>2 DEF Select, Accept, Goes
    <3>2. file' # Absent
      <4>1. ~PostKill(r, s)
        BY <1>0, <3>1 DEF PostKill, Accept, Goes
      <4>2. file' \in Programs
        BY <2>1, <4>1 DEF PostExample, PostUpload, Programs
      <4>3. QED
        BY <4>2, ExamplesAssumption
    <3>3. \A t \in Services : WillRenew(r, t)'
      BY <3>1 DEF WillRenew
    <3>4. QED
      BY <3>2, <3>3 DEF StaleIsRenewed, FileWritten
  <2>3. CASE PostKill(r, s)
    <3>1. UNCHANGED <<file, source, unit, runs, aborted, missed>> /\ pc[r] = "idle"
      BY <2>3 DEF PostKill, Accept, disk, systemd
    <3>2. \A q \in Requests \ {r} : pc'[q] = pc[q] /\ svc'[q] = svc[q]
      BY <1>0, <2>3 DEF PostKill, Accept, Goes
    <3>3. \A t \in Services : Stale(t)' => Stale(t) /\ ~WillRenew(r, t)
      BY <3>1 DEF Stale, Image, WillRenew
    <3>4. QED
      BY <1>0, <3>1, <3>2, <3>3, KeepsRenewal DEF FileWritten
  <2>4. QED
    BY <2>1, <2>2, <2>3 DEF PostExample, PostUpload
<1>2. ASSUME NEW r \in Requests, StopOther(r) PROVE StaleIsRenewed' /\ FileWritten'
  <2> DEFINE other == Other(svc[r])
  <2>1. svc[r] \in Services /\ other \in Services /\ other # svc[r] /\ UNCHANGED <<svc, disk>>
        /\ aborted' = aborted
    BY <1>0, <1>2, OtherService DEF StopOther
  <2>2. PICK works \in BOOLEAN :
          /\ CallStop(other, works)
          /\ \/ Goes(r, "disable") /\ Noted({<<"stop", other>>}, works)
             \/ Goes(r, "enable") /\ Noted({<<"stop", other>>, <<"disable", other>>}, works)
    BY <1>2 DEF StopOther
  <2>3. /\ pc'[r] \in {"disable", "enable"}
        /\ \A q \in Requests \ {r} : pc'[q] = pc[q] /\ svc'[q] = svc[q]
    BY <1>0, <2>1, <2>2 DEF Goes
  <2>4. ~Stale(other)' /\ \A t \in Services : Stale(t)' => Stale(t)
    <3>1. PICK calls \in {{<<"stop", other>>}, {<<"stop", other>>, <<"disable", other>>}} :
            Noted(calls, works)
      BY <2>2
    <3>2. <<"stop", other>> \in calls
          /\ \A t \in Services \ {other} : <<"stop", t>> \notin calls
      BY <3>1
    <3>3. QED
      BY <1>0, <2>1, <2>2, <3>1, <3>2, StopLeavesNoneStale
  <2>5. \A t \in Services : t = other \/ t = svc[r]
    BY <2>1 DEF Services
  <2>6. \A t \in Services : Stale(t)' => Stale(t) /\ WillRenew(r, t)'
    BY <2>1, <2>3, <2>4, <2>5 DEF WillRenew
  <2>7. FileWritten'
    BY <1>0, <2>1, <2>2, CallStopType DEF FileWritten, disk
  <2>8. StaleIsRenewed'
    BY <1>0, <2>1, <2>3, <2>6, KeepsRenewal
  <2>9. QED
    BY <2>7, <2>8
<1>3. ASSUME NEW r \in Requests, DisableOther(r) PROVE StaleIsRenewed' /\ FileWritten'
  <2>1. /\ UNCHANGED <<file, source, unit, runs, svc, aborted>>
        /\ pc[r] = "disable" /\ pc'[r] = "enable"
        /\ \A q \in Requests \ {r} : pc'[q] = pc[q]
    BY <1>0, <1>3 DEF DisableOther, Goes, disk
  <2>2. \A t \in Services : <<"stop", t>> \in missed <=> <<"stop", t>> \in missed'
    <3>1. PICK works \in BOOLEAN : Noted({<<"disable", Other(svc[r])>>}, works)
      BY <1>3 DEF DisableOther
    <3>2. \A t \in Services : <<"stop", t>> # <<"disable", Other(svc[r])>>
      OBVIOUS
    <3>3. QED
      BY <3>1, <3>2 DEF Noted
  <2>3. \A t \in Services : Stale(t)' => Stale(t) /\ (WillRenew(r, t) => WillRenew(r, t)')
    BY <2>1, <2>2 DEF Stale, Image, WillRenew
  <2>4. QED
    BY <1>0, <2>1, <2>3, KeepsRenewal DEF FileWritten
<1>4. ASSUME NEW r \in Requests, KillOwn(r) \/ KillOther(r)
      PROVE StaleIsRenewed' /\ FileWritten'
  <2>1. PICK s \in Services, works \in BOOLEAN :
          CallStop(s, works) /\ Noted({<<"stop", s>>}, works)
    <3>1. CASE KillOwn(r)
      BY <1>0, <3>1 DEF KillOwn
    <3>2. CASE KillOther(r)
      BY <1>0, <3>2, OtherService DEF KillOther
    <3>3. QED
      BY <1>4, <3>1, <3>2
  <2>2. /\ UNCHANGED <<disk, aborted>> /\ pc[r] \in {"kill", "kill_other"}
        /\ \A q \in Requests \ {r} : pc'[q] = pc[q] /\ svc'[q] = svc[q]
    BY <1>0, <1>4 DEF KillOwn, KillOther, Succeeds, Ends, Goes
  <2>3. \A t \in Services : Stale(t)' => Stale(t)
    <3>1. \A t \in Services \ {s} : <<"stop", t>> \notin {<<"stop", s>>}
      OBVIOUS
    <3>2. QED
      BY <1>0, <2>1, <2>2, <3>1, StopLeavesNoneStale
  <2>4. \A t \in Services : ~WillRenew(r, t)
    BY <2>2 DEF WillRenew
  <2>5. FileWritten'
    BY <1>0, <2>1, <2>2, CallStopType DEF FileWritten, disk
  <2>6. QED
    BY <1>0, <2>2, <2>3, <2>4, <2>5, KeepsRenewal
<1>5. ASSUME NEW r \in Requests, Enable(r) PROVE StaleIsRenewed' /\ FileWritten'
  <2>1. UNCHANGED <<file, source, unit, runs>>
    BY <1>5 DEF Enable, disk
  <2>2. CASE Fails(r)
    BY <1>0, <2>1, <2>2 DEF Fails, StaleIsRenewed, FileWritten
  <2>3. CASE /\ Goes(r, "restart")
             /\ Noted({<<"disable", svc[r]>>}, TRUE)
             /\ UNCHANGED <<svc, aborted>>
    <3>1. /\ \A q \in Requests \ {r} : pc'[q] = pc[q] /\ svc'[q] = svc[q]
          /\ pc[r] = "enable" /\ pc'[r] = "restart"
      BY <1>0, <1>5, <2>3 DEF Enable, Goes
    <3>2. \A t \in Services : <<"stop", t>> \in missed => <<"stop", t>> \in missed'
      <4>1. \A t \in Services : <<"stop", t>> # <<"disable", svc[r]>>
        OBVIOUS
      <4>2. QED
        BY <2>3, <4>1 DEF Noted
    <3>3. \A t \in Services : Stale(t)' => Stale(t) /\ (WillRenew(r, t) => WillRenew(r, t)')
      BY <2>1, <2>3, <3>1, <3>2 DEF Stale, Image, WillRenew
    <3>4. QED
      BY <1>0, <2>1, <2>3, <3>1, <3>3, KeepsRenewal DEF FileWritten
  <2>4. QED
    BY <1>5, <2>2, <2>3 DEF Enable
<1>6. ASSUME NEW r \in Requests, Restart(r) PROVE StaleIsRenewed' /\ FileWritten'
  <2>1. UNCHANGED <<file, source>> /\ svc[r] \in Services /\ pc[r] = "restart"
    BY <1>0, <1>6 DEF Restart, disk
  <2>2. CASE Fails(r) /\ \E stopped \in BOOLEAN : CallStop(svc[r], stopped)
    BY <1>0, <2>1, <2>2, CallStopType DEF Fails, StaleIsRenewed, FileWritten
  <2>3. CASE /\ unit' = [unit EXCEPT ![svc[r]] = "starting"]
             /\ runs' = [runs EXCEPT ![svc[r]] = NoImage]
             /\ Noted({<<"stop", svc[r]>>}, TRUE)
             /\ Succeeds(r)
    <3>1. /\ unit'[svc[r]] = "starting"
          /\ \A t \in Services \ {svc[r]} : unit'[t] = unit[t] /\ runs'[t] = runs[t]
      BY <2>1, <2>3, <1>0 DEF TypeOK
    <3>2. \A t \in Services \ {svc[r]} : <<"stop", t>> \in missed => <<"stop", t>> \in missed'
      BY <2>3 DEF Noted
    <3>3. \A t \in Services : Stale(t)' => Stale(t) /\ t # svc[r]
      BY <2>1, <3>1, <3>2 DEF Stale, Image
    <3>4. /\ \A q \in Requests \ {r} : pc'[q] = pc[q] /\ svc'[q] = svc[q]
          /\ aborted' = aborted
      BY <1>0, <2>3 DEF Succeeds, Ends, Goes
    <3>5. StaleIsRenewed'
      BY <1>0, <2>1, <3>3, <3>4, KeepsRenewal DEF WillRenew
    <3>6. FileWritten'
      BY <1>0, <2>1, <3>1 DEF FileWritten
    <3>7. QED
      BY <3>5, <3>6
  <2>4. QED
    BY <1>6, <2>2, <2>3 DEF Restart
<1>7. ASSUME NEW s \in Services, Boot(s) PROVE StaleIsRenewed' /\ FileWritten'
  <2>1. /\ file' # Absent /\ UNCHANGED <<source, pc, svc, aborted, missed>>
        /\ (file' = file \/ file = Absent)
    BY <1>7, <1>0, Default_Program DEF Boot, Unattended, history
  <2>2. \A t \in Services : Stale(t)' => Stale(t)
    <3>1. ~Stale(s)'
      BY <1>0, <1>7, <2>1 DEF Boot, Stale, Image, TypeOK
    <3>2. ASSUME NEW t \in Services \ {s}, Stale(t)' PROVE Stale(t)
      <4>1. unit'[t] = unit[t] /\ runs'[t] = runs[t]
        BY <1>0, <1>7 DEF Boot, TypeOK
      <4>2. file' = file
        BY <1>0, <2>1, <3>2, <4>1 DEF FileWritten, Stale
      <4>3. QED
        BY <2>1, <3>2, <4>1, <4>2 DEF Stale, Image
    <3>3. QED
      BY <3>1, <3>2
  <2>3. QED
    BY <1>0, <2>1, <2>2 DEF StaleIsRenewed, WillRenew, FileWritten
<1>8. ASSUME NEW s \in Services, Fail(s) \/ AutoRestart(s) PROVE StaleIsRenewed' /\ FileWritten'
  <2>1. UNCHANGED <<file, source, pc, svc, aborted, missed>>
    BY <1>8 DEF Fail, AutoRestart, Unattended, history
  <2>2. /\ unit'[s] # "active"
        /\ \A t \in Services \ {s} : unit'[t] = unit[t] /\ runs'[t] = runs[t]
    BY <1>0, <1>8 DEF Fail, AutoRestart, TypeOK
  <2>3. \A t \in Services : Stale(t)' => Stale(t)
    BY <2>1, <2>2 DEF Stale, Image
  <2>4. QED
    BY <1>0, <2>1, <2>2, <2>3 DEF StaleIsRenewed, WillRenew, FileWritten
<1>9. ASSUME WebRestart PROVE StaleIsRenewed' /\ FileWritten'
  <2>1. UNCHANGED <<file, source, unit, runs, missed>>
    BY <1>9 DEF WebRestart, HandlersDie, disk, systemd
  <2>2. aborted' \/ (~aborted /\ \A r \in Requests : pc[r] = "idle")
    <3>1. aborted' = (aborted \/ \E r \in Requests : pc[r] # "idle")
      BY <1>9 DEF WebRestart, HandlersDie
    <3>2. QED
      BY <3>1, Zenon
  <2>3. aborted' \/ \A t \in Services : ~Stale(t)
    BY <1>0, <2>2 DEF StaleIsRenewed, WillRenew
  <2>4. QED
    BY <1>0, <2>1, <2>3 DEF StaleIsRenewed, Stale, Image, FileWritten
<1>10. ASSUME Reboot PROVE StaleIsRenewed' /\ FileWritten'
  BY <1>10 DEF Reboot, StaleIsRenewed, Stale, FileWritten
<1>11. ASSUME UNCHANGED vars PROVE StaleIsRenewed' /\ FileWritten'
  BY <1>0, <1>11 DEF vars, StaleIsRenewed, Stale, Image, WillRenew, FileWritten
<1> QED
  BY <1>1, <1>2, <1>3, <1>4, <1>5, <1>6, <1>7, <1>8, <1>9, <1>10, <1>11 DEF Next, Step

(***************************************************************************)
(* With any number of interleaved requests, and whatever calls fail, a     *)
(* quiet system runs what the file and the last upload say.                *)
(***************************************************************************)
THEOREM QuietRunsSelected == Spec => []RunsSelected
<1>1. Init /\ TypeOK => IInv
  BY DEF Init, IInv, StaleIsRenewed, Stale, FileWritten
<1>2. IInv => RunsSelected
  BY DEF IInv, StaleIsRenewed, Stale, WillRenew, RunsSelected, Quiet
<1> QED
  BY TypeInvariant, NextIInv, <1>1, <1>2, PTL DEF Spec

-----------------------------------------------------------------------------
(***************************************************************************)
(* OneSwitch holds step by step only with what a selection has achieved so *)
(* far, or noted that it has not, and with what a reboot would start.      *)
(***************************************************************************)
Missed(call, s) == <<call, s>> \in missed

\* While selections have not crossed, those under way are for one service.
SameService ==
  \A q, r \in Requests : Selecting(q) /\ Selecting(r) => svc[q] = svc[r]

OtherStopped ==
  \A r \in Requests :
    pc[r] \in {"disable", "enable", "restart"} =>
      ~Up(Other(svc[r])) \/ Missed("stop", Other(svc[r]))

OtherDisabled ==
  \A r \in Requests :
    pc[r] \in {"enable", "restart"} =>
      Other(svc[r]) \notin enabled \/ Missed("disable", Other(svc[r]))

OneEnabled ==
  (\A s \in Services : s \in enabled) => \E s \in Services : Missed("disable", s)

Held == OneSwitch /\ SameService /\ OtherStopped /\ OtherDisabled /\ OneEnabled
OneInv == TypeOK /\ (~crossed => Held)

\* Two services, and one is the other's other.
LEMMA TwoServices ==
  ASSUME NEW s \in Services, NEW t \in Services PROVE t = s \/ t = Other(s)
BY DEF Services, Other

(***************************************************************************)
(* A call that stops a service keeps all of it: the service is down, or    *)
(* the call is noted.                                                      *)
(***************************************************************************)
LEMMA StopKeeps ==
  ASSUME TypeOK, Held, NEW s \in Services, NEW works \in BOOLEAN,
         NEW calls \in SUBSET {<<"stop", s>>, <<"disable", s>>},
         CallStop(s, works), Noted(calls, works), <<"stop", s>> \in calls,
         works => calls = {<<"stop", s>>}
  PROVE  /\ OneSwitch'
         /\ \A t \in Services : ~Up(t) \/ Missed("stop", t) => ~Up(t)' \/ Missed("stop", t)'
         /\ ~Up(s)' \/ Missed("stop", s)'
         /\ \A t \in Services : Missed("disable", t) => Missed("disable", t)'
         /\ <<"disable", s>> \in calls => Missed("disable", s)'
<1>1. /\ \A t \in Services : ~Up(t) => ~Up(t)'
      /\ works => ~Up(s)'
  BY CallStopType DEF Up
<1>2. /\ ~works => missed' = missed \cup calls
      /\ works => missed' = missed \ {<<"stop", s>>}
  BY DEF Noted
<1>3. ~Up(s)' \/ Missed("stop", s)'
  BY <1>1, <1>2 DEF Missed
<1>4. \A t \in Services : Missed("disable", t) => Missed("disable", t)'
  BY <1>2 DEF Missed
<1>5. ASSUME NEW t \in Services \ {s}, Missed("stop", t) PROVE Missed("stop", t)'
  BY <1>2, <1>5 DEF Missed
<1>6. OneSwitch'
  BY <1>3 DEF OneSwitch, Missed
<1>7. <<"disable", s>> \in calls => Missed("disable", s)'
  <2>1. <<"disable", s>> # <<"stop", s>>
    OBVIOUS
  <2>2. QED
    BY <1>2, <2>1 DEF Missed
<1>8. QED
  BY <1>1, <1>3, <1>4, <1>5, <1>6, <1>7

\* Every step keeps what the selections have achieved, until two of them cross.
LEMMA NextOneInv == OneInv /\ [Next]_vars /\ TypeOK' => OneInv'
<1> SUFFICES ASSUME OneInv, [Next]_vars, TypeOK', ~crossed' PROVE Held'
  BY DEF OneInv
<1> DEFINE Pcs == {"idle", "stop", "disable", "enable", "restart", "kill", "kill_other"}
<1>0. /\ TypeOK /\ pc \in [Requests -> Pcs] /\ svc \in [Requests -> Services]
      /\ enabled \subseteq Services
      /\ \A q \in Requests : svc[q] \in Services /\ Other(svc[q]) \in Services
                             /\ Other(svc[q]) # svc[q]
  BY OtherService DEF OneInv, TypeOK
<1>1. ASSUME NEW r \in Requests, Post(r) PROVE Held'
  <2>1. PICK s \in Services : Select(r, s) \/ PostKill(r, s)
    BY <1>1 DEF Post, PostExample, PostUpload
  <2>2. /\ UNCHANGED <<unit, enabled, missed>> /\ pc'[r] \in {"stop", "kill"} /\ ~crossed
        /\ svc'[r] = s
        /\ \A q \in Requests \ {r} : pc'[q] = pc[q] /\ svc'[q] = svc[q]
    <3>1. PICK to \in {"stop", "kill"} : Accept(r, s, to)
      BY <2>1 DEF Select, PostKill
    <3>2. ~crossed
      BY <2>1 DEF Select, PostKill
    <3>3. QED
      BY <1>0, <3>1, <3>2 DEF Accept, Goes, systemd
  <2>3. Held
    BY <2>2 DEF OneInv
  <2>4. SameService'
    <3>1. CASE Select(r, s)
      <4>1. \A q \in Requests : Selecting(q) => svc[q] = s
        BY <3>1 DEF Select
      <4>2. \A q \in Requests : Selecting(q)' => svc'[q] = s
        BY <2>2, <4>1 DEF Selecting
      <4>3. QED
        BY <4>2 DEF SameService
    <3>2. CASE PostKill(r, s)
      <4>1. pc'[r] = "kill"
        BY <1>0, <3>2 DEF PostKill, Accept, Goes
      <4>2. QED
        BY <2>2, <2>3, <4>1 DEF Held, SameService, Selecting
    <3>3. QED
      BY <2>1, <3>1, <3>2
  <2>5. QED
    BY <2>2, <2>3, <2>4
    DEF Held, OneSwitch, OtherStopped, OtherDisabled, OneEnabled, Up, Missed
<1>2. ASSUME NEW r \in Requests, StopOther(r) PROVE Held'
  <2> DEFINE other == Other(svc[r])
  <2>1. /\ UNCHANGED <<svc, enabled, crossed>> /\ pc[r] = "stop" /\ Held
    BY <1>2 DEF StopOther, OneInv
  <2>2. PICK works \in BOOLEAN :
          /\ CallStop(other, works)
          /\ \/ Goes(r, "disable") /\ Noted({<<"stop", other>>}, works)
             \/ /\ ~works /\ Goes(r, "enable")
                /\ Noted({<<"stop", other>>, <<"disable", other>>}, works)
    BY <1>2 DEF StopOther
  <2>3. PICK calls \in SUBSET {<<"stop", other>>, <<"disable", other>>} :
          /\ Noted(calls, works) /\ <<"stop", other>> \in calls
          /\ works => calls = {<<"stop", other>>}
          /\ \/ pc'[r] = "disable"
             \/ pc'[r] = "enable" /\ <<"disable", other>> \in calls
    <3>1. CASE Goes(r, "disable") /\ Noted({<<"stop", other>>}, works)
      <4>1. pc'[r] = "disable"
        BY <1>0, <3>1 DEF Goes
      <4>2. QED
        BY <3>1, <4>1
    <3>2. CASE /\ ~works /\ Goes(r, "enable")
               /\ Noted({<<"stop", other>>, <<"disable", other>>}, works)
      <4>1. pc'[r] = "enable"
        BY <1>0, <3>2 DEF Goes
      <4>2. QED
        BY <3>2, <4>1
    <3>3. QED
      BY <2>2, <3>1, <3>2
  <2>4. /\ OneSwitch'
        /\ \A t \in Services : ~Up(t) \/ Missed("stop", t) => ~Up(t)' \/ Missed("stop", t)'
        /\ ~Up(other)' \/ Missed("stop", other)'
        /\ \A t \in Services : Missed("disable", t) => Missed("disable", t)'
        /\ <<"disable", other>> \in calls => Missed("disable", other)'
    BY <1>0, <2>1, <2>2, <2>3, StopKeeps
  <2>5. \A q \in Requests \ {r} : pc'[q] = pc[q]
    BY <1>0, <2>2 DEF Goes
  <2>6. SameService'
    BY <2>1, <2>3, <2>5 DEF Held, SameService, Selecting
  <2>7. OtherStopped'
    BY <1>0, <2>1, <2>4, <2>5 DEF Held, OtherStopped
  <2>8. OtherDisabled'
    BY <1>0, <2>1, <2>3, <2>4, <2>5 DEF Held, OtherDisabled
  <2>9. OneEnabled'
    BY <2>1, <2>4 DEF Held, OneEnabled
  <2>10. QED
    BY <2>4, <2>6, <2>7, <2>8, <2>9 DEF Held
<1>3. ASSUME NEW r \in Requests, DisableOther(r) PROVE Held'
  <2>0. PICK other \in Services : other = Other(svc[r])
    BY <1>0
  <2>1. /\ UNCHANGED <<unit, svc, crossed>> /\ pc[r] = "disable" /\ pc'[r] = "enable" /\ Held
        /\ \A q \in Requests \ {r} : pc'[q] = pc[q]
    BY <1>0, <1>3 DEF DisableOther, OneInv, Goes
  <2>2. PICK works \in BOOLEAN :
          /\ enabled' = IF works THEN enabled \ {other} ELSE enabled
          /\ missed' = IF works THEN missed \ {<<"disable", other>>}
                                ELSE missed \cup {<<"disable", other>>}
    BY <1>3, <2>0 DEF DisableOther, Noted
  <2>3. \A t \in Services : Missed("stop", t) <=> Missed("stop", t)'
    BY <2>2 DEF Missed
  <2>4. other \notin enabled' \/ Missed("disable", other)'
    BY <2>2 DEF Missed
  <2>5. \A t \in Services \ {other} :
          /\ t \in enabled' => t \in enabled
          /\ Missed("disable", t) => Missed("disable", t)'
    BY <2>2 DEF Missed
  <2>6. OneSwitch'
    <3>1. ~Up(other) \/ Missed("stop", other)
      BY <2>0, <2>1 DEF Held, OtherStopped
    <3>2. CASE ~Up(other)
      BY <1>0, <2>1, <3>2 DEF OneSwitch, Up
    <3>3. CASE Missed("stop", other)
      BY <1>0, <2>3, <3>3 DEF OneSwitch, Missed
    <3>4. QED
      BY <3>1, <3>2, <3>3
  <2>7. SameService' /\ OtherStopped'
    BY <1>0, <2>1, <2>3 DEF Held, SameService, Selecting, OtherStopped, Up
  <2>8. OtherDisabled'
    <3>1. ASSUME NEW q \in Requests, pc'[q] \in {"enable", "restart"},
                 NEW t \in Services, t = Other(svc[q])
          PROVE  t \notin enabled' \/ Missed("disable", t)'
      <4>1. CASE t = other
        BY <2>4, <4>1
      <4>2. CASE t # other
        <5>1. pc[q] \in {"enable", "restart"}
          BY <2>0, <2>1, <3>1, <4>2
        <5>2. t \notin enabled \/ Missed("disable", t)
          BY <2>1, <3>1, <5>1 DEF Held, OtherDisabled
        <5>3. QED
          BY <2>5, <4>2, <5>2
      <4>3. QED
        BY <4>1, <4>2
    <3>2. QED
      BY <1>0, <2>1, <3>1 DEF OtherDisabled
  <2>9. OneEnabled'
    BY <1>0, <2>4 DEF OneEnabled
  <2>10. QED
    BY <2>6, <2>7, <2>8, <2>9 DEF Held
<1>4. ASSUME NEW r \in Requests, Enable(r) PROVE Held'
  <2>0. PICK own \in Services, other \in Services :
          own = svc[r] /\ other = Other(svc[r]) /\ other # own
    BY <1>0
  <2>1. /\ UNCHANGED <<unit, crossed>> /\ pc[r] = "enable" /\ Held
    BY <1>4 DEF Enable, OneInv
  <2>2. CASE Fails(r) /\ UNCHANGED enabled
    <3>1. /\ pc'[r] = "idle" /\ UNCHANGED missed
          /\ \A q \in Requests \ {r} : pc'[q] = pc[q] /\ svc'[q] = svc[q]
      BY <1>0, <2>2 DEF Fails, Ends, Goes
    <3>2. QED
      BY <2>1, <2>2, <3>1
      DEF Held, OneSwitch, SameService, Selecting, OtherStopped, OtherDisabled, OneEnabled, Up,
          Missed
  <2>3. CASE /\ enabled' = enabled \cup {own} /\ Goes(r, "restart") /\ UNCHANGED svc
             /\ missed' = missed \ {<<"disable", own>>}
    <3>1. pc'[r] = "restart" /\ \A q \in Requests \ {r} : pc'[q] = pc[q]
      BY <1>0, <2>3 DEF Goes
    <3>2. /\ \A t \in Services : Missed("stop", t) <=> Missed("stop", t)'
          /\ \A t \in Services \ {own} : Missed("disable", t) <=> Missed("disable", t)'
      BY <2>3 DEF Missed
    <3>3. other \notin enabled' \/ Missed("disable", other)'
      <4>1. other \notin enabled \/ Missed("disable", other)
        BY <2>0, <2>1 DEF Held, OtherDisabled
      <4>2. QED
        BY <1>0, <2>0, <2>3, <3>2, <4>1
    <3>4. OneSwitch'
      <4>1. ~Up(other) \/ Missed("stop", other)
        BY <2>0, <2>1 DEF Held, OtherStopped
      <4>2. CASE ~Up(other)
        BY <1>0, <2>1, <4>2 DEF OneSwitch, Up
      <4>3. CASE Missed("stop", other)
        BY <1>0, <3>2, <4>3 DEF OneSwitch, Missed
      <4>4. QED
        BY <4>1, <4>2, <4>3
    <3>5. \A q \in Requests : pc'[q] \in {"enable", "restart"} => Other(svc'[q]) = other
      BY <2>0, <2>1, <2>3, <3>1 DEF Held, SameService, Selecting
    <3>6. OtherDisabled'
      BY <3>3, <3>5 DEF OtherDisabled
    <3>7. OneEnabled'
      BY <1>0, <3>3 DEF OneEnabled
    <3>8. SameService' /\ OtherStopped'
      BY <1>0, <2>1, <2>3, <3>1, <3>2 DEF Held, SameService, Selecting, OtherStopped, Up
    <3>9. QED
      BY <3>4, <3>6, <3>7, <3>8 DEF Held
  <2>4. QED
    BY <2>0, <1>4, <2>2, <2>3 DEF Enable, Noted
<1>5. ASSUME NEW r \in Requests, Restart(r) PROVE Held'
  <2>0. PICK own \in Services, other \in Services :
          own = svc[r] /\ other = Other(svc[r]) /\ other # own
    BY <1>0
  <2>1. /\ UNCHANGED <<enabled, crossed>> /\ pc[r] = "restart" /\ Held /\ pc'[r] = "idle"
        /\ \A q \in Requests \ {r} : pc'[q] = pc[q] /\ svc'[q] = svc[q]
    BY <1>0, <1>5 DEF Restart, Succeeds, Fails, Ends, Goes, OneInv
  <2>2. CASE Fails(r) /\ \E stopped \in BOOLEAN : CallStop(own, stopped)
    <3>1. UNCHANGED missed /\ \A t \in Services : Up(t)' => Up(t)
      BY <1>0, <2>2, CallStopType DEF Fails, Up
    <3>2. QED
      BY <1>0, <2>1, <3>1
      DEF Held, OneSwitch, SameService, Selecting, OtherStopped, OtherDisabled, OneEnabled, Missed
  <2>3. CASE /\ unit' = [unit EXCEPT ![own] = "starting"]
             /\ missed' = missed \ {<<"stop", own>>}
    <3>1. \A t \in Services \ {own} :
            /\ Up(t)' <=> Up(t)
            /\ Missed("stop", t) <=> Missed("stop", t)'
      BY <1>0, <2>3 DEF Up, Missed, TypeOK
    <3>2. \A t \in Services : Missed("disable", t) <=> Missed("disable", t)'
      BY <2>3 DEF Missed
    <3>3. ~Up(other)' \/ Missed("stop", other)'
      BY <1>0, <2>0, <2>1, <3>1 DEF Held, OtherStopped
    <3>4. OneSwitch'
      BY <1>0, <3>3 DEF OneSwitch, Missed
    <3>5. \A q \in Requests : pc'[q] \in {"disable", "enable", "restart"} => Other(svc'[q]) = other
      BY <2>0, <2>1 DEF Held, SameService, Selecting
    <3>6. OtherStopped'
      BY <3>3, <3>5 DEF OtherStopped
    <3>7. SameService' /\ OtherDisabled' /\ OneEnabled'
      BY <1>0, <2>1, <3>2 DEF Held, SameService, Selecting, OtherDisabled, OneEnabled
    <3>8. QED
      BY <3>4, <3>6, <3>7 DEF Held
  <2>4. QED
    BY <1>5, <2>0, <2>2, <2>3 DEF Restart, Noted
<1>6. ASSUME NEW r \in Requests, KillOwn(r) \/ KillOther(r) PROVE Held'
  <2>1. /\ UNCHANGED <<enabled, crossed>> /\ Held /\ pc'[r] \in {"kill_other", "idle"}
        /\ \A q \in Requests \ {r} : pc'[q] = pc[q] /\ svc'[q] = svc[q]
    BY <1>0, <1>6 DEF KillOwn, KillOther, Succeeds, Ends, Goes, OneInv
  <2>2. PICK s \in Services, works \in BOOLEAN :
          CallStop(s, works) /\ Noted({<<"stop", s>>}, works)
    <3>1. CASE KillOwn(r)
      BY <1>0, <3>1 DEF KillOwn
    <3>2. CASE KillOther(r)
      BY <1>0, <3>2 DEF KillOther
    <3>3. QED
      BY <1>6, <3>1, <3>2
  <2>3. /\ OneSwitch'
        /\ \A t \in Services : ~Up(t) \/ Missed("stop", t) => ~Up(t)' \/ Missed("stop", t)'
        /\ \A t \in Services : Missed("disable", t) => Missed("disable", t)'
    BY <1>0, <2>1, <2>2, StopKeeps
  <2>4. SameService'
    BY <2>1 DEF Held, SameService, Selecting
  <2>5. OtherStopped'
    BY <1>0, <2>1, <2>3 DEF Held, OtherStopped
  <2>6. OtherDisabled' /\ OneEnabled'
    BY <1>0, <2>1, <2>3 DEF Held, OtherDisabled, OneEnabled
  <2>7. QED
    BY <2>3, <2>4, <2>5, <2>6 DEF Held
<1>7. ASSUME NEW s \in Services, Boot(s) \/ Fail(s) \/ AutoRestart(s) PROVE Held'
  <2>1. UNCHANGED <<enabled, pc, svc, missed, crossed>> /\ Held
    BY <1>7 DEF Boot, Fail, AutoRestart, Unattended, history, OneInv
  <2>2. \A t \in Services : Up(t)' => Up(t)
    BY <1>0, <1>7 DEF Boot, Fail, AutoRestart, Up, TypeOK
  <2>3. QED
    BY <1>0, <2>1, <2>2
    DEF Held, OneSwitch, SameService, Selecting, OtherStopped, OtherDisabled, OneEnabled, Missed
<1>8. ASSUME WebRestart PROVE Held'
  <2>1. /\ \A q \in Requests : pc'[q] = "idle"
        /\ UNCHANGED <<unit, enabled, missed, crossed>> /\ Held
    BY <1>8 DEF WebRestart, HandlersDie, systemd, OneInv
  <2>2. QED
    BY <2>1
    DEF Held, OneSwitch, SameService, Selecting, OtherStopped, OtherDisabled, OneEnabled, Up, Missed
<1>9. ASSUME Reboot PROVE Held'
  <2>1. /\ \A q \in Requests : pc'[q] = "idle"
        /\ UNCHANGED <<enabled, crossed>> /\ Held
        /\ \A t \in Services : Up(t)' => t \in enabled
    BY <1>9 DEF Reboot, HandlersDie, Up, OneInv
  <2>2. \A t \in Services : Missed("disable", t) => Missed("disable", t)'
    <3>1. \A t \in Services : <<"disable", t>> \notin {"stop"} \X Services
      OBVIOUS
    <3>2. QED
      BY <1>9, <3>1 DEF Reboot, Missed
  <2>3. OneSwitch'
    BY <2>1, <2>2 DEF Held, OneEnabled, OneSwitch, Missed
  <2>4. QED
    BY <2>1, <2>2, <2>3
    DEF Held, SameService, Selecting, OtherStopped, OtherDisabled, OneEnabled
<1>10. ASSUME UNCHANGED vars PROVE Held'
  BY <1>10 DEF vars, OneInv, Held, OneSwitch, SameService, Selecting, OtherStopped, OtherDisabled,
               OneEnabled, Up, Missed
<1> QED
  BY <1>1, <1>2, <1>3, <1>4, <1>5, <1>6, <1>7, <1>8, <1>9, <1>10 DEF Next, Step

(***************************************************************************)
(* With any number of requests the two switches run together only if       *)
(* selections of both have crossed or a stop or a disable has failed,      *)
(* whatever else fails, restarts or is lost in between.                    *)
(***************************************************************************)
THEOREM OneUnlessMissed == Spec => []OneSwitch
<1>1. Init /\ TypeOK => OneInv
  <2> SUFFICES ASSUME Init, TypeOK PROVE Held
    BY DEF OneInv
  <2>1. "bmv2" \in Services /\ "bmv2" # "t4p4s"
    BY DEF Services
  <2>2. ~Up("bmv2") /\ "bmv2" \notin enabled /\ \A r \in Requests : pc[r] = "idle"
    BY <2>1 DEF Init, Up
  <2>3. QED
    BY <2>1, <2>2
    DEF Held, OneSwitch, SameService, Selecting, OtherStopped, OtherDisabled, OneEnabled
<1>2. OneInv => OneSwitch
  BY DEF OneInv, Held, OneSwitch
<1> QED
  BY TypeInvariant, NextOneInv, <1>1, <1>2, PTL DEF Spec

=============================================================================
