---------------------------- MODULE SwitchControl ----------------------------
(***************************************************************************)
(* The switch page of the web interface: a POST selects a compiler and a   *)
(* program, and the handler drives two systemd services, t4p4s and bmv2    *)
(* (dashboard/views.py switch, dashboard/utils.py, the two units and their *)
(* start scripts).                                                         *)
(*                                                                         *)
(* The program name travels through the file /root/t4p4s-switch, which the *)
(* start script of either service reads when it comes to run.  Every       *)
(* systemctl call suspends the handler, so two requests interleave between *)
(* their calls; the effect of a call is one step.  The calls that stop and *)
(* disable are made with subprocess.call inside try/except: pass, so they  *)
(* may do nothing, or raise, and the handler goes on.                      *)
(***************************************************************************)
EXTENDS Naturals

CONSTANTS
  Requests,    \* POSTs the server handles at the same time
  Examples,    \* the programs of the list in switch
  Versions     \* the contents of uploaded sources

Services == {"t4p4s", "bmv2"}
Other(s) == IF s = "t4p4s" THEN "bmv2" ELSE "t4p4s"
Uploaded == "uploaded_switch"
Absent == "absent"
Default == "l2switch"
Programs == Examples \cup {Uploaded}

ASSUME ExamplesAssumption ==
  Default \in Examples /\ Uploaded \notin Examples /\ Absent \notin Programs
ASSUME VersionsAssumption == Absent \notin Versions

VARIABLES
  file,        \* /root/t4p4s-switch
  source,      \* uploaded_switch.p4 in the directory of each compiler
  unit,        \* systemd's state of each service
  runs,        \* the program, and the source, a running switch was built from
  enabled,     \* services started at boot
  pc,          \* the systemctl call a request makes next, or "idle"
  svc,         \* the service a request is for, t4p4s when there is none
  aborted,     \* some request ended before all its calls had worked
  missed,      \* history: what was to be stopped or disabled and was not
  crossed      \* history: selections of different services overlapped

vars == <<file, source, unit, runs, enabled, pc, svc, aborted, missed, crossed>>
disk == <<file, source>>
systemd == <<unit, runs, enabled>>
history == <<missed, crossed>>

States == {"inactive", "starting", "active", "waiting"}
Sources == Versions \cup {Absent}
Images == (Programs \cup {Absent}) \X Sources
NoImage == <<Absent, Absent>>

TypeOK ==
  /\ file \in Programs \cup {Absent}
  /\ source \in [Services -> Sources]
  /\ unit \in [Services -> States]
  /\ runs \in [Services -> Images]
  /\ enabled \subseteq Services
  /\ pc \in [Requests -> {"idle", "stop", "disable", "enable", "restart",
                          "kill", "kill_other"}]
  /\ svc \in [Requests -> Services]
  /\ aborted \in BOOLEAN
  /\ missed \subseteq {"stop", "disable"} \X Services
  /\ crossed \in BOOLEAN

\* The image as built: t4p4s is enabled, nothing was ever selected.
Init ==
  /\ file = Absent
  /\ source = [s \in Services |-> Absent]
  /\ unit = [s \in Services |-> IF s = "t4p4s" THEN "starting" ELSE "inactive"]
  /\ runs = [s \in Services |-> NoImage]
  /\ enabled = {"t4p4s"}
  /\ pc = [r \in Requests |-> "idle"]
  /\ svc = [r \in Requests |-> "t4p4s"]
  /\ aborted = FALSE
  /\ missed = {}
  /\ crossed = FALSE

Goes(r, to) == pc' = [pc EXCEPT ![r] = to]

-----------------------------------------------------------------------------
\* switch: the first call of a request for service s.
Accept(r, s, to) ==
  /\ pc[r] = "idle"
  /\ svc' = [svc EXCEPT ![r] = s]
  /\ Goes(r, to)
  /\ UNCHANGED <<systemd, aborted, missed>>

\* Between these calls a request puts service svc[r] in the place of the other.
Selecting(r) == pc[r] \in {"stop", "disable", "enable", "restart"}

\* A request that selects service s begins.
Select(r, s) ==
  /\ Accept(r, s, "stop")
  /\ crossed' = (crossed \/ \E q \in Requests : Selecting(q) /\ svc[q] # s)

\* set_t4p4s_switch(program), then restart_t4p4s_service or restart_bmv2_service.
PostExample(r, s, p) ==
  /\ Select(r, s)
  /\ file' = p
  /\ UNCHANGED source

\* upload_p4_program: the source, the file, the restart.
PostUpload(r, s, v) ==
  /\ Select(r, s)
  /\ source' = [source EXCEPT ![s] = v]
  /\ file' = Uploaded

\* kill_service: stop the service of the compiler, then the other one.
PostKill(r, s) ==
  /\ Accept(r, s, "kill")
  /\ UNCHANGED <<disk, crossed>>

\* Mutant: stopping misses a service that waits for its automatic restart.
StoppedIfUp(s) ==
  /\ unit' = [unit EXCEPT ![s] = IF @ = "waiting" THEN @ ELSE "inactive"]
  /\ runs' = [runs EXCEPT ![s] = NoImage]

\* systemctl stop; it also cancels an automatic restart that is due.
Stopped(s) ==
  /\ unit' = [unit EXCEPT ![s] = "inactive"]
  /\ runs' = [runs EXCEPT ![s] = NoImage]

\* subprocess.call(["systemctl", "stop", ...]): what it returns is not looked at.
CallStop(s, works) == IF works THEN Stopped(s) ELSE UNCHANGED <<unit, runs>>

\* What is left undone is noted, and struck off when it is made up for.
Noted(calls, works) == missed' = IF works THEN missed \ calls ELSE missed \cup calls

\* When the call raises, the rest of the try block is skipped.
StopOther(r) ==
  LET other == Other(svc[r]) IN
  /\ pc[r] = "stop"
  /\ \E works \in BOOLEAN :
       /\ CallStop(other, works)
       /\ \/ Goes(r, "disable") /\ Noted({<<"stop", other>>}, works)
          \/ /\ ~works
             /\ Goes(r, "enable")
             /\ Noted({<<"stop", other>>, <<"disable", other>>}, works)
  /\ UNCHANGED <<disk, enabled, svc, aborted, crossed>>

\* Whether the call returns or raises, enable is next.
DisableOther(r) ==
  LET other == Other(svc[r]) IN
  /\ pc[r] = "disable"
  /\ \E works \in BOOLEAN :
       /\ enabled' = IF works THEN enabled \ {other} ELSE enabled
       /\ Noted({<<"disable", other>>}, works)
  /\ Goes(r, "enable")
  /\ UNCHANGED <<disk, unit, runs, svc, aborted, crossed>>

\* The handler returns or raises.
Ends(r) ==
  /\ Goes(r, "idle")
  /\ svc' = [svc EXCEPT ![r] = "t4p4s"]

Succeeds(r) ==
  /\ Ends(r)
  /\ UNCHANGED aborted

\* check_call raises.  restart_* turns a CalledProcessError into a string that
\* switch drops, and the page is told of success all the same.
Fails(r) ==
  /\ Ends(r)
  /\ aborted' = TRUE
  /\ UNCHANGED missed

Enable(r) ==
  /\ pc[r] = "enable"
  /\ \/ /\ enabled' = enabled \cup {svc[r]}
        /\ Goes(r, "restart")
        /\ Noted({<<"disable", svc[r]>>}, TRUE)
        /\ UNCHANGED <<svc, aborted>>
     \/ /\ Fails(r)
        /\ UNCHANGED enabled
  /\ UNCHANGED <<disk, unit, runs, crossed>>

\* Mutant: systemctl start, which does nothing to a running service.
StartOwn(r) ==
  /\ pc[r] = "restart"
  /\ unit' = [unit EXCEPT ![svc[r]] = IF @ = "active" THEN @ ELSE "starting"]
  /\ Noted({<<"stop", svc[r]>>}, TRUE)
  /\ Succeeds(r)
  /\ UNCHANGED <<disk, runs, enabled, crossed>>

\* A restart that fails may have come as far as to stop the service.
Restart(r) ==
  /\ pc[r] = "restart"
  /\ \/ /\ unit' = [unit EXCEPT ![svc[r]] = "starting"]
        /\ runs' = [runs EXCEPT ![svc[r]] = NoImage]
        /\ Noted({<<"stop", svc[r]>>}, TRUE)
        /\ Succeeds(r)
     \/ /\ \E stopped \in BOOLEAN : CallStop(svc[r], stopped)
        /\ Fails(r)
  /\ UNCHANGED <<disk, enabled, crossed>>

KillOwn(r) ==
  /\ pc[r] = "kill"
  /\ \E works \in BOOLEAN :
       CallStop(svc[r], works) /\ Noted({<<"stop", svc[r]>>}, works)
  /\ Goes(r, "kill_other")
  /\ UNCHANGED <<disk, enabled, svc, aborted, crossed>>

KillOther(r) ==
  LET other == Other(svc[r]) IN
  /\ pc[r] = "kill_other"
  /\ \E works \in BOOLEAN :
       CallStop(other, works) /\ Noted({<<"stop", other>>}, works)
  /\ Succeeds(r)
  /\ UNCHANGED <<disk, enabled, crossed>>

-----------------------------------------------------------------------------
\* What a start script builds: the program of the file, from its directory.
Image(s, p) == <<p, IF p = Uploaded THEN source[s] ELSE Absent>>

\* systemd and the services go on, whatever the handlers do.
Unattended ==
  /\ UNCHANGED <<source, enabled, pc, svc, aborted, history>>

\* bmv2-start and t4p4s-start, which write the default into a missing file.
Boot(s) ==
  /\ unit[s] = "starting"
  /\ file' = IF file = Absent THEN Default ELSE file
  /\ runs' = [runs EXCEPT ![s] = Image(s, file')]
  /\ unit' = [unit EXCEPT ![s] = "active"]
  /\ Unattended

\* Mutant: without Restart=on-failure.
FailForGood(s) ==
  /\ unit[s] \in {"starting", "active"}
  /\ Stopped(s)
  /\ Unattended
  /\ UNCHANGED file

\* Restart=on-failure: a compiler error or a crash, and 5 seconds later a start.
Fail(s) ==
  /\ unit[s] \in {"starting", "active"}
  /\ unit' = [unit EXCEPT ![s] = "waiting"]
  /\ runs' = [runs EXCEPT ![s] = NoImage]
  /\ Unattended
  /\ UNCHANGED file

AutoRestart(s) ==
  /\ unit[s] = "waiting"
  /\ unit' = [unit EXCEPT ![s] = "starting"]
  /\ Unattended
  /\ UNCHANGED <<file, runs>>

\* The requests under way are lost.
HandlersDie ==
  /\ pc' = [r \in Requests |-> "idle"]
  /\ svc' = [r \in Requests |-> "t4p4s"]
  /\ aborted' = (aborted \/ \E r \in Requests : pc[r] # "idle")
  /\ UNCHANGED <<disk, crossed>>

\* restart_web_service of the access point page, or gunicorn's arbiter.
WebRestart ==
  /\ HandlersDie
  /\ UNCHANGED <<systemd, missed>>

\* What a stop missed has ended; what was not disabled comes up again.
Reboot ==
  /\ HandlersDie
  /\ unit' = [s \in Services |-> IF s \in enabled THEN "starting" ELSE "inactive"]
  /\ runs' = [s \in Services |-> NoImage]
  /\ missed' = missed \ ({"stop"} \X Services)
  /\ UNCHANGED enabled

Step(r) ==
  \/ StopOther(r) \/ DisableOther(r) \/ Enable(r) \/ Restart(r)
  \/ KillOwn(r) \/ KillOther(r)

Post(r) ==
  \E s \in Services :
    \/ \E p \in Examples : PostExample(r, s, p)
    \/ \E v \in Versions : PostUpload(r, s, v)
    \/ PostKill(r, s)

Next ==
  \/ \E r \in Requests : Post(r) \/ Step(r)
  \/ \E s \in Services : Boot(s) \/ Fail(s) \/ AutoRestart(s)
  \/ WebRestart \/ Reboot

Spec == Init /\ [][Next]_vars

(***************************************************************************)
(* A systemctl call returns, and systemd starts what it has to start.      *)
(***************************************************************************)
FairSpec ==
  /\ Spec
  /\ \A r \in Requests : WF_vars(Step(r))
  /\ \A s \in Services : SF_vars(Boot(s)) /\ WF_vars(AutoRestart(s))

-----------------------------------------------------------------------------
Quiet == \A r \in Requests : pc[r] = "idle"

(***************************************************************************)
(* However the requests interleave: when none is under way and none was    *)
(* cut short, a running switch, unless it is one that a failed stop left   *)
(* running, runs the program of the file, built from the last source       *)
(* uploaded for its compiler.  The file may be written by a request        *)
(* between another one's write and its restart.                            *)
(***************************************************************************)
RunsSelected ==
  Quiet /\ ~aborted =>
    \A s \in Services :
      unit[s] = "active" /\ <<"stop", s>> \notin missed => runs[s] = Image(s, file)

(***************************************************************************)
(* The two switches share veth0 and veth1.  They run together only if      *)
(* selections of both have overlapped, or if a stop or a disable that      *)
(* nobody made up for has failed.  Nothing else brings it about: no        *)
(* overlap of requests for one compiler or of a selection with kills, no   *)
(* automatic restart, no lost request, no reboot, no failed enable or      *)
(* restart.                                                                *)
(***************************************************************************)
Up(s) == unit[s] # "inactive"
OneSwitch == (\A s \in Services : Up(s)) => crossed \/ missed # {}

(***************************************************************************)
(* A selected program comes to run, across failures of the switch and      *)
(* reboots, unless a check_call fails, the web service dies under the      *)
(* request, another request comes, or the other switch is up and holds the *)
(* ports.                                                                  *)
(***************************************************************************)
SelectionRuns ==
  \A s \in Services :
    (\E r \in Requests : pc[r] = "restart" /\ svc[r] = s) ~>
      \/ unit[s] = "active" /\ runs[s] = Image(s, file)
      \/ aborted
      \/ \E r \in Requests : pc[r] \in {"stop", "kill", "kill_other"}
      \/ Up(Other(s))

=============================================================================
