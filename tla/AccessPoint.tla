----------------------------- MODULE AccessPoint -----------------------------
(***************************************************************************)
(* The access point page (access_point_settings in dashboard/views.py, the *)
(* editors of dashboard/utils.py, the form of dashboard/forms.py): a POST  *)
(* rewrites three configuration files, restarts hostapd, and restarts the  *)
(* web service that is handling it.                                        *)
(*                                                                         *)
(* The worker is one eventlet thread.  An editor reads and writes a file   *)
(* without suspending, so the three of a request run together; only        *)
(* systemctl suspends.  Crashes fall between any two steps.                *)
(***************************************************************************)
EXTENDS Naturals

CONSTANTS
  Requests,    \* POSTs the worker handles at the same time
  Settings,    \* what a form holds
  Shipped,     \* what the files of the image hold
  Read         \* what the readers of the form make of a file with some settings

Files == {"dhcpcd", "dnsmasq", "hostapd"}
Lost == "lost"   \* truncated and not written: nothing is set, no line matches
Contents == Settings \cup {Lost}
Blank == ""
Readings == {Read[s] : s \in Settings} \cup {Blank}

ASSUME SettingsAssumption == Shipped \in Settings /\ Lost \notin Settings

VARIABLES
  file,        \* the settings each file holds
  matches,     \* the files that have the lines their editor looks for
  network,     \* the settings hostapd runs with
  offered,     \* what the form offers: read from the files by the worker's import
  web,         \* the web service is up, or being stopped by a request
  pc,          \* the next step of a request
  form,        \* what the request in this slot brings
  damaged,     \* an error or a crash has hit a request among its files
  cut,         \* a request ended before it had restarted hostapd
  skipped      \* since the last import, a request ended with no restart of the service

vars == <<file, matches, network, offered, web, pc, form, damaged, cut, skipped>>

Steps == Files \cup {"restart", "web"}

TypeOK ==
  /\ file \in [Files -> Contents]
  /\ matches \subseteq Files
  /\ network \in Settings \cup {"down"}
  /\ offered \in [Files -> Readings]
  /\ web \in {"up", "stopping"}
  /\ pc \in [Requests -> Steps \cup {"idle"}]
  /\ form \in [Requests -> Settings]
  /\ damaged \in BOOLEAN /\ cut \in BOOLEAN /\ skipped \in BOOLEAN

\* The block of wlan0 that update_dhcpcd_config looks for is not in the image;
\* who follows README.md:67 appends it.
Init ==
  /\ file = [f \in Files |-> Shipped]
  /\ matches \in {Files, Files \ {"dhcpcd"}}
  /\ network = Shipped
  /\ offered = [f \in Files |-> Read[Shipped]]
  /\ web = "up"
  /\ pc = [r \in Requests |-> "idle"]
  /\ form = [r \in Requests |-> Shipped]
  /\ damaged = FALSE
  /\ cut = FALSE
  /\ skipped = FALSE

-----------------------------------------------------------------------------
\* The form of a request is of no more use once it is past its editors.
Goes(r, to) ==
  /\ pc' = [pc EXCEPT ![r] = to]
  /\ form' = [form EXCEPT ![r] = IF to \in Files THEN @ ELSE Shipped]

\* Mutant: the editors may suspend.
MayRun(r) == TRUE

\* No other request is among its editors.
Runs(r) == \A q \in Requests \ {r} : pc[q] \notin Files

\* A valid form.
Post(r, s) ==
  /\ web = "up" /\ pc[r] = "idle" /\ Runs(r)
  /\ form' = [form EXCEPT ![r] = s]
  /\ pc' = [pc EXCEPT ![r] = "dhcpcd"]
  /\ UNCHANGED <<file, matches, network, offered, web, damaged, cut, skipped>>

\* re.sub: without its lines, the file is written back as it was.
Edited(r, f) == IF f \in matches THEN form[r] ELSE file[f]

\* An editor and its try block: it writes the file, or raises before the file
\* is opened for writing, or after.
Edit(r, f, next) ==
  /\ pc[r] = f /\ Runs(r)
  /\ \/ /\ file' = [file EXCEPT ![f] = Edited(r, f)]
        /\ Goes(r, next)
        /\ UNCHANGED <<matches, damaged>>
     \/ /\ Goes(r, "web")
        /\ damaged' = TRUE
        /\ UNCHANGED <<file, matches>>
     \/ /\ file' = [file EXCEPT ![f] = Lost]
        /\ matches' = matches \ {f}
        /\ Goes(r, "web")
        /\ damaged' = TRUE
  /\ UNCHANGED <<network, offered, web, cut, skipped>>

update_dhcpcd_config(r) == Edit(r, "dhcpcd", "dnsmasq")
update_dnsmasq_config(r) == Edit(r, "dnsmasq", "hostapd")
EditHostapdLast(r) == Edit(r, "hostapd", "web")  \* mutant: hostapd is not restarted
update_hostapd_config(r) == Edit(r, "hostapd", "restart")

\* systemctl restart hostapd.  hostapd does not start with an empty file.  An
\* error other than the exit status is not caught: it ends the request.
RestartHostapd(r) ==
  /\ pc[r] = "restart" /\ Runs(r)
  /\ \/ /\ file["hostapd"] # Lost
        /\ network' = file["hostapd"]
        /\ Goes(r, "web")
        /\ UNCHANGED <<damaged, cut, skipped>>
     \/ /\ network' = "down"
        /\ damaged' = TRUE
        /\ Goes(r, "web")
        /\ UNCHANGED <<cut, skipped>>
     \/ /\ Goes(r, "idle")
        /\ cut' = TRUE /\ skipped' = TRUE
        /\ UNCHANGED <<network, damaged>>
  /\ UNCHANGED <<file, matches, offered, web>>

\* restart_web_service: the call does not return to the request, which ends
\* with its worker; or it fails, and the request goes on to its answer.
restart_web_service(r) ==
  /\ pc[r] = "web" /\ Runs(r)
  /\ \/ /\ web' = "stopping"
        /\ UNCHANGED <<pc, form, skipped>>
     \/ /\ Goes(r, "idle")
        /\ skipped' = TRUE
        /\ UNCHANGED web
  /\ UNCHANGED <<file, matches, network, offered, damaged, cut>>

-----------------------------------------------------------------------------
\* The requests under way end.  One that was writing a file may leave it empty.
Killed ==
  LET writing == {f \in Files : \E r \in Requests : pc[r] = f}
  IN  /\ \/ UNCHANGED <<file, matches>>
         \/ \E f \in writing : /\ file' = [file EXCEPT ![f] = Lost]
                               /\ matches' = matches \ {f}
      /\ damaged' = (damaged \/ writing # {})
      /\ cut' = (cut \/ \E r \in Requests : pc[r] = "restart")
      /\ pc' = [r \in Requests |-> "idle"]
      /\ form' = [r \in Requests |-> Shipped]
      /\ web' = "up"

\* Mutant: the settings are read once, when the service is installed.
StaleImport == UNCHANGED offered /\ skipped' = FALSE

\* What the readers find in the files.  The first address of dhcpcd.conf is
\* that of br0, which no editor changes.
FilesSay ==
  [f \in Files |-> IF file[f] = Lost THEN Blank
                  ELSE IF f = "dhcpcd" THEN Read[Shipped] ELSE Read[file[f]]]

\* dashboard/forms.py: the values of the form are read when it is imported.
ImportForms == offered' = FilesSay' /\ skipped' = FALSE

\* Mutant: the requests go on in the new service.
WebStartsBeside ==
  /\ web = "stopping" /\ web' = "up"
  /\ UNCHANGED <<file, matches, network, pc, form, damaged, cut>>
  /\ ImportForms

\* systemd kills what is left after TimeoutStopSec, and starts the service.
WebStarts ==
  /\ web = "stopping"
  /\ Killed /\ ImportForms
  /\ UNCHANGED network

\* gunicorn's time limit, and a new worker.
WorkerDies ==
  /\ Killed /\ ImportForms
  /\ UNCHANGED network

\* A power failure at any time, and the boot: hostapd reads its file.
PowerFails ==
  /\ Killed /\ ImportForms
  /\ network' = IF file'["hostapd"] = Lost THEN "down" ELSE file'["hostapd"]

Step(r) ==
  \/ update_dhcpcd_config(r) \/ update_dnsmasq_config(r) \/ update_hostapd_config(r)
  \/ RestartHostapd(r) \/ restart_web_service(r)

Next ==
  \/ \E r \in Requests : Step(r) \/ \E s \in Settings : Post(r, s)
  \/ WebStarts \/ WorkerDies \/ PowerFails

Spec == Init /\ [][Next]_vars

(***************************************************************************)
(* Editors and systemctl return; systemd starts what it is told to; and    *)
(* the worker's hub resumes the requests that are ready in turn, so that   *)
(* one that finds the thread free again and again goes on.                 *)
(***************************************************************************)
FairSpec == Spec /\ WF_vars(WebStarts) /\ \A r \in Requests : SF_vars(Step(r))

-----------------------------------------------------------------------------
(***************************************************************************)
(* With requests in any number and the service restarted under them: while *)
(* no error and no crash has hit a request among its files, the files that *)
(* have their lines agree, between two requests.                           *)
(***************************************************************************)
Editing == \E r \in Requests : pc[r] \in Files
FilesAgree ==
  ~damaged /\ ~Editing =>
    \A f, g \in matches : file[f] = file[g]

(***************************************************************************)
(* The access point runs the network of its file once no request is under  *)
(* way, though a request may write the file while another one's restart of *)
(* hostapd is under way, unless a request ended before its own.            *)
(***************************************************************************)
NetworkRuns ==
  ~damaged /\ ~cut /\ (\A r \in Requests : pc[r] \in {"idle", "web"}) =>
    network = file["hostapd"]

(***************************************************************************)
(* When no request is under way, the form offers what its readers find in  *)
(* the files as they are, whatever errors and crashes there were, unless a *)
(* request has just ended without the restart it asks for.                 *)
(***************************************************************************)
FormCurrent == (\A r \in Requests : pc[r] = "idle") /\ ~skipped => offered = FilesSay

(***************************************************************************)
(* Every POST ends: the service it restarts is back up without it, or the  *)
(* restart has failed and the service was never down.                      *)
(***************************************************************************)
PostEnds == \A r \in Requests : pc[r] # "idle" ~> pc[r] = "idle" /\ web = "up"

=============================================================================
