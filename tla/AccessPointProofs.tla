-------------------------- MODULE AccessPointProofs --------------------------
(***************************************************************************)
(* What the access point page keeps, for any number of requests and        *)
(* settings.                                                               *)
(***************************************************************************)
EXTENDS AccessPoint, TLAPS

USE DEF Goes

\* A file may hold nothing, or what some form had.
LEMMA LostIsContents == Lost \in Contents /\ Settings \subseteq Contents
  BY DEF Contents

-----------------------------------------------------------------------------
(***************************************************************************)
(* Files, daemons and requests hold what they can hold: a daemon that runs *)
(* has settings, though its file may have been lost.                       *)
(***************************************************************************)
LEMMA KilledType == TypeOK /\ Killed => /\ file' \in [Files -> Contents]
                                        /\ matches' \subseteq Files
                                        /\ web' \in {"up", "stopping"}
                                        /\ pc' \in [Requests -> Steps \cup {"idle"}]
                                        /\ form' \in [Requests -> Settings]
                                        /\ damaged' \in BOOLEAN /\ cut' \in BOOLEAN
<1> SUFFICES ASSUME TypeOK, Killed PROVE /\ file' \in [Files -> Contents]
                                         /\ matches' \subseteq Files
                                         /\ web' \in {"up", "stopping"}
                                         /\ pc' \in [Requests -> Steps \cup {"idle"}]
                                         /\ form' \in [Requests -> Settings]
                                         /\ damaged' \in BOOLEAN /\ cut' \in BOOLEAN
  OBVIOUS
<1>1. file' \in [Files -> Contents] /\ matches' \subseteq Files
  <2>1. CASE UNCHANGED <<file, matches>>
    BY <2>1 DEF TypeOK
  <2>2. ASSUME NEW f \in Files, file' = [file EXCEPT ![f] = Lost], matches' = matches \ {f}
        PROVE file' \in [Files -> Contents] /\ matches' \subseteq Files
    BY <2>2, LostIsContents DEF TypeOK
  <2>3. QED
    BY <2>1, <2>2 DEF Killed
<1>2. QED
  BY <1>1, SettingsAssumption DEF Killed, TypeOK

\* The image's files and daemons are well typed.
LEMMA InitTypeOK == Init => TypeOK
<1> SUFFICES ASSUME Init PROVE TypeOK
  OBVIOUS
<1>1. matches \subseteq Files
  BY DEF Init
<1>2. [f \in Files |-> Read[Shipped]] \in [Files -> Readings]
  BY SettingsAssumption DEF Readings
<1>3. QED
  BY <1>1, <1>2, SettingsAssumption, LostIsContents DEF Init, TypeOK

\* No editor, restart, crash or power failure takes a variable out of its type.
THEOREM TypeInvariant == Spec => []TypeOK
<1>1. Init => TypeOK
  BY InitTypeOK
<1>2. TypeOK /\ [Next]_vars => TypeOK'
  <2> SUFFICES ASSUME TypeOK, [Next]_vars PROVE TypeOK'
    OBVIOUS
  <2>1. ASSUME NEW r \in Requests, NEW s \in Settings, Post(r, s) PROVE TypeOK'
    BY <2>1 DEF Post, TypeOK, Steps, Files
  <2>2. ASSUME NEW r \in Requests, NEW f \in Files, NEW next \in Steps, Edit(r, f, next)
        PROVE TypeOK'
    <3>1. "web" \in Steps
      BY DEF Steps
    <3>2. Edited(r, f) \in Contents
      BY LostIsContents DEF Edited, TypeOK
    <3>3. UNCHANGED <<network, offered, web, cut, skipped>>
      BY <2>2 DEF Edit
    <3>4. CASE /\ file' = [file EXCEPT ![f] = Edited(r, f)]
               /\ Goes(r, next) /\ UNCHANGED <<matches, damaged>>
      BY <3>2, <3>3, <3>4, SettingsAssumption DEF TypeOK
    <3>5. CASE Goes(r, "web") /\ damaged' = TRUE /\ UNCHANGED <<file, matches>>
      BY <3>1, <3>3, <3>5, SettingsAssumption DEF TypeOK
    <3>6. CASE /\ file' = [file EXCEPT ![f] = Lost] /\ matches' = matches \ {f}
               /\ Goes(r, "web") /\ damaged' = TRUE
      BY <3>1, <3>3, <3>6, LostIsContents, SettingsAssumption DEF TypeOK
    <3>7. QED
      BY <2>2, <3>4, <3>5, <3>6 DEF Edit
  <2>3. ASSUME NEW r \in Requests, RestartHostapd(r) PROVE TypeOK'
    <3>1. PICK to \in {"web", "idle"} : Goes(r, to)
      BY <2>3 DEF RestartHostapd
    <3>2. /\ pc' \in [Requests -> Steps \cup {"idle"}]
          /\ form' \in [Requests -> Settings]
      BY <3>1, SettingsAssumption DEF TypeOK, Steps
    <3>3. network' \in Settings \cup {"down"}
      BY <2>3 DEF RestartHostapd, TypeOK, Contents, Files
    <3>4. damaged' \in BOOLEAN /\ cut' \in BOOLEAN /\ skipped' \in BOOLEAN
      BY <2>3 DEF RestartHostapd, TypeOK
    <3>5. QED
      BY <2>3, <3>2, <3>3, <3>4 DEF RestartHostapd, TypeOK
  <2>4. ASSUME NEW r \in Requests, restart_web_service(r) PROVE TypeOK'
    BY <2>4, SettingsAssumption DEF restart_web_service, TypeOK
  <2>5. ASSUME WebStarts \/ WorkerDies \/ PowerFails PROVE TypeOK'
    <3>1. Killed /\ offered' = FilesSay' /\ skipped' = FALSE
      BY <2>5 DEF WebStarts, WorkerDies, PowerFails, ImportForms
    <3>2. file' \in [Files -> Contents]
      BY <3>1, KilledType
    <3>3. FilesSay' \in [Files -> Readings]
      BY <3>2, SettingsAssumption DEF FilesSay, Readings, Contents
    <3>4. network' \in Settings \cup {"down"}
      BY <2>5, <3>2 DEF WebStarts, WorkerDies, PowerFails, TypeOK, Contents, Files
    <3>5. QED
      BY <3>1, <3>3, <3>4, KilledType DEF TypeOK
  <2>6. ASSUME UNCHANGED vars PROVE TypeOK'
    BY <2>6 DEF vars, TypeOK
  <2>7. QED
    BY <2>1, <2>2, <2>3, <2>4, <2>5, <2>6
       DEF Next, Step, update_dhcpcd_config, update_dnsmasq_config, update_hostapd_config, Files, Steps
<1>3. QED
  BY <1>1, <1>2, PTL DEF Spec

-----------------------------------------------------------------------------
(***************************************************************************)
(* FilesAgree is not inductive: while a request is among its editors, the  *)
(* files it has been through hold its form and the others still agree with *)
(* each other.  No two requests are among their editors at once.           *)
(***************************************************************************)
OneEdits == \A q, r \in Requests : pc[q] \in Files /\ pc[r] \in Files => q = r

AllAgree == \A f, g \in matches : file[f] = file[g]
Holds(r, f) == f \in matches => file[f] = form[r]

InStep ==
  /\ ~Editing => AllAgree
  /\ \A r \in Requests :
       /\ pc[r] = "dhcpcd" => AllAgree
       /\ pc[r] = "dnsmasq" => Holds(r, "dhcpcd") /\ file["dnsmasq"] = file["hostapd"]
       /\ pc[r] = "hostapd" => Holds(r, "dhcpcd") /\ Holds(r, "dnsmasq")

\* Without damage the files have settings, and the two whose lines the image
\* has keep them; a file hostapd has not been restarted with has its restart
\* before it.
Whole == (\A f \in Files : file[f] # Lost) /\ {"dnsmasq", "hostapd"} \subseteq matches
Awaited == ~cut => network = file["hostapd"] \/ \E r \in Requests : pc[r] = "restart"

IInv == TypeOK /\ OneEdits /\ (~damaged => InStep /\ Whole /\ Awaited)

\* The strengthened invariant holds of the image.
LEMMA InitIInv == Init => IInv
<1> SUFFICES ASSUME Init PROVE IInv
  OBVIOUS
<1>1. TypeOK
  BY InitTypeOK
<1>2. network = Shipped /\ \A f \in Files : file[f] = Shipped
  BY DEF Init
<1>3. matches \subseteq Files /\ {"dnsmasq", "hostapd"} \subseteq matches
  BY DEF Init, Files
<1>4. \A r \in Requests : pc[r] = "idle"
  BY DEF Init
<1>5. InStep /\ OneEdits
  BY <1>2, <1>3, <1>4 DEF InStep, OneEdits, AllAgree, Files
<1>6. Whole
  BY <1>2, <1>3, SettingsAssumption DEF Whole
<1>7. Awaited
  BY <1>2 DEF Awaited, Files
<1>8. QED
  BY <1>1, <1>5, <1>6, <1>7 DEF IInv

\* An end of the worker that does no damage falls between two requests.
LEMMA Quiet ==
  ASSUME IInv, Killed, ~damaged'
  PROVE  /\ ~damaged /\ ~Editing /\ UNCHANGED <<file, matches>>
         /\ \A r \in Requests : pc'[r] = "idle"
         /\ ~cut' => ~cut /\ \A r \in Requests : pc[r] # "restart"
BY DEF Killed, Editing

\* Each step of a request, and each failure, preserves it.
LEMMA NextIInv == IInv /\ TypeOK' /\ [Next]_vars => IInv'
<1> SUFFICES ASSUME IInv, TypeOK', [Next]_vars PROVE IInv'
  OBVIOUS
<1> DEFINE Rest == InStep /\ Whole /\ Awaited
<1>1. ASSUME NEW r \in Requests, NEW s \in Settings, Post(r, s) PROVE IInv'
  <2>1. /\ \A q \in Requests : pc[q] \notin Files
        /\ pc' = [pc EXCEPT ![r] = "dhcpcd"]
        /\ UNCHANGED <<file, matches, network, damaged, cut>>
    BY <1>1 DEF Post, Runs, Files
  <2>2. OneEdits'
    BY <2>1 DEF OneEdits, IInv, TypeOK
  <2>3. ASSUME ~damaged PROVE Rest'
    <3>1. AllAgree /\ Whole /\ Awaited
      BY <2>1, <2>3 DEF IInv, InStep, Editing
    <3>2. InStep'
      BY <2>1, <3>1 DEF InStep, AllAgree, Editing, IInv, TypeOK, Files
    <3>3. Awaited'
      BY <1>1, <2>1, <3>1 DEF Awaited, Post, IInv, TypeOK
    <3>4. QED
      BY <2>1, <3>1, <3>2, <3>3 DEF Whole
  <2>4. QED
    BY <2>1, <2>2, <2>3 DEF IInv
<1>2. ASSUME NEW r \in Requests, NEW f \in Files, NEW next \in Steps, Edit(r, f, next),
             \/ f = "dhcpcd" /\ next = "dnsmasq"
             \/ f = "dnsmasq" /\ next = "hostapd"
             \/ f = "hostapd" /\ next = "restart"
      PROVE IInv'
  <2>1. /\ pc[r] = f /\ UNCHANGED <<network, cut>>
        /\ \A q \in Requests : q # r => pc[q] \notin Files
    BY <1>2 DEF Edit, Runs
  <2>2. PICK to \in {next, "web"} : pc' = [pc EXCEPT ![r] = to]
    BY <1>2 DEF Edit
  <2>3. OneEdits'
    BY <2>1, <2>2 DEF OneEdits, IInv, TypeOK
  <2>4. ASSUME ~damaged' PROVE Rest'
    <3>1. /\ ~damaged /\ matches' = matches
          /\ file' = [file EXCEPT ![f] = Edited(r, f)]
          /\ Goes(r, next)
      BY <1>2, <2>4 DEF Edit
    <3>2. /\ file'[f] = (IF f \in matches THEN form[r] ELSE file[f])
          /\ \A g \in Files : g # f => file'[g] = file[g]
          /\ pc'[r] = next /\ \A q \in Requests : q # r => pc'[q] = pc[q]
          /\ next \in Files => form'[r] = form[r]
      BY <3>1 DEF IInv, TypeOK, Edited
    <3>3. /\ matches \subseteq Files /\ Rest
          /\ form[r] \in Settings /\ \A g \in Files : file[g] # Lost
      BY <3>1 DEF IInv, TypeOK, Whole
    <3>4. Whole'
      BY <3>1, <3>2, <3>3, SettingsAssumption DEF Whole
    <3>5. InStep'
      <4>1. CASE f = "dhcpcd" /\ next = "dnsmasq"
        BY <2>1, <3>1, <3>2, <3>3, <4>1 DEF InStep, AllAgree, Holds, Editing, Whole, Files
      <4>2. CASE f = "dnsmasq" /\ next = "hostapd"
        BY <2>1, <3>1, <3>2, <3>3, <4>2 DEF InStep, AllAgree, Holds, Editing, Files
      <4>3. CASE f = "hostapd" /\ next = "restart"
        BY <2>1, <3>1, <3>2, <3>3, <4>3 DEF InStep, AllAgree, Holds, Editing, Files
      <4>4. QED
        BY <1>2, <4>1, <4>2, <4>3
    <3>6. Awaited'
      <4>1. CASE next = "restart"
        BY <3>2, <4>1 DEF Awaited
      <4>2. CASE next # "restart"
        BY <1>2, <2>1, <3>2, <3>3, <4>2 DEF Awaited, Files
      <4>3. QED
        BY <4>1, <4>2
    <3>7. QED
      BY <3>4, <3>5, <3>6
  <2>5. QED
    BY <2>3, <2>4 DEF IInv
<1>3. ASSUME NEW r \in Requests, RestartHostapd(r) PROVE IInv'
  <2>1. /\ pc[r] = "restart" /\ UNCHANGED <<file, matches>>
        /\ \A q \in Requests : q # r => pc[q] \notin Files
    BY <1>3 DEF RestartHostapd, Runs
  <2>2. PICK to \in {"web", "idle"} : pc' = [pc EXCEPT ![r] = to]
    BY <1>3 DEF RestartHostapd
  <2>3. \A q \in Requests : pc[q] \notin Files /\ pc'[q] \notin Files
    BY <2>1, <2>2 DEF IInv, TypeOK, Files
  <2>4. OneEdits'
    BY <2>3 DEF OneEdits
  <2>5. ASSUME ~damaged' PROVE Rest'
    <3>1. ~damaged /\ (cut' \/ network' = file["hostapd"])
      BY <1>3, <2>5 DEF RestartHostapd
    <3>2. Rest /\ AllAgree
      BY <2>3, <3>1 DEF IInv, InStep, Editing
    <3>3. InStep'
      BY <2>1, <2>3, <3>2 DEF InStep, AllAgree, Files
    <3>4. QED
      BY <2>1, <3>1, <3>2, <3>3 DEF Whole, Awaited
  <2>6. QED
    BY <2>4, <2>5 DEF IInv
<1>4. ASSUME WebStarts \/ WorkerDies \/ PowerFails PROVE IInv'
  <2>1. Killed
    BY <1>4 DEF WebStarts, WorkerDies, PowerFails
  <2>2. \A r \in Requests : pc'[r] = "idle"
    BY <2>1 DEF Killed
  <2>3. OneEdits'
    BY <2>2 DEF OneEdits, Files
  <2>4. ASSUME ~damaged' PROVE Rest'
    <3>1. /\ ~damaged /\ ~Editing /\ UNCHANGED <<file, matches>>
          /\ ~cut' => ~cut /\ \A r \in Requests : pc[r] # "restart"
      BY <2>1, <2>4, Quiet
    <3>2. Rest /\ AllAgree
      BY <3>1 DEF IInv, InStep
    <3>3. InStep' /\ Whole'
      BY <2>2, <3>1, <3>2 DEF InStep, AllAgree, Whole, Files
    <3>4. CASE UNCHANGED network
      BY <3>1, <3>2, <3>3, <3>4 DEF Awaited
    <3>5. CASE PowerFails
      <4>1. network' = file["hostapd"]
        BY <3>1, <3>2, <3>5 DEF PowerFails, Whole, Files
      <4>2. QED
        BY <3>1, <3>3, <4>1 DEF Awaited
    <3>6. QED
      BY <1>4, <3>4, <3>5 DEF WebStarts, WorkerDies
  <2>5. QED
    BY <2>3, <2>4 DEF IInv
<1>5. ASSUME NEW r \in Requests, restart_web_service(r), Goes(r, "idle") PROVE IInv'
  <2>1. /\ pc[r] = "web" /\ UNCHANGED <<file, matches, network, damaged, cut>>
        /\ \A q \in Requests : pc[q] \notin Files /\ pc'[q] \notin Files
    BY <1>5 DEF restart_web_service, Runs, IInv, TypeOK, Files
  <2>2. ASSUME ~damaged' PROVE Rest'
    <3>1. Rest /\ AllAgree
      BY <2>1, <2>2 DEF IInv, InStep, Editing
    <3>2. InStep'
      BY <2>1, <3>1 DEF InStep, AllAgree, Files
    <3>3. Awaited'
      BY <1>5, <2>1, <3>1 DEF Awaited, IInv, TypeOK
    <3>4. QED
      BY <2>1, <3>1, <3>2, <3>3 DEF Whole
  <2>3. QED
    BY <2>1, <2>2 DEF IInv, OneEdits
<1>6. ASSUME UNCHANGED <<file, matches, network, pc, form, damaged, cut>> PROVE IInv'
  BY <1>6 DEF IInv, OneEdits, InStep, AllAgree, Holds, Editing, Whole, Awaited
<1>7. QED
  BY <1>1, <1>2, <1>3, <1>4, <1>5, <1>6
     DEF Next, Step, update_dhcpcd_config, update_dnsmasq_config, update_hostapd_config,
         restart_web_service, vars, Files, Steps

\* So it holds in every reachable state.
LEMMA Inductive == Spec => []IInv
BY InitIInv, NextIInv, TypeInvariant, PTL DEF Spec

(***************************************************************************)
(* Without an error or a crash among its files, the files that have their  *)
(* lines agree between two requests, however many there are.               *)
(***************************************************************************)
THEOREM SavedTogether == Spec => []FilesAgree
<1>1. IInv => FilesAgree
  BY DEF IInv, InStep, AllAgree, FilesAgree
<1>2. QED
  BY <1>1, Inductive, PTL

(***************************************************************************)
(* hostapd runs with its file once no request is under way.                *)
(***************************************************************************)
THEOREM NetworkCurrent == Spec => []NetworkRuns
<1>1. IInv => NetworkRuns
  BY DEF IInv, Awaited, NetworkRuns
<1>2. QED
  BY <1>1, Inductive, PTL

-----------------------------------------------------------------------------
(***************************************************************************)
(* The form offers what its readers find in the files when no request is   *)
(* under way: a request that ends with its worker is followed by the       *)
(* import of the form, and skipped notes one that ends without.            *)
(***************************************************************************)
THEOREM FormFollows == Spec => []FormCurrent
<1>1. Init => FormCurrent
  BY SettingsAssumption DEF Init, FormCurrent, FilesSay
<1>2. TypeOK /\ FormCurrent /\ [Next]_vars => FormCurrent'
  <2> SUFFICES ASSUME TypeOK, FormCurrent, [Next]_vars,
                      \A r \in Requests : pc'[r] = "idle", ~skipped'
               PROVE offered' = FilesSay'
    BY DEF FormCurrent
  <2>1. ASSUME NEW r \in Requests, NEW to \in Steps, pc' = [pc EXCEPT ![r] = to] PROVE FALSE
    BY <2>1 DEF TypeOK, Steps, Files
  <2>2. CASE \E r \in Requests : \/ RestartHostapd(r) \/ \E s \in Settings : Post(r, s)
                               \/ \E f \in Files, next \in Steps : Edit(r, f, next)
    BY <2>1, <2>2 DEF RestartHostapd, Post, Edit, Steps, Files
  <2>3. CASE WebStarts \/ WorkerDies \/ PowerFails
    BY <2>3 DEF WebStarts, WorkerDies, PowerFails, ImportForms
  <2>4. CASE UNCHANGED <<file, offered, pc, skipped>>
    BY <2>4 DEF FormCurrent, FilesSay
  <2>5. QED
    BY <2>2, <2>3, <2>4
       DEF Next, Step, update_dhcpcd_config, update_dnsmasq_config, update_hostapd_config,
           restart_web_service, vars, Files, Steps
<1>3. QED
  BY <1>1, <1>2, TypeInvariant, PTL DEF Spec
=============================================================================
