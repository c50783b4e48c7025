------------------------------- MODULE Entries -------------------------------
(***************************************************************************)
(* The table entries page (entries in dashboard/views.py) and the control  *)
(* plane it talks to (dummy_ctrl_plane_connection.py), over a TCP          *)
(* connection without framing: each side sends pickles, and reads each     *)
(* with one recv(1024).                                                    *)
(*                                                                         *)
(* A message on its way is what was pickled, how many units are to be read *)
(* up to its end, and whether none of its own was.  pickle.loads decodes   *)
(* the pickle at the front of what recv returned and ignores the rest.     *)
(***************************************************************************)
EXTENDS SequencesExt, Integers

CONSTANTS
  Pages,       \* GETs of the page the worker handles at the same time
  Tables,      \* the names of the tables of the server, in order
  Initial,     \* the list each table starts with
  Ids,         \* what tells entries apart, besides the mask
  Room,        \* the units one recv returns
  Units,       \* the units of a pickled list, by its length
  MaxEntries   \* bound of the model: entries in a table

Names == ToSet(Tables)

\* An entry may lack a mask, as those the exact table starts with do.
Entry == [id : Ids, masked : BOOLEAN]

ASSUME PagesAssumption == Pages # {} /\ Tables \in Seq(Names)
ASSUME UnitsAssumption ==
  /\ MaxEntries \in Nat
  /\ Units \in [0 .. MaxEntries -> Nat \ {0}] /\ Room \in Nat \ {0}
ASSUME InitialAssumption == Initial \in [Names -> BoundedSeq(Entry, MaxEntries)]

VARIABLES
  server,      \* what it does, for which page, and the pickle it sends next
  entries,     \* the lists of the server
  backlog,     \* requests on connections not yet accepted, in order
  page,        \* where each page is, what it asked, the pickles it has, and the
               \* lists when the server had handled its request
  conn,        \* the page's end of its connection
  stream,      \* what was sent to the page and not read
  ended,       \* the server's end of the connection is closed
  broken       \* a page was ill-formed or ended without the lists, since the start

vars == <<server, entries, backlog, page, conn, stream, ended, broken>>
plane == <<server, entries, backlog>>

Edits == [mode : {"add", "delete"}, name : Names, id : Ids]
Requests == [mode : {"query", "incomplete", "long"}] \cup Edits

TypeOK ==
  /\ server \in [at : {"accepting", "replying", "dead"}, to : Pages, next : 0 .. Len(Tables)]
  /\ DOMAIN entries = Names
  /\ \A t \in Names : entries[t] \in BoundedSeq(Entry, MaxEntries)
  /\ \A i \in DOMAIN backlog : backlog[i] \in [from : Pages, asks : Requests]
  /\ \A p \in Pages :
       /\ page[p].at \in {"none", "reading", "shown"}
       /\ page[p].asks \in Requests
       /\ Len(page[p].has) <= Len(Tables) + 1
       /\ Len(stream[p]) <= Len(Tables) + 1
       /\ DOMAIN page[p].reply = Names
  /\ conn \in [Pages -> {"open", "closed", "reset"}]
  /\ ended \in [Pages -> BOOLEAN]
  /\ broken \in BOOLEAN

\* Not loaded yet, or an error of Django.
NoPage == [at |-> "none", asks |-> [mode |-> "query"], has |-> <<>>, reply |-> Initial]

Init ==
  /\ server = [at |-> "accepting", to |-> CHOOSE p \in Pages : TRUE, next |-> 0]
  /\ entries = Initial
  /\ backlog = <<>>
  /\ page = [p \in Pages |-> NoPage]
  /\ conn = [p \in Pages |-> "closed"]
  /\ stream = [p \in Pages |-> <<>>]
  /\ ended = [p \in Pages |-> TRUE]
  /\ broken = FALSE

-----------------------------------------------------------------------------
\* recv: as many units as there are, up to Room; the rest stays.
Returned(s) ==
  CHOOSE k \in 0 .. Len(s) : /\ \A j \in 1 .. k : s[j].upto <= Room
                             /\ k < Len(s) => s[k + 1].upto > Room
AfterRecv(s) ==
  LET k == Returned(s)
      uncut(j) == j > 1 \/ (k > 0 /\ s[k].upto = Room)
  IN  [j \in 1 .. Len(s) - k |->
         [s[k + j] EXCEPT !.upto = @ - Room, !.whole = @ /\ uncut(j)]]

\* pickle.loads of what recv returns.
Loads(s) == s # <<>> /\ Head(s).upto <= Room /\ Head(s).whole

\* The page's socket is closed: with data unread, the connection is reset.
Left(unread) == IF unread = <<>> THEN "closed" ELSE "reset"

-----------------------------------------------------------------------------
\* The request of the page.  The server, if it runs, has the connection in its
\* backlog.  A field that is missing is an error after the connection.
Get(p, r) ==
  /\ page[p].at # "reading"
  /\ \A i \in DOMAIN backlog : backlog[i].from # p
  /\ ~(server.at = "replying" /\ server.to = p)
  /\ LET refused == server.at = "dead"
         fails == refused \/ r.mode = "incomplete"
     IN  /\ page' = [page EXCEPT ![p] =
              IF fails THEN NoPage ELSE [NoPage EXCEPT !.at = "reading", !.asks = r]]
         /\ conn' = [conn EXCEPT ![p] = IF fails THEN "closed" ELSE "open"]
         /\ ended' = [ended EXCEPT ![p] = refused]
         /\ backlog' = IF refused THEN backlog ELSE Append(backlog, [from |-> p, asks |-> r])
  /\ broken' = (broken \/ r.mode \in {"incomplete", "long"})
  /\ UNCHANGED <<server, entries, stream>>

Fails(p, unread) ==
  /\ page' = [page EXCEPT ![p] = NoPage]
  /\ conn' = [conn EXCEPT ![p] = Left(unread)]
  /\ stream' = [stream EXCEPT ![p] = <<>>]
  /\ broken' = TRUE

\* One pickle.loads(sock.recv(1024)) of the page.
Recv(p) ==
  /\ page[p].at = "reading"
  /\ stream[p] # <<>> \/ ended[p]
  /\ LET unread == IF stream[p] = <<>> THEN <<>> ELSE AfterRecv(stream[p])
         has == Append(page[p].has, Head(stream[p]).body)
         done == Len(has) = Len(Tables) + 1
     IN  IF ~Loads(stream[p]) THEN Fails(p, unread)
         ELSE /\ page' = [page EXCEPT ![p].has = has,
                                      ![p].at = IF done THEN "shown" ELSE @]
              /\ conn' = [conn EXCEPT ![p] = IF done THEN Left(unread) ELSE @]
              /\ stream' = [stream EXCEPT ![p] = unread]
              /\ UNCHANGED broken
  /\ UNCHANGED <<plane, ended>>

\* The worker ends: restart_web_service, or gunicorn's time limit.
WorkerEnds ==
  /\ \E p \in Pages : page[p].at = "reading"
  /\ page' = [p \in Pages |-> IF page[p].at = "reading"
                              THEN NoPage ELSE page[p]]
  /\ conn' = [p \in Pages |-> IF conn[p] = "open" THEN Left(stream[p]) ELSE conn[p]]
  /\ stream' = [p \in Pages |-> <<>>]
  /\ broken' = TRUE
  /\ UNCHANGED <<plane, ended>>

-----------------------------------------------------------------------------
\* An exception nothing catches ends the server; the kernel closes what it had.
Dies ==
  /\ server' = [server EXCEPT !.at = "dead"]
  /\ backlog' = <<>>
  /\ ended' = [p \in Pages |-> TRUE]

\* Mutant: entries compared without their masks.
RemovedById(list, id) == RemoveFirstMatch(list, LAMBDA e : e.id = id)

\* entries[i].remove: the first equal entry; an entry of the page has a mask.
Removed(list, id) == RemoveFirst(list, [id |-> id, masked |-> TRUE])

Edited(r) ==
  CASE r.mode = "add"    -> [entries EXCEPT ![r.name] = Append(@, [id |-> r.id, masked |-> TRUE])]
    [] r.mode = "delete" -> [entries EXCEPT ![r.name] = Removed(@, r.id)]
    [] OTHER             -> entries

\* Mutant: no try around the remove.
HandleStrictly ==
  /\ server.at = "accepting" /\ backlog # <<>>
  /\ LET p == Head(backlog).from
         r == Head(backlog).asks
     IN  IF r.mode \in {"incomplete", "long"} \/ (r.mode = "delete" /\ Edited(r) = entries)
         THEN Dies /\ UNCHANGED <<entries, page>>
         ELSE /\ server' = [at |-> "replying", to |-> p, next |-> 0]
              /\ entries' = Edited(r)
              /\ page' = [page EXCEPT ![p].reply = IF page[p].at = "reading" THEN entries' ELSE @]
              /\ backlog' = Tail(backlog)
              /\ UNCHANGED ended
  /\ UNCHANGED <<conn, stream, broken>>

\* Mutant: a request that is no pickle is left alone, and its connection open.
HandleSkipping ==
  /\ server.at = "accepting" /\ backlog # <<>>
  /\ LET p == Head(backlog).from
         r == Head(backlog).asks
     IN  /\ backlog' = Tail(backlog)
         /\ IF r.mode \in {"incomplete", "long"} THEN UNCHANGED <<server, entries, page>>
            ELSE /\ server' = [at |-> "replying", to |-> p, next |-> 0]
                 /\ entries' = Edited(r)
                 /\ page' = [page EXCEPT ![p].reply = IF page[p].at = "reading" THEN entries' ELSE @]
  /\ UNCHANGED <<conn, stream, ended, broken>>

\* accept, and the request, which must be a pickle of at most 1024 bytes.
Handle ==
  /\ server.at = "accepting" /\ backlog # <<>>
  /\ LET p == Head(backlog).from
         r == Head(backlog).asks
     IN  IF r.mode \in {"incomplete", "long"} THEN Dies /\ UNCHANGED <<entries, page>>
         ELSE /\ server' = [at |-> "replying", to |-> p, next |-> 0]
              /\ entries' = Edited(r)
              /\ page' = [page EXCEPT ![p].reply = IF page[p].at = "reading" THEN entries' ELSE @]
              /\ backlog' = Tail(backlog)
              /\ UNCHANGED ended
  /\ UNCHANGED <<conn, stream, broken>>

\* Mutant: the lists are sent in another order than their names.
PickleBackwards(i) ==
  LET table == Tables[Len(Tables) + 1 - i]
  IN  IF i = 0 THEN [body |-> Tables, upto |-> 1, whole |-> TRUE]
      ELSE [body |-> entries[table], upto |-> Units[Len(entries[table])], whole |-> TRUE]

\* The pickle the server sends next: the tables, then each list as it is now.
Pickle(i) ==
  IF i = 0 THEN [body |-> Tables, upto |-> 1, whole |-> TRUE]
  ELSE [body |-> entries[Tables[i]], upto |-> Units[Len(entries[Tables[i]])], whole |-> TRUE]

\* It goes behind what is on its way.
Behind(s, m) ==
  Append(s, IF s = <<>> THEN m ELSE [m EXCEPT !.upto = @ + s[Len(s)].upto])

\* A send to a page that has left: the first is answered by a reset, which the
\* next one, 50 ms later, raises.
Send ==
  /\ server.at = "replying"
  /\ LET p == server.to
         last == server.next = Len(Tables)
     IN  IF conn[p] = "reset" THEN Dies /\ UNCHANGED <<conn, stream>>
         ELSE /\ stream' = IF conn[p] = "open"
                           THEN [stream EXCEPT ![p] = Behind(@, Pickle(server.next))] ELSE stream
              /\ conn' = [conn EXCEPT ![p] = IF @ = "open" THEN @ ELSE IF last THEN "closed" ELSE "reset"]
              /\ server' = IF last THEN [server EXCEPT !.at = "accepting", !.next = 0]
                                   ELSE [server EXCEPT !.next = @ + 1]
              /\ ended' = [ended EXCEPT ![p] = last]
              /\ UNCHANGED backlog
  /\ UNCHANGED <<entries, page, broken>>

\* Nothing restarts the server but an operator or a reboot: the lists are lost.
StartServer ==
  /\ server.at = "dead"
  /\ server' = [server EXCEPT !.at = "accepting", !.next = 0]
  /\ entries' = Initial
  /\ broken' = FALSE
  /\ UNCHANGED <<backlog, page, conn, stream, ended>>

\* MaxEntries: no page adds to a table that the pages under way could fill.
WithinBound(r) ==
  r.mode = "add" => \A t \in Names : Len(entries[t]) + Len(backlog) < MaxEntries

Next ==
  \/ \E p \in Pages : Recv(p) \/ \E r \in Requests : WithinBound(r) /\ Get(p, r)
  \/ WorkerEnds \/ Handle \/ Send \/ StartServer

Spec == Init /\ [][Next]_vars

(***************************************************************************)
(* The worker resumes a page whose socket is readable, and the server runs *)
(* while it lives.  Nobody owes a request or a new start of the server.    *)
(***************************************************************************)
FairSpec ==
  Spec /\ WF_vars(Handle) /\ WF_vars(Send) /\ \A p \in Pages : WF_vars(Recv(p))

-----------------------------------------------------------------------------
(***************************************************************************)
(* However late a page reads and however long the lists are: a page that   *)
(* is shown has the tables and the list of each, as the server had them    *)
(* when it had done what the page asked.  Pickles that run together or are *)
(* cut make the page fail; they never put a list under another table.      *)
(***************************************************************************)
ShownAsServed ==
  /\ TypeOK
  /\ \A p \in Pages : page[p].at = "shown" =>
       /\ page[p].has = <<Tables>> \o [i \in 1 .. Len(Tables) |-> page[p].reply[Tables[i]]]
       /\ page[p].asks.mode = "add" =>
            Contains(page[p].reply[page[p].asks.name], [id |-> page[p].asks.id, masked |-> TRUE])

(***************************************************************************)
(* The server outlives every well-formed request whose page is shown: it   *)
(* dies only after a page failed under it, was cut off, or sent a request  *)
(* that is no pickle or a longer one than recv(1024) returns.              *)
(***************************************************************************)
UpWhileShown == server.at = "dead" => broken

\* The places of the entries without a mask.
Maskless(list) == {i \in DOMAIN list : ~list[i].masked}

(***************************************************************************)
(* No request removes an entry that was written without a mask, though the *)
(* page has a button for it and is shown as if it had worked: those of the *)
(* start are there, in their order, and no others.                         *)
(***************************************************************************)
MasklessStay ==
  \A t \in Names :
    \E at \in Bijection(Maskless(Initial[t]), Maskless(entries[t])) :
      \A i, j \in Maskless(Initial[t]) :
        /\ entries[t][at[i]] = Initial[t][i]
        /\ i < j => at[i] < at[j]

(***************************************************************************)
(* No page waits for ever: not behind another in the backlog, not after a  *)
(* list was lost on the way, not for a server that has died.               *)
(***************************************************************************)
PageEnds == \A p \in Pages : page[p].at = "reading" ~> page[p].at # "reading"

=============================================================================
