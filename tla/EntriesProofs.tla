---------------------------- MODULE EntriesProofs ----------------------------
(***************************************************************************)
(* The table entries page shows the lists as the server had them, for any  *)
(* number of pages, tables and entries, any sizes of the pickles, and any  *)
(* way recv cuts or joins them.                                            *)
(***************************************************************************)
EXTENDS Entries, SequenceTheorems, WellFoundedInduction, TLAPS

Bodies == {Tables} \cup Seq(Entry)
Messages == [body : Bodies, upto : Int, whole : BOOLEAN]
PageStates == [at : {"none", "reading", "shown"}, asks : Requests,
               has : Seq(Bodies), reply : [Names -> Seq(Entry)]]

Typed ==
  /\ server \in [at : {"accepting", "replying", "dead"}, to : Pages, next : 0 .. Len(Tables)]
  /\ entries \in [Names -> Seq(Entry)]
  /\ \A t \in Names : Len(entries[t]) <= MaxEntries
  /\ backlog \in Seq([from : Pages, asks : Requests])
  /\ page \in [Pages -> PageStates]
  /\ conn \in [Pages -> {"open", "closed", "reset"}]
  /\ stream \in [Pages -> Seq(Messages)]
  /\ ended \in [Pages -> BOOLEAN]
  /\ broken \in BOOLEAN

\* A request of the page waits in the backlog, or the server is at it.
Waiting(p) == \E j \in 1 .. Len(backlog) : backlog[j].from = p
Serving(p) == server.at = "replying" /\ server.to = p

\* The j-th request is that of its page, and what it adds fits.
Pending(j) ==
  LET b == backlog[j]
  IN  /\ ~Serving(b.from)
      /\ page[b.from].at = "reading" => page[b.from].asks = b.asks
      /\ b.asks.mode = "add" => \A t \in Names : Len(entries[t]) + j <= MaxEntries

\* One request of a page at a time, and none left when the server is dead.
BacklogInv ==
  /\ server.at = "dead" => backlog = <<>>
  /\ \A i, j \in 1 .. Len(backlog) : backlog[i].from = backlog[j].from => i = j
  /\ \A j \in 1 .. Len(backlog) : Pending(j)

\* The connections and the requests that can end the server have broken a page.
BrokenInv ==
  /\ server.at = "dead" => broken
  /\ \A j \in 1 .. Len(backlog) :
       backlog[j].asks.mode \in {"incomplete", "long"} \/ conn[backlog[j].from] # "open" => broken
  /\ \A p \in Pages : Serving(p) /\ conn[p] # "open" => broken

\* The pickles sent to the page at most, and those it has or may still read.
Sent(p) == IF Waiting(p) THEN 0 ELSE IF Serving(p) THEN server.next ELSE Len(Tables) + 1
Held(p) == Len(page[p].has) + Len(stream[p])

\* The k-th pickle of a page, and an add that the lists of its server show.
Pickled(p, k) == IF k = 1 THEN Tables ELSE page[p].reply[Tables[k - 1]]
Matches(p) ==
  /\ \A k \in 1 .. Len(page[p].has) : page[p].has[k] = Pickled(p, k)
  /\ \A k \in 1 .. Len(stream[p]) : stream[p][k].body = Pickled(p, Len(page[p].has) + k)
AddSeen(p) ==
  page[p].asks.mode = "add" =>
    Contains(page[p].reply[page[p].asks.name], [id |-> page[p].asks.id, masked |-> TRUE])

(***************************************************************************)
(* A page that has lost a pickle stays behind: it never has them all.  One *)
(* that has lost none has the first ones and reads the next in order.      *)
(***************************************************************************)
PageInv(p) ==
  /\ page[p].at = "reading" <=> conn[p] = "open"
  /\ page[p].at # "reading" => stream[p] = <<>>
  /\ page[p].at = "none" => page[p].has = <<>>
  /\ page[p].at = "reading" =>
       /\ Held(p) <= Sent(p)
       /\ Held(p) = Sent(p) /\ ~Waiting(p) => Matches(p) /\ AddSeen(p)
       /\ Serving(p) => page[p].reply = entries
       /\ Len(page[p].has) <= Len(Tables)
  /\ page[p].at = "shown" =>
       /\ Len(page[p].has) = Len(Tables) + 1
       /\ Matches(p)
       /\ AddSeen(p)

PagesInv == \A p \in Pages : PageInv(p)
EntriesInv == Typed /\ BacklogInv /\ PagesInv

-----------------------------------------------------------------------------
\* A number is found in every non-empty set of numbers that no other is below.
LEMMA Least ==
  ASSUME NEW S, S \subseteq Nat, S # {} PROVE \E n \in S : \A m \in S : n <= m
<1> DEFINE Below == {ss \in Nat \X Nat : ss[1] < ss[2]}
<1>1. IsWellFoundedOn(Below, Nat)
  BY NatLessThanWellFounded DEF OpToRel
<1> HIDE DEF Below
<1>2. PICK n \in S : \A m \in S : ~(<<m, n>> \in Below)
  BY <1>1, WFMin
<1>3. \A m \in S : ~(m < n)
  BY <1>2 DEF Below
<1> QED BY <1>3

\* A list with a bound is a list.
LEMMA Bounded ==
  ASSUME NEW S, NEW n \in Nat, NEW s
  PROVE  s \in BoundedSeq(S, n) <=> s \in Seq(S) /\ Len(s) <= n
<1>1. ASSUME s \in BoundedSeq(S, n) PROVE s \in Seq(S) /\ Len(s) <= n
  <2>1. PICK m \in 0 .. n : s \in [1 .. m -> S]
    BY <1>1 DEF BoundedSeq, SeqOf
  <2>2. s \in Seq(S) /\ Len(s) = m
    BY <2>1
  <2> QED BY <2>1, <2>2
<1>2. ASSUME s \in Seq(S), Len(s) <= n PROVE s \in BoundedSeq(S, n)
  <2>1. Len(s) \in 0 .. n /\ s \in [1 .. Len(s) -> S]
    BY <1>2
  <2> QED BY <2>1 DEF BoundedSeq, SeqOf
<1> QED BY <1>1, <1>2

\* A request that edits names a table; the others do not edit.
LEMMA RequestParts ==
  ASSUME NEW r \in Requests
  PROVE  /\ r.mode \in {"query", "incomplete", "long", "add", "delete"}
         /\ r.mode \in {"add", "delete"} => r.name \in Names /\ r.id \in Ids
BY DEF Requests, Edits

\* Where recv stops.
LEMMA RecvStops ==
  ASSUME NEW s \in Seq(Messages), NEW k, k = Returned(s)
  PROVE  /\ k \in 0 .. Len(s)
         /\ \A j \in 1 .. k : s[j].upto <= Room
         /\ k < Len(s) => s[k + 1].upto > Room
<1> DEFINE Stops(m) == /\ \A j \in 1 .. m : s[j].upto <= Room
                       /\ m < Len(s) => s[m + 1].upto > Room
           S == {m \in 0 .. Len(s) : m = Len(s) \/ s[m + 1].upto > Room}
<1>1. Len(s) \in Nat /\ Room \in Nat /\ \A j \in 1 .. Len(s) : s[j].upto \in Int
  BY UnitsAssumption DEF Messages
<1>2. S \subseteq Nat /\ Len(s) \in S
  BY <1>1
<1>3. PICK n \in S : \A m \in S : n <= m
  BY <1>2, Least
<1>4. ASSUME NEW j \in 1 .. n PROVE s[j].upto <= Room
  <2>1. j - 1 \in 0 .. Len(s) /\ j - 1 < n /\ j \in 1 .. Len(s)
    BY <1>1, <1>3, <1>4
  <2>2. j - 1 \notin S
    <3>1. j - 1 \in S => n <= j - 1
      BY <1>3
    <3>2. n \in Nat /\ j - 1 \in Nat
      BY <1>2, <1>3, <2>1
    <3> QED BY <2>1, <3>1, <3>2
  <2>3. (j - 1) + 1 = j
    BY <2>1
  <2> QED BY <1>1, <2>1, <2>2, <2>3
<1>5. n \in 0 .. Len(s) /\ Stops(n)
  BY <1>1, <1>3, <1>4
<1>6. k = CHOOSE m \in 0 .. Len(s) : Stops(m)
  BY DEF Returned
<1> HIDE DEF Stops
<1>7. k \in 0 .. Len(s) /\ Stops(k)
  BY <1>5, <1>6
<1> QED BY <1>7 DEF Stops

(***************************************************************************)
(* A recv that loads a pickle takes at least that one from the connection; *)
(* if it takes no more, what is left are the others, in their order.       *)
(***************************************************************************)
LEMMA RecvTakes ==
  ASSUME NEW s \in Seq(Messages), Loads(s), NEW r, r = AfterRecv(s)
  PROVE  /\ r \in Seq(Messages)
         /\ Len(r) < Len(s)
         /\ Len(r) + 1 = Len(s) => \A j \in 1 .. Len(r) : r[j].body = s[j + 1].body
<1>1. PICK k : k = Returned(s)
  OBVIOUS
<1>2. /\ k \in 0 .. Len(s)
      /\ k < Len(s) => s[k + 1].upto > Room
  BY <1>1, RecvStops
<1>3. /\ Len(s) \in Nat \ {0}
      /\ \A j \in 1 .. Len(s) : s[j] \in Messages /\ s[j].upto \in Int
      /\ Room \in Nat
  <2>1. s # <<>>
    BY DEF Loads
  <2>2. Len(s) \in Nat \ {0} /\ \A j \in 1 .. Len(s) : s[j] \in Messages
    BY <2>1
  <2>3. \A m \in Messages : m.upto \in Int
    BY DEF Messages
  <2> QED BY <2>2, <2>3, UnitsAssumption
<1>4. k # 0
  <2>1. s[1].upto <= Room /\ s[1].upto \in Int
    BY <1>3 DEF Loads
  <2> QED BY <1>2, <1>3, <2>1
<1>5. PICK n : n = Len(s) - k
  OBVIOUS
<1>6. n \in Nat /\ n < Len(s) /\ \A j \in 1 .. n : k + j \in 1 .. Len(s)
  BY <1>2, <1>3, <1>4, <1>5
<1> DEFINE uncut(j) == j > 1 \/ (k > 0 /\ s[k].upto = Room)
           e(j) == [s[k + j] EXCEPT !.upto = @ - Room, !.whole = @ /\ uncut(j)]
<1>7. r = [j \in 1 .. n |-> e(j)]
  BY <1>1, <1>5 DEF AfterRecv
<1>8. ASSUME NEW j \in 1 .. n
      PROVE  e(j) \in Messages /\ e(j).body = s[k + j].body
  <2>1. PICK m \in Messages : m = s[k + j]
    BY <1>3, <1>6
  <2>2. m.upto - Room \in Int
    BY <1>3, <2>1 DEF Messages
  <2>3. (m.whole /\ uncut(j)) \in BOOLEAN
    OBVIOUS
  <2>4. e(j) = [m EXCEPT !.upto = m.upto - Room, !.whole = m.whole /\ uncut(j)]
    BY <2>1
  <2> HIDE DEF e, uncut
  <2> QED BY <2>1, <2>2, <2>3, <2>4 DEF Messages
<1> HIDE DEF e
<1>9. r \in [1 .. n -> Messages] /\ \A j \in 1 .. n : r[j].body = s[k + j].body
  BY <1>7, <1>8
<1>10. r \in Seq(Messages) /\ Len(r) = n
  BY <1>6, <1>9
<1>11. n + 1 = Len(s) => k = 1
  BY <1>2, <1>3, <1>5
<1>12. ASSUME n + 1 = Len(s), NEW j \in 1 .. n PROVE r[j].body = s[j + 1].body
  <2>1. k + j = j + 1
    BY <1>11, <1>12
  <2> QED BY <1>9, <2>1
<1> QED BY <1>6, <1>10, <1>12

-----------------------------------------------------------------------------
\* The lists the server starts with, and a page before its request.
LEMMA StartTyped ==
  /\ Initial \in [Names -> Seq(Entry)]
  /\ \A t \in Names : Len(Initial[t]) <= MaxEntries
  /\ NoPage \in PageStates
  /\ NoPage.at = "none" /\ NoPage.has = <<>>
<1>1. Initial \in [Names -> BoundedSeq(Entry, MaxEntries)] /\ MaxEntries \in Nat
  BY InitialAssumption, UnitsAssumption
<1>2. \A t \in Names : Initial[t] \in Seq(Entry) /\ Len(Initial[t]) <= MaxEntries
  BY <1>1, Bounded
<1>3. Initial \in [Names -> Seq(Entry)]
  BY <1>1, <1>2
<1>4. [mode |-> "query"] \in Requests
  BY DEF Requests
<1>5. <<>> \in Seq(Bodies)
  OBVIOUS
<1> QED BY <1>2, <1>3, <1>4, <1>5 DEF NoPage, PageStates

\* What the types say of one page.
LEMMA PageTyped ==
  ASSUME Typed, NEW p \in Pages
  PROVE  /\ page[p] \in PageStates
         /\ page[p].at \in {"none", "reading", "shown"}
         /\ page[p].asks \in Requests
         /\ page[p].has \in Seq(Bodies) /\ Len(page[p].has) \in Nat
         /\ page[p].reply \in [Names -> Seq(Entry)]
         /\ stream[p] \in Seq(Messages) /\ Len(stream[p]) \in Nat
         /\ server.next \in 0 .. Len(Tables) /\ Len(Tables) \in Nat
         /\ Sent(p) \in 0 .. Len(Tables) + 1
<1>1. page[p] \in PageStates /\ stream[p] \in Seq(Messages)
  BY DEF Typed
<1>2. page[p].has \in Seq(Bodies)
  BY <1>1 DEF PageStates
<1>3. server.next \in 0 .. Len(Tables) /\ Len(Tables) \in Nat
  <2>1. Len(Tables) \in Nat
    BY PagesAssumption
  <2> QED BY <2>1 DEF Typed
<1>4. Sent(p) \in 0 .. Len(Tables) + 1
  BY <1>3 DEF Sent
<1> QED BY <1>1, <1>2, <1>3, <1>4 DEF PageStates

(***************************************************************************)
(* A delete takes the first entry that is equal to the one it names, which *)
(* has a mask, and none if there is none.                                  *)
(***************************************************************************)
LEMMA RemovedOne ==
  ASSUME NEW list \in Seq(Entry), NEW id, NEW r, r = Removed(list, id)
  PROVE  /\ r \in Seq(Entry) /\ Len(r) <= Len(list)
         /\ \/ r = list
            \/ \E k \in 1 .. Len(list) :
                 /\ list[k].masked
                 /\ Len(r) = Len(list) - 1
                 /\ \A j \in 1 .. k - 1 : r[j] = list[j]
                 /\ \A j \in k .. Len(r) : r[j] = list[j + 1]
<1>1. PICK e : e = [id |-> id, masked |-> TRUE]
  OBVIOUS
<1>2. r = RemoveFirst(list, e)
  BY <1>1 DEF Removed
<1>3. Len(list) \in Nat
  OBVIOUS
<1>4. CASE \E j \in 1 .. Len(list) : list[j] = e
  <2> DEFINE S == {j \in 1 .. Len(list) : list[j] = e}
  <2>1. PICK k : k = Min(S)
    OBVIOUS
  <2>2. r = SubSeq(list, 1, k - 1) \o SubSeq(list, k + 1, Len(list))
    BY <1>2, <1>4, <2>1 DEF RemoveFirst, RemoveAt, SelectInSeq
  <2>3. k \in S
    <3>1. S \subseteq Nat /\ S # {}
      BY <1>3, <1>4
    <3>2. \E n \in S : \A m \in S : n <= m
      BY <3>1, Least
    <3> HIDE DEF S
    <3> QED BY <2>1, <3>2 DEF Min
  <2>4. k \in 1 .. Len(list) /\ list[k] = e
    BY <2>3
  <2> HIDE DEF S
  <2>5. PICK a, b : a = SubSeq(list, 1, k - 1) /\ b = SubSeq(list, k + 1, Len(list))
    OBVIOUS
  <2>6. /\ a \in Seq(Entry) /\ Len(a) = k - 1 /\ \A j \in 1 .. k - 1 : a[j] = list[j]
        /\ b \in Seq(Entry) /\ Len(b) = Len(list) - k
        /\ \A j \in 1 .. Len(list) - k : b[j] = list[k + j]
    BY <1>3, <2>4, <2>5
  <2>7. /\ r \in Seq(Entry) /\ Len(r) = Len(list) - 1
        /\ \A j \in 1 .. k - 1 : r[j] = list[j]
        /\ \A j \in k .. Len(r) : r[j] = b[j - (k - 1)]
    <3>1. r = a \o b
      BY <2>2, <2>5
    <3>2. /\ r \in Seq(Entry) /\ Len(r) = Len(a) + Len(b)
          /\ \A j \in 1 .. Len(a) : r[j] = a[j]
          /\ \A j \in Len(a) + 1 .. Len(a) + Len(b) : r[j] = b[j - Len(a)]
      <4>1. a \in Seq(Entry) /\ b \in Seq(Entry)
        BY <2>6
      <4>2. /\ r \in Seq(Entry) /\ Len(r) = Len(a) + Len(b)
            /\ \A j \in 1 .. Len(a) + Len(b) : r[j] = IF j <= Len(a) THEN a[j] ELSE b[j - Len(a)]
        BY <3>1, <4>1, ConcatProperties
      <4>3. Len(a) \in Nat /\ Len(b) \in Nat
        BY <4>1
      <4> QED BY <4>2, <4>3
    <3>3. Len(a) + Len(b) = Len(list) - 1 /\ Len(a) + 1 = k
      BY <1>3, <2>4, <2>6
    <3> QED BY <2>6, <3>2, <3>3
  <2>8. ASSUME NEW j \in k .. Len(r) PROVE r[j] = list[j + 1]
    <3>1. j - (k - 1) \in 1 .. Len(list) - k /\ k + (j - (k - 1)) = j + 1
      BY <1>3, <2>4, <2>7
    <3> QED BY <2>6, <2>7, <3>1
  <2>9. list[k].masked
    BY <1>1, <2>4
  <2> QED BY <1>3, <2>4, <2>7, <2>8, <2>9
<1>5. CASE ~\E j \in 1 .. Len(list) : list[j] = e
  BY <1>2, <1>3, <1>5 DEF RemoveFirst
<1> QED BY <1>4, <1>5

\* What a request does to the lists.
LEMMA EditedLists ==
  ASSUME Typed, NEW r \in Requests, NEW t \in Names
  PROVE  LET old == entries[t]
             new == Edited(r)[t]
         IN  /\ DOMAIN Edited(r) = Names
             /\ new \in Seq(Entry)
             /\ \/ new = old
                \/ r.mode = "add" /\ new = Append(old, [id |-> r.id, masked |-> TRUE])
                \/ new = Removed(old, r.id)
             /\ r.mode = "add" /\ t = r.name => Contains(new, [id |-> r.id, masked |-> TRUE])
<1>1. entries \in [Names -> Seq(Entry)]
  BY DEF Typed
<1>2. CASE r.mode = "add"
  <2>1. PICK e : e = [id |-> r.id, masked |-> TRUE]
    OBVIOUS
  <2>2. r.name \in Names /\ e \in Entry
    BY <1>2, <2>1, RequestParts DEF Entry
  <2>3. Edited(r) = [entries EXCEPT ![r.name] = Append(@, e)]
    BY <1>2, <2>1 DEF Edited
  <2>4. CASE t = r.name
    <3>1. PICK old : old = entries[t]
      OBVIOUS
    <3>2. Edited(r)[t] = Append(old, e) /\ DOMAIN Edited(r) = Names
      BY <1>1, <2>2, <2>3, <2>4, <3>1
    <3>3. /\ Append(old, e) \in Seq(Entry)
          /\ Len(old) + 1 \in 1 .. Len(Append(old, e))
          /\ Append(old, e)[Len(old) + 1] = e
      BY <1>1, <2>2, <3>1
    <3>4. Contains(Append(old, e), e)
      BY <3>3 DEF Contains
    <3> QED BY <1>2, <2>1, <3>1, <3>2, <3>3, <3>4
  <2>5. CASE t # r.name
    BY <1>1, <2>2, <2>3, <2>5
  <2> QED BY <2>4, <2>5
<1>3. CASE r.mode = "delete"
  <2>1. r.name \in Names
    BY <1>3, RequestParts
  <2>2. Edited(r) = [entries EXCEPT ![r.name] = Removed(@, r.id)]
    BY <1>3 DEF Edited
  <2>3. CASE t = r.name
    <3>1. Edited(r)[t] = Removed(entries[t], r.id) /\ DOMAIN Edited(r) = Names
      BY <1>1, <2>1, <2>2, <2>3
    <3>2. Removed(entries[t], r.id) \in Seq(Entry)
      BY <1>1, RemovedOne
    <3> QED BY <1>3, <3>1, <3>2
  <2>4. CASE t # r.name
    BY <1>1, <1>3, <2>1, <2>2, <2>4
  <2> QED BY <2>3, <2>4
<1>4. CASE r.mode \notin {"add", "delete"}
  <2>1. Edited(r) = entries
    BY <1>4 DEF Edited
  <2> QED BY <1>1, <1>4, <2>1
<1> QED BY <1>2, <1>3, <1>4

\* The lists stay lists.
LEMMA EditedTyped ==
  ASSUME Typed, NEW r \in Requests PROVE Edited(r) \in [Names -> Seq(Entry)]
<1>1. entries \in [Names -> Seq(Entry)]
  BY DEF Typed
<1>2. \A t \in Names : Edited(r)[t] \in Seq(Entry)
  BY EditedLists
<1>3. PICK e : e = [id |-> r.id, masked |-> TRUE]
  OBVIOUS
<1>4. CASE r.mode = "add"
  <2>1. Edited(r) = [t \in Names |-> IF t = r.name THEN Append(entries[t], e) ELSE entries[t]]
    BY <1>1, <1>3, <1>4, RequestParts DEF Edited
  <2> QED BY <1>2, <2>1
<1>5. CASE r.mode = "delete"
  <2>1. Edited(r) = [t \in Names |-> IF t = r.name THEN Removed(entries[t], r.id) ELSE entries[t]]
    BY <1>1, <1>5, RequestParts DEF Edited
  <2> QED BY <1>2, <2>1
<1>6. CASE r.mode \notin {"add", "delete"}
  BY <1>1, <1>6 DEF Edited
<1> QED BY <1>4, <1>5, <1>6

\* A list never grows by more than the entry that is added.
LEMMA EditedLength ==
  ASSUME Typed, NEW r \in Requests, NEW t \in Names
  PROVE  /\ Len(entries[t]) \in Nat /\ Len(Edited(r)[t]) \in Nat
         /\ Len(Edited(r)[t]) <= Len(entries[t]) + 1
         /\ r.mode # "add" => Len(Edited(r)[t]) <= Len(entries[t])
<1>1. PICK old, new : old = entries[t] /\ new = Edited(r)[t]
  OBVIOUS
<1>2. old \in Seq(Entry) /\ new \in Seq(Entry)
  BY <1>1, EditedLists DEF Typed
<1>3. Len(old) \in Nat /\ Len(new) \in Nat
  BY <1>2
<1>4. CASE new = old
  BY <1>1, <1>3, <1>4
<1>5. CASE r.mode = "add" /\ new = Append(old, [id |-> r.id, masked |-> TRUE])
  <2>1. Len(new) = Len(old) + 1
    BY <1>2, <1>5
  <2> QED BY <1>1, <1>3, <1>5, <2>1
<1>6. CASE new = Removed(old, r.id)
  <2>1. Len(new) <= Len(old)
    BY <1>2, <1>6, RemovedOne
  <2> QED BY <1>1, <1>3, <2>1
<1> QED BY <1>1, <1>4, <1>5, <1>6, EditedLists

-----------------------------------------------------------------------------
\* A page that keeps its pickles and the lists it was served.
LEMMA SameMatches ==
  ASSUME NEW p, page'[p].has = page[p].has, page'[p].asks = page[p].asks,
         page'[p].reply = page[p].reply, stream'[p] = stream[p]
  PROVE  (Matches(p)' <=> Matches(p)) /\ (AddSeen(p)' <=> AddSeen(p)) /\ Held(p)' = Held(p)
<1>1. \A k : Pickled(p, k)' = Pickled(p, k)
  BY DEF Pickled
<1> QED BY <1>1 DEF Matches, AddSeen, Held

\* A page that a step does not touch.
LEMMA SamePage ==
  ASSUME NEW p, PageInv(p), page'[p] = page[p], conn'[p] = conn[p], stream'[p] = stream[p],
         Waiting(p)' <=> Waiting(p), Serving(p)' <=> Serving(p),
         Serving(p) => server'.next = server.next /\ entries' = entries
  PROVE  PageInv(p)'
<1>1. Sent(p)' = Sent(p)
  BY DEF Sent
<1>2. (Matches(p)' <=> Matches(p)) /\ (AddSeen(p)' <=> AddSeen(p)) /\ Held(p)' = Held(p)
  BY SameMatches
<1> QED BY <1>1, <1>2 DEF PageInv

\* What a request adds to the backlog.
LEMMA Queued ==
  ASSUME Typed, NEW p \in Pages, NEW r \in Requests,
         backlog' = Append(backlog, [from |-> p, asks |-> r])
  PROVE  LET n == Len(backlog)
         IN  /\ n \in Nat /\ Len(backlog') = n + 1
             /\ backlog' \in Seq([from : Pages, asks : Requests])
             /\ \A j \in 1 .. n : backlog'[j] = backlog[j]
             /\ backlog'[n + 1].from = p /\ backlog'[n + 1].asks = r
             /\ \A q : Waiting(q)' <=> Waiting(q) \/ q = p
<1>1. PICK m : m = [from |-> p, asks |-> r]
  OBVIOUS
<1>2. m \in [from : Pages, asks : Requests] /\ m.from = p /\ m.asks = r
  BY <1>1
<1>3. PICK n : n = Len(backlog)
  OBVIOUS
<1>4. /\ n \in Nat /\ Len(backlog') = n + 1
      /\ backlog' \in Seq([from : Pages, asks : Requests])
      /\ \A j \in 1 .. n : backlog'[j] = backlog[j]
      /\ backlog'[n + 1] = m
  BY <1>1, <1>2, <1>3 DEF Typed
<1>5. \A j \in 1 .. n + 1 : j \in 1 .. n \/ j = n + 1
  BY <1>4
<1>6. \A q : Waiting(q)' <=> Waiting(q) \/ q = p
  BY <1>2, <1>3, <1>4, <1>5 DEF Waiting
<1> QED BY <1>2, <1>3, <1>4, <1>6

\* A request of a page that has ended the last.
LEMMA GetStep ==
  ASSUME EntriesInv, NEW p \in Pages, NEW r \in Requests, WithinBound(r), Get(p, r)
  PROVE  EntriesInv'
<1>1. Typed /\ BacklogInv /\ \A q \in Pages : PageInv(q)
  BY DEF EntriesInv, PagesInv
<1>2. /\ UNCHANGED <<server, entries, stream>>
      /\ page[p].at # "reading" /\ ~Serving(p)
      /\ \A j \in 1 .. Len(backlog) : backlog[j].from # p
      /\ broken' \in BOOLEAN
  <2>1. backlog \in Seq([from : Pages, asks : Requests])
    BY <1>1 DEF Typed
  <2>2. DOMAIN backlog = 1 .. Len(backlog)
    BY <2>1
  <2>3. broken' = (broken \/ r.mode \in {"incomplete", "long"})
    BY DEF Get
  <2>4. broken' \in BOOLEAN
    BY <2>3
  <2> QED BY <2>2, <2>4 DEF Get, Serving
<1>3. PICK new : new = [NoPage EXCEPT !.at = "reading", !.asks = r]
  OBVIOUS
<1>4. /\ new \in PageStates
      /\ new.at = "reading" /\ new.asks = r /\ new.has = <<>>
  BY <1>3, StartTyped DEF PageStates
<1>5. /\ page \in [Pages -> PageStates]
      /\ conn \in [Pages -> {"open", "closed", "reset"}]
      /\ ended \in [Pages -> BOOLEAN]
      /\ server.at \in {"accepting", "replying", "dead"}
  BY <1>1 DEF Typed
<1>6. \/ /\ server.at = "dead" /\ backlog' = backlog
         /\ page' = [page EXCEPT ![p] = NoPage] /\ conn' = [conn EXCEPT ![p] = "closed"]
      \/ /\ server.at # "dead" /\ backlog' = Append(backlog, [from |-> p, asks |-> r])
         /\ \/ page' = [page EXCEPT ![p] = NoPage] /\ conn' = [conn EXCEPT ![p] = "closed"]
            \/ page' = [page EXCEPT ![p] = new] /\ conn' = [conn EXCEPT ![p] = "open"]
  BY <1>3 DEF Get
<1>7. /\ page' \in [Pages -> PageStates]
      /\ conn' \in [Pages -> {"open", "closed", "reset"}]
      /\ \A q \in Pages \ {p} : page'[q] = page[q] /\ conn'[q] = conn[q]
      /\ \/ page'[p] = NoPage /\ conn'[p] = "closed"
         \/ page'[p] = new /\ conn'[p] = "open" /\ server.at # "dead"
  BY <1>4, <1>5, <1>6, StartTyped
<1>8. ended' \in [Pages -> BOOLEAN]
  <2>1. ended' = [ended EXCEPT ![p] = (server.at = "dead")]
    BY DEF Get
  <2> QED BY <1>5, <2>1
<1>9. CASE server.at = "dead"
  <2>1. backlog' = backlog /\ page'[p] = NoPage /\ conn'[p] = "closed"
    BY <1>6, <1>7, <1>9
  <2>2. backlog = <<>> /\ Len(backlog) = 0
    BY <1>1, <1>9 DEF BacklogInv
  <2>3. Typed'
    BY <1>1, <1>2, <1>7, <1>8, <2>1 DEF Typed
  <2>4. BacklogInv'
    BY <1>2, <2>1, <2>2 DEF BacklogInv
  <2>5. ASSUME NEW q \in Pages PROVE PageInv(q)'
    <3>1. CASE q = p
      <4>1. stream[p] = <<>>
        BY <1>1, <1>2 DEF PageInv
      <4> QED BY <1>2, <2>1, <3>1, <4>1, StartTyped DEF PageInv
    <3>2. CASE q # p
      BY <1>1, <1>2, <1>7, <2>1, <3>2, SamePage DEF Waiting, Serving
    <3> QED BY <3>1, <3>2
  <2> QED BY <2>3, <2>4, <2>5 DEF EntriesInv, PagesInv
<1>10. CASE server.at # "dead"
  <2>1. backlog' = Append(backlog, [from |-> p, asks |-> r])
    BY <1>6, <1>10
  <2>2. PICK n : n = Len(backlog)
    OBVIOUS
  <2>3. /\ n \in Nat /\ Len(backlog') = n + 1
        /\ backlog' \in Seq([from : Pages, asks : Requests])
        /\ \A j \in 1 .. n : backlog'[j] = backlog[j]
        /\ backlog'[n + 1].from = p /\ backlog'[n + 1].asks = r
        /\ \A q : Waiting(q)' <=> Waiting(q) \/ q = p
    BY <1>1, <2>1, <2>2, Queued
  <2>4. Typed'
    BY <1>1, <1>2, <1>7, <1>8, <2>3 DEF Typed
  <2>5. \A j \in 1 .. n + 1 : j \in 1 .. n \/ j = n + 1
    BY <2>3
  <2>6. BacklogInv'
    <3>1. \A j, k \in 1 .. n + 1 : backlog'[j].from = backlog'[k].from => j = k
      BY <1>1, <1>2, <2>2, <2>3, <2>5 DEF BacklogInv
    <3>2. ASSUME NEW j \in 1 .. n PROVE Pending(j)'
      <4>1. backlog[j].from \in Pages \ {p} /\ Pending(j)
        <5>1. backlog \in Seq([from : Pages, asks : Requests])
          BY <1>1 DEF Typed
        <5>2. backlog[j] \in [from : Pages, asks : Requests]
          BY <2>2, <5>1, ElementOfSeq
        <5> QED BY <1>1, <1>2, <2>2, <5>2 DEF BacklogInv
      <4> QED BY <1>2, <1>7, <2>3, <4>1 DEF Pending, Serving
    <3>3. Pending(n + 1)'
      <4>1. page'[p].at = "reading" => page'[p].asks = r
        BY <1>4, <1>7, StartTyped
      <4>2. ASSUME r.mode = "add", NEW t \in Names
            PROVE  Len(entries'[t]) + (n + 1) <= MaxEntries
        <5>1. PICK a : a = Len(entries[t])
          OBVIOUS
        <5>2. a + n < MaxEntries
          BY <2>2, <4>2, <5>1 DEF WithinBound
        <5>3. a \in Nat /\ MaxEntries \in Nat
          BY <1>1, <5>1, UnitsAssumption DEF Typed
        <5>4. a + (n + 1) <= MaxEntries
          BY <2>3, <5>2, <5>3
        <5> QED BY <1>2, <5>1, <5>4
      <4> QED BY <1>2, <2>3, <4>1, <4>2 DEF Pending, Serving
    <3>4. \A j \in 1 .. n + 1 : Pending(j)'
      BY <2>5, <3>2, <3>3
    <3>5. server'.at # "dead"
      BY <1>2, <1>10
    <3> QED BY <2>3, <3>1, <3>4, <3>5 DEF BacklogInv
  <2>7. ASSUME NEW q \in Pages PROVE PageInv(q)'
    <3>1. CASE q = p
      <4>1. stream'[p] = <<>>
        BY <1>1, <1>2 DEF PageInv
      <4>2. CASE page'[p] = NoPage /\ conn'[p] = "closed"
        BY <3>1, <4>1, <4>2, StartTyped DEF PageInv
      <4>3. CASE page'[p] = new /\ conn'[p] = "open"
        <5>1. Waiting(p)' /\ ~Serving(p)'
          BY <1>2, <2>3 DEF Serving
        <5>2. Held(p)' = 0 /\ Sent(p)' = 0
          BY <1>4, <4>1, <4>3, <5>1 DEF Held, Sent
        <5>3. Len(page'[p].has) <= Len(Tables)
          BY <1>4, <4>3, PagesAssumption
        <5> QED BY <1>4, <3>1, <4>1, <4>3, <5>1, <5>2, <5>3 DEF PageInv
      <4> QED BY <1>7, <4>2, <4>3
    <3>2. CASE q # p
      BY <1>1, <1>2, <1>7, <2>3, <3>2, SamePage DEF Serving
    <3> QED BY <3>1, <3>2
  <2> QED BY <2>4, <2>6, <2>7 DEF EntriesInv, PagesInv
<1> QED BY <1>9, <1>10

-----------------------------------------------------------------------------
\* A page with the pickles h reads of s: it then has those, and may still read left.
Reads(h, s, has, left) ==
  /\ has \in Seq(Bodies) /\ left \in Seq(Messages)
  /\ Len(has) = Len(h) + 1 /\ Len(left) < Len(s)
  /\ \A k \in 1 .. Len(h) : has[k] = h[k]
  /\ has[Len(h) + 1] = s[1].body
  /\ Len(left) + 1 = Len(s) => \A k \in 1 .. Len(left) : left[k].body = s[k + 1].body

\* What the page has and may still read, when a pickle is loaded.
LEMMA NextRead ==
  ASSUME NEW h \in Seq(Bodies), NEW s \in Seq(Messages), Loads(s),
         NEW has, has = Append(h, Head(s).body), NEW left, left = AfterRecv(s)
  PROVE  Reads(h, s, has, left)
<1>1. s # <<>>
  BY DEF Loads
<1>2. Head(s) = s[1] /\ s[1] \in Messages
  BY <1>1
<1>3. PICK m \in Bodies : m = s[1].body
  BY <1>2 DEF Messages
<1>4. has = Append(h, m)
  BY <1>2, <1>3
<1>5. /\ has \in Seq(Bodies)
      /\ Len(has) = Len(h) + 1
      /\ \A k \in 1 .. Len(h) : has[k] = h[k]
      /\ has[Len(h) + 1] = m
  <2>1. Append(h, m) \in Seq(Bodies) /\ Len(Append(h, m)) = Len(h) + 1
    BY AppendProperties
  <2>2. \A k \in 1 .. Len(h) : Append(h, m)[k] = h[k]
    BY AppendProperties
  <2>3. Append(h, m)[Len(h) + 1] = m
    BY AppendProperties
  <2> QED BY <1>4, <2>1, <2>2, <2>3
<1>6. /\ left \in Seq(Messages) /\ Len(left) < Len(s)
      /\ Len(left) + 1 = Len(s) => \A k \in 1 .. Len(left) : left[k].body = s[k + 1].body
  BY RecvTakes
<1> QED BY <1>3, <1>5, <1>6 DEF Reads

\* A pickle that is loaded takes the page one further, or it has lost one.
LEMMA PickleLoaded ==
  ASSUME Typed, NEW p \in Pages, PageInv(p), page[p].at = "reading",
         NEW has, NEW left, Reads(page[p].has, stream[p], has, left)
  PROVE  /\ Len(has) <= Len(Tables) + 1
         /\ Len(has) + Len(left) <= Sent(p)
         /\ Len(has) + Len(left) = Sent(p) =>
              /\ AddSeen(p)
              /\ \A k \in 1 .. Len(has) : has[k] = Pickled(p, k)
              /\ \A k \in 1 .. Len(left) : left[k].body = Pickled(p, Len(has) + k)
<1>seqs. PICK h, s : h = page[p].has /\ s = stream[p]
  OBVIOUS
<1>1. PICK a, b, c, d, n, m : /\ a = Len(h) /\ b = Len(s) /\ c = Len(has) /\ d = Len(left)
                              /\ n = Sent(p) /\ m = Len(Tables)
  OBVIOUS
<1>2. a \in Nat /\ b \in Nat /\ c \in Nat /\ d \in Nat /\ m \in Nat /\ n \in 0 .. m + 1
  <2>1. a \in Nat /\ b \in Nat /\ m \in Nat /\ n \in 0 .. m + 1
    BY <1>seqs, <1>1, PageTyped
  <2>2. has \in Seq(Bodies) /\ left \in Seq(Messages)
    BY DEF Reads
  <2> QED BY <1>1, <2>1, <2>2
<1>3. c = a + 1 /\ d < b
  BY <1>seqs, <1>1 DEF Reads
<1>read. /\ \A k \in 1 .. a : has[k] = h[k]
         /\ has[a + 1] = s[1].body
         /\ d + 1 = b => \A k \in 1 .. d : left[k].body = s[k + 1].body
  BY <1>seqs, <1>1 DEF Reads
<1>4. a + b <= n /\ a <= m
  BY <1>seqs, <1>1 DEF PageInv, Held
<1>5. c + d <= n /\ c <= m + 1 /\ n # 0
  BY <1>2, <1>3, <1>4
<1>6. ~Waiting(p)
  BY <1>1, <1>5 DEF Sent
<1>7. ASSUME c + d = n
      PROVE  /\ AddSeen(p)
             /\ \A k \in 1 .. c : has[k] = Pickled(p, k)
             /\ \A k \in 1 .. d : left[k].body = Pickled(p, c + k)
  <2>1. d + 1 = b /\ a + b = n
    BY <1>2, <1>3, <1>4, <1>7
  <2>2. /\ AddSeen(p)
        /\ \A k \in 1 .. a : h[k] = Pickled(p, k)
        /\ \A k \in 1 .. b : s[k].body = Pickled(p, a + k)
    BY <1>seqs, <1>1, <1>6, <2>1 DEF PageInv, Held, Matches
  <2>3. ASSUME NEW k \in 1 .. c PROVE has[k] = Pickled(p, k)
    <3>1. k \in 1 .. a \/ k = a + 1
      BY <1>2, <1>3
    <3>2. CASE k \in 1 .. a
      BY <1>read, <2>2, <3>2
    <3>3. CASE k = a + 1
      <4>1. 1 \in 1 .. b
        BY <1>2, <2>1
      <4>2. a + 1 \in Nat /\ has[a + 1] = Pickled(p, a + 1)
        BY <1>2, <1>read, <2>2, <4>1
      <4> QED BY <3>3, <4>2
    <3> QED BY <3>1, <3>2, <3>3
  <2>4. ASSUME NEW k \in 1 .. d PROVE left[k].body = Pickled(p, c + k)
    <3>1. k + 1 \in 1 .. b /\ a + (k + 1) = c + k
      BY <1>2, <1>3, <2>1
    <3>2. left[k].body = s[k + 1].body
      BY <1>read, <2>1
    <3> QED BY <2>2, <3>1, <3>2
  <2> QED BY <2>2, <2>3, <2>4
<1> QED BY <1>1, <1>5, <1>7

\* A page of which only itself, its connection and what it may read change.
LEMMA OnePageStep ==
  ASSUME EntriesInv, NEW p \in Pages, page[p].at = "reading",
         UNCHANGED <<plane, ended>>, broken' \in BOOLEAN,
         NEW new \in PageStates, page' = [page EXCEPT ![p] = new],
         NEW c \in {"open", "closed", "reset"}, conn' = [conn EXCEPT ![p] = c],
         NEW s \in Seq(Messages), stream' = [stream EXCEPT ![p] = s],
         new.at = "reading" => new.asks = page[p].asks,
         PageInv(p)'
  PROVE  EntriesInv'
<1>1. Typed /\ BacklogInv /\ \A q \in Pages : PageInv(q)
  BY DEF EntriesInv, PagesInv
<1>2. UNCHANGED <<server, entries, backlog, ended>>
  BY DEF plane
<1>3. /\ page \in [Pages -> PageStates]
      /\ conn \in [Pages -> {"open", "closed", "reset"}]
      /\ stream \in [Pages -> Seq(Messages)]
  BY <1>1 DEF Typed
<1>4. /\ page' \in [Pages -> PageStates]
      /\ conn' \in [Pages -> {"open", "closed", "reset"}]
      /\ stream' \in [Pages -> Seq(Messages)]
      /\ page'[p] = new
      /\ \A q \in Pages \ {p} : page'[q] = page[q] /\ conn'[q] = conn[q] /\ stream'[q] = stream[q]
  BY <1>3
<1>5. Typed'
  BY <1>1, <1>2, <1>4 DEF Typed
<1>6. ASSUME NEW j \in 1 .. Len(backlog) PROVE Pending(j)'
  <2>1. backlog \in Seq([from : Pages, asks : Requests])
    BY <1>1 DEF Typed
  <2>2. backlog[j] \in [from : Pages, asks : Requests]
    BY <2>1, ElementOfSeq
  <2>3. Pending(j) /\ backlog[j].from \in Pages
    BY <1>1, <2>2 DEF BacklogInv
  <2> QED BY <1>2, <1>4, <2>3 DEF Pending, Serving
<1>7. BacklogInv'
  BY <1>1, <1>2, <1>6 DEF BacklogInv
<1>8. ASSUME NEW q \in Pages PROVE PageInv(q)'
  <2>1. CASE q # p
    BY <1>1, <1>2, <1>4, <2>1, SamePage DEF Waiting, Serving
  <2> QED BY <2>1
<1> QED BY <1>5, <1>7, <1>8 DEF EntriesInv, PagesInv

\* One recv of a page.
LEMMA RecvStep ==
  ASSUME EntriesInv, NEW p \in Pages, Recv(p) PROVE EntriesInv'
<1>1. Typed /\ BacklogInv /\ PageInv(p)
  BY DEF EntriesInv, PagesInv
<1>2. /\ page[p].at = "reading" /\ conn[p] = "open"
      /\ UNCHANGED <<plane, ended>>
  BY <1>1 DEF Recv, PageInv
<1>3. UNCHANGED <<server, entries, backlog, ended>>
  BY <1>2 DEF plane
<1>4. /\ page \in [Pages -> PageStates] /\ page[p] \in PageStates
      /\ conn \in [Pages -> {"open", "closed", "reset"}]
      /\ stream \in [Pages -> Seq(Messages)]
      /\ broken \in BOOLEAN
  BY <1>1 DEF Typed
<1>5. (Waiting(p)' <=> Waiting(p)) /\ (Serving(p)' <=> Serving(p)) /\ Sent(p)' = Sent(p)
  BY <1>3 DEF Waiting, Serving, Sent
<1>6. CASE ~Loads(stream[p])
  <2>1. PICK unread : Fails(p, unread)
    BY <1>6 DEF Recv
  <2>2. PICK c : c = Left(unread)
    OBVIOUS
  <2>3. /\ page' = [page EXCEPT ![p] = NoPage]
        /\ conn' = [conn EXCEPT ![p] = c]
        /\ stream' = [stream EXCEPT ![p] = <<>>]
        /\ broken' = TRUE
    BY <2>1, <2>2 DEF Fails
  <2>4. c \in {"closed", "reset"}
    BY <2>2 DEF Left
  <2>5. page'[p] = NoPage /\ conn'[p] = c /\ stream'[p] = <<>>
    BY <1>4, <2>3
  <2>6. PageInv(p)'
    BY <2>4, <2>5, StartTyped DEF PageInv
  <2>7. <<>> \in Seq(Messages) /\ broken' \in BOOLEAN
    BY <2>3
  <2> QED BY <1>2, <2>3, <2>4, <2>6, <2>7, StartTyped, OnePageStep
<1>7. CASE Loads(stream[p])
  <2>1. PICK has : has = Append(page[p].has, Head(stream[p]).body)
    OBVIOUS
  <2>left. PICK left : left = AfterRecv(stream[p])
    OBVIOUS
  <2>2. PICK new : new = [page[p] EXCEPT !.has = has,
                                         !.at = IF Len(has) = Len(Tables) + 1 THEN "shown" ELSE @]
    OBVIOUS
  <2>3. PICK c : c = IF Len(has) = Len(Tables) + 1 THEN Left(left) ELSE "open"
    OBVIOUS
  <2>4. /\ page' = [page EXCEPT ![p] = new]
        /\ conn' = [conn EXCEPT ![p] = c]
        /\ stream' = [stream EXCEPT ![p] = left]
        /\ broken' = broken
    <3>1. stream[p] # <<>>
      BY <1>7 DEF Loads
    <3> QED BY <1>2, <1>4, <1>7, <2>1, <2>left, <2>2, <2>3, <3>1 DEF Recv
  <2>5. /\ has \in Seq(Bodies) /\ left \in Seq(Messages)
        /\ Len(has) <= Len(Tables) + 1
        /\ Len(has) + Len(left) <= Sent(p)
        /\ Len(has) + Len(left) = Sent(p) =>
             /\ AddSeen(p)
             /\ \A k \in 1 .. Len(has) : has[k] = Pickled(p, k)
             /\ \A k \in 1 .. Len(left) : left[k].body = Pickled(p, Len(has) + k)
    <3>1. PICK h \in Seq(Bodies) : h = page[p].has
      BY <1>1, PageTyped
    <3>2. PICK s \in Seq(Messages) : s = stream[p]
      BY <1>4
    <3>3. Loads(s) /\ has = Append(h, Head(s).body) /\ left = AfterRecv(s)
      BY <1>7, <2>1, <2>left, <3>1, <3>2
    <3>4. Reads(page[p].has, stream[p], has, left)
      BY <3>1, <3>2, <3>3, NextRead
    <3>5. has \in Seq(Bodies) /\ left \in Seq(Messages)
      BY <3>4 DEF Reads
    <3> QED BY <1>1, <1>2, <3>4, <3>5, PickleLoaded
  <2>6. /\ new \in PageStates
        /\ new.has = has /\ new.reply = page[p].reply /\ new.asks = page[p].asks
        /\ new.at = IF Len(has) = Len(Tables) + 1 THEN "shown" ELSE "reading"
    BY <1>2, <1>4, <2>2, <2>5 DEF PageStates
  <2>7. page'[p] = new /\ conn'[p] = c /\ stream'[p] = left
    BY <1>4, <2>4
  <2>8. Held(p)' = Len(has) + Len(left)
    BY <2>6, <2>7 DEF Held
  <2>9. \A k : Pickled(p, k)' = Pickled(p, k)
    BY <2>6, <2>7 DEF Pickled
  <2>10. AddSeen(p)' <=> AddSeen(p)
    BY <2>6, <2>7 DEF AddSeen
  <2>11. Len(has) + Len(left) = Sent(p) => Matches(p)' /\ AddSeen(p)'
    BY <2>5, <2>6, <2>7, <2>9, <2>10 DEF Matches
  <2>12. Len(has) \in Nat /\ Len(left) \in Nat /\ Len(Tables) \in Nat
         /\ Sent(p) \in 0 .. Len(Tables) + 1
    BY <1>1, <2>5, PageTyped
  <2>13. CASE Len(has) = Len(Tables) + 1
    <3>1. Len(left) = 0 /\ Len(has) + Len(left) = Sent(p)
      BY <2>5, <2>12, <2>13
    <3>2. left = <<>> /\ c = "closed"
      BY <2>3, <2>5, <2>13, <3>1 DEF Left
    <3>3. new.at = "shown"
      BY <2>6, <2>13
    <3>4. PageInv(p)'
      BY <2>6, <2>7, <2>11, <2>13, <3>1, <3>2, <3>3 DEF PageInv
    <3> QED BY <1>2, <1>4, <2>4, <2>5, <2>6, <3>2, <3>3, <3>4, OnePageStep
  <2>14. CASE Len(has) # Len(Tables) + 1
    <3>1. c = "open" /\ new.at = "reading" /\ Len(has) <= Len(Tables)
      BY <2>3, <2>5, <2>6, <2>12, <2>14
    <3>2. Serving(p)' => page'[p].reply = entries'
      BY <1>1, <1>2, <1>3, <1>5, <2>6, <2>7 DEF PageInv
    <3>3. Held(p)' = Sent(p)' => Matches(p)' /\ AddSeen(p)'
      BY <1>5, <2>8, <2>11
    <3>4. Held(p)' <= Sent(p)'
      BY <1>5, <2>5, <2>8
    <3>5. PageInv(p)'
      BY <2>6, <2>7, <3>1, <3>2, <3>3, <3>4 DEF PageInv
    <3> QED BY <1>2, <1>4, <2>4, <2>5, <2>6, <3>1, <3>5, OnePageStep
  <2> QED BY <2>13, <2>14
<1> QED BY <1>6, <1>7

-----------------------------------------------------------------------------
\* Every page that was being read has failed.
LEMMA WorkerEndsStep ==
  ASSUME EntriesInv, WorkerEnds PROVE EntriesInv'
<1>1. Typed /\ BacklogInv /\ \A q \in Pages : PageInv(q)
  BY DEF EntriesInv, PagesInv
<1>2. /\ UNCHANGED <<server, entries, backlog, ended>> /\ broken' = TRUE
      /\ page' = [p \in Pages |-> IF page[p].at = "reading" THEN NoPage ELSE page[p]]
      /\ conn' = [p \in Pages |-> IF conn[p] = "open" THEN Left(stream[p]) ELSE conn[p]]
      /\ stream' = [p \in Pages |-> <<>>]
  BY DEF WorkerEnds, plane
<1>3. /\ page \in [Pages -> PageStates]
      /\ conn \in [Pages -> {"open", "closed", "reset"}]
  BY <1>1 DEF Typed
<1>4. \A s : Left(s) \in {"closed", "reset"}
  BY DEF Left
<1>5. /\ page' \in [Pages -> PageStates]
      /\ conn' \in [Pages -> {"open", "closed", "reset"}]
  BY <1>2, <1>3, <1>4, StartTyped
<1>6. stream' \in [Pages -> Seq(Messages)]
  <2>1. <<>> \in Seq(Messages)
    OBVIOUS
  <2> QED BY <1>2, <2>1
<1>7. Typed'
  <2>1. broken' \in BOOLEAN
    BY <1>2
  <2> QED BY <1>1, <1>2, <1>5, <1>6, <2>1 DEF Typed
<1>8. ASSUME NEW j \in 1 .. Len(backlog) PROVE Pending(j)'
  <2>1. backlog \in Seq([from : Pages, asks : Requests])
    BY <1>1 DEF Typed
  <2>2. backlog[j] \in [from : Pages, asks : Requests]
    BY <2>1, ElementOfSeq
  <2>3. Pending(j) /\ backlog[j].from \in Pages
    BY <1>1, <2>2 DEF BacklogInv
  <2>4. page'[backlog[j].from].at # "reading"
    BY <1>2, <2>3, StartTyped
  <2> QED BY <1>2, <2>3, <2>4 DEF Pending, Serving
<1>9. BacklogInv'
  BY <1>1, <1>2, <1>8 DEF BacklogInv
<1>10. ASSUME NEW q \in Pages PROVE PageInv(q)'
  <2>1. stream'[q] = <<>>
    BY <1>2
  <2>2. CASE page[q].at = "reading"
    <3>1. page'[q] = NoPage /\ conn'[q] \in {"closed", "reset"}
      BY <1>1, <1>2, <1>4, <2>2 DEF PageInv
    <3> QED BY <2>1, <3>1, StartTyped DEF PageInv
  <2>3. CASE page[q].at # "reading"
    <3>1. page'[q] = page[q] /\ conn'[q] = conn[q] /\ stream[q] = <<>>
      BY <1>1, <1>2, <2>3 DEF PageInv
    <3> QED BY <1>1, <1>2, <2>1, <3>1, SamePage DEF Waiting, Serving
  <2> QED BY <2>2, <2>3
<1> QED BY <1>7, <1>9, <1>10 DEF EntriesInv, PagesInv

\* An operator starts the server again.
LEMMA StartServerStep ==
  ASSUME EntriesInv, StartServer PROVE EntriesInv'
<1>1. Typed /\ BacklogInv /\ \A q \in Pages : PageInv(q)
  BY DEF EntriesInv, PagesInv
<1>2. /\ server.at = "dead"
      /\ server' = [server EXCEPT !.at = "accepting", !.next = 0]
      /\ entries' = Initial /\ broken' = FALSE
      /\ UNCHANGED <<backlog, page, conn, stream, ended>>
  BY DEF StartServer
<1>3. backlog = <<>> /\ Len(backlog) = 0
  BY <1>1, <1>2 DEF BacklogInv
<1>4. /\ server' \in [at : {"accepting", "replying", "dead"}, to : Pages, next : 0 .. Len(Tables)]
      /\ server'.at = "accepting"
  <2>1. 0 \in 0 .. Len(Tables)
    BY PagesAssumption
  <2>2. server \in [at : {"accepting", "replying", "dead"}, to : Pages, next : 0 .. Len(Tables)]
    BY <1>1 DEF Typed
  <2> QED BY <1>2, <2>1, <2>2
<1>5. Typed'
  <2>1. broken' \in BOOLEAN
    BY <1>2
  <2> QED BY <1>1, <1>2, <1>4, <2>1, StartTyped DEF Typed
<1>6. BacklogInv'
  BY <1>2, <1>3, <1>4 DEF BacklogInv
<1>7. ASSUME NEW q \in Pages PROVE PageInv(q)'
  BY <1>1, <1>2, <1>4, SamePage DEF Waiting, Serving
<1> QED BY <1>5, <1>6, <1>7 DEF EntriesInv, PagesInv

\* The start.
LEMMA InitEntries == Init => EntriesInv
<1> SUFFICES ASSUME Init PROVE EntriesInv
  OBVIOUS
<1>1. server = [at |-> "accepting", to |-> CHOOSE p \in Pages : TRUE, next |-> 0]
  BY DEF Init
<1>2. server \in [at : {"accepting", "replying", "dead"}, to : Pages, next : 0 .. Len(Tables)]
  <2>1. (CHOOSE p \in Pages : TRUE) \in Pages /\ Len(Tables) \in Nat
    BY PagesAssumption
  <2> QED BY <1>1, <2>1
<1>3. Typed
  <2>1. /\ entries = Initial /\ backlog = <<>> /\ broken \in BOOLEAN
        /\ page = [p \in Pages |-> NoPage] /\ conn = [p \in Pages |-> "closed"]
        /\ stream = [p \in Pages |-> <<>>] /\ ended = [p \in Pages |-> TRUE]
    BY DEF Init
  <2>2. page \in [Pages -> PageStates]
    BY <2>1, StartTyped
  <2>3. conn \in [Pages -> {"open", "closed", "reset"}] /\ ended \in [Pages -> BOOLEAN]
    BY <2>1
  <2>4. /\ <<>> \in Seq(Messages)
        /\ backlog \in Seq([from : Pages, asks : Requests])
    BY <2>1
  <2>5. stream \in [Pages -> Seq(Messages)]
    BY <2>1, <2>4
  <2> QED BY <1>2, <2>1, <2>2, <2>3, <2>4, <2>5, StartTyped DEF Typed
<1>4. BacklogInv
  <2>1. Len(backlog) = 0 /\ backlog = <<>>
    BY DEF Init
  <2> QED BY <2>1 DEF BacklogInv
<1>5. ASSUME NEW q \in Pages PROVE PageInv(q)
  BY StartTyped DEF Init, PageInv
<1> QED BY <1>3, <1>4, <1>5 DEF EntriesInv, PagesInv

-----------------------------------------------------------------------------
\* The server dies: no page has more coming, and those behind stay behind.
LEMMA DiesStep ==
  ASSUME EntriesInv, Dies, UNCHANGED <<entries, page, conn, stream, broken>>
  PROVE  EntriesInv'
<1>1. Typed /\ BacklogInv /\ \A q \in Pages : PageInv(q)
  BY DEF EntriesInv, PagesInv
<1>2. /\ server' = [server EXCEPT !.at = "dead"] /\ backlog' = <<>>
      /\ ended' = [p \in Pages |-> TRUE]
  BY DEF Dies
<1>3. server \in [at : {"accepting", "replying", "dead"}, to : Pages, next : 0 .. Len(Tables)]
  BY <1>1 DEF Typed
<1>4. /\ server' \in [at : {"accepting", "replying", "dead"}, to : Pages, next : 0 .. Len(Tables)]
      /\ server'.at = "dead"
  BY <1>2, <1>3
<1>5. Typed'
  <2>1. ended' \in [Pages -> BOOLEAN] /\ backlog' \in Seq([from : Pages, asks : Requests])
    BY <1>2
  <2> QED BY <1>1, <1>4, <2>1 DEF Typed
<1>6. Len(backlog') = 0
  BY <1>2
<1>7. BacklogInv'
  BY <1>2, <1>6 DEF BacklogInv
<1>8. ASSUME NEW q \in Pages PROVE PageInv(q)'
  <2>2. (Matches(q)' <=> Matches(q)) /\ (AddSeen(q)' <=> AddSeen(q)) /\ Held(q)' = Held(q)
    BY SameMatches
  <2>3. ~Waiting(q)' /\ ~Serving(q)'
    BY <1>4, <1>6 DEF Waiting, Serving
  <2>4. Sent(q)' = Len(Tables) + 1
    BY <2>3 DEF Sent
  <2>5. ASSUME page[q].at = "reading"
        PROVE  /\ Held(q) <= Len(Tables) + 1
               /\ Held(q) = Len(Tables) + 1 => Matches(q) /\ AddSeen(q)
    <3>1. Held(q) <= Sent(q) /\ (Held(q) = Sent(q) /\ ~Waiting(q) => Matches(q) /\ AddSeen(q))
      BY <1>1, <2>5 DEF PageInv
    <3>2. /\ Sent(q) \in 0 .. Len(Tables) + 1 /\ Len(Tables) \in Nat
          /\ Len(page[q].has) \in Nat /\ Len(stream[q]) \in Nat
      BY <1>1, PageTyped
    <3>3. Held(q) \in Nat
      <4>1. PICK a, b : a = Len(page[q].has) /\ b = Len(stream[q])
        OBVIOUS
      <4>2. a \in Nat /\ b \in Nat
        BY <3>2, <4>1
      <4>3. a + b \in Nat
        BY <4>2
      <4> QED BY <4>1, <4>3 DEF Held
    <3>4. Waiting(q) => Sent(q) = 0
      BY DEF Sent
    <3> QED BY <3>1, <3>2, <3>3, <3>4
  <2> QED BY <1>1, <2>2, <2>3, <2>4, <2>5 DEF PageInv
<1> QED BY <1>5, <1>7, <1>8 DEF EntriesInv, PagesInv

\* The first request of the backlog, and those behind it.
LEMMA Unqueued ==
  ASSUME Typed, BacklogInv, backlog # <<>>, backlog' = Tail(backlog),
         NEW p, p = Head(backlog).from, NEW r, r = Head(backlog).asks
  PROVE  LET n == Len(backlog)
         IN  /\ n \in Nat \ {0} /\ Len(backlog') = n - 1
             /\ p \in Pages /\ r \in Requests /\ backlog[1].from = p /\ backlog[1].asks = r
             /\ backlog' \in Seq([from : Pages, asks : Requests])
             /\ \A j \in 1 .. n - 1 :
                  /\ backlog'[j] = backlog[j + 1] /\ j + 1 \in 1 .. n
                  /\ backlog[j + 1].from \in Pages \ {p}
             /\ Waiting(p) /\ ~Waiting(p)'
             /\ \A q : q # p => (Waiting(q)' <=> Waiting(q))
<1>1. PICK n : n = Len(backlog)
  OBVIOUS
<1>2. backlog \in Seq([from : Pages, asks : Requests])
  BY DEF Typed
<1>3. /\ n \in Nat \ {0} /\ Len(backlog') = n - 1
      /\ Head(backlog) = backlog[1]
      /\ backlog' \in Seq([from : Pages, asks : Requests])
      /\ \A j \in 1 .. n - 1 : backlog'[j] = backlog[j + 1]
  BY <1>1, <1>2
<1>4. \A j \in 1 .. n : backlog[j] \in [from : Pages, asks : Requests]
  BY <1>1, <1>2, ElementOfSeq
<1>5. p \in Pages /\ r \in Requests /\ backlog[1].from = p /\ backlog[1].asks = r
  <2>1. 1 \in 1 .. n
    BY <1>3
  <2>2. backlog[1] \in [from : Pages, asks : Requests]
    BY <1>4, <2>1
  <2> QED BY <1>3, <2>2
<1>6. \A i, j \in 1 .. n : backlog[i].from = backlog[j].from => i = j
  BY <1>1 DEF BacklogInv
<1>7. ASSUME NEW j \in 1 .. n - 1
      PROVE  j + 1 \in 1 .. n /\ backlog[j + 1].from \in Pages \ {p}
  <2>1. j + 1 \in 1 .. n /\ 1 \in 1 .. n /\ j + 1 # 1
    BY <1>3
  <2> QED BY <1>4, <1>5, <1>6, <2>1
<1>8. \A j \in 1 .. n : j = 1 \/ (j - 1 \in 1 .. n - 1 /\ (j - 1) + 1 = j)
  BY <1>3
<1>9. Waiting(p) /\ ~Waiting(p)'
  <2>1. 1 \in 1 .. n
    BY <1>3
  <2>2. Waiting(p)
    BY <1>1, <1>5, <2>1 DEF Waiting
  <2>3. ~Waiting(p)'
    BY <1>3, <1>7 DEF Waiting
  <2> QED BY <2>2, <2>3
<1>10. ASSUME NEW q, q # p PROVE Waiting(q)' <=> Waiting(q)
  <2>1. ASSUME Waiting(q)' PROVE Waiting(q)
    <3>1. PICK j \in 1 .. n - 1 : backlog'[j].from = q
      BY <1>3, <2>1 DEF Waiting
    <3>2. j + 1 \in 1 .. n /\ backlog[j + 1].from = q
      BY <1>3, <1>7, <3>1
    <3> QED BY <1>1, <3>2 DEF Waiting
  <2>2. ASSUME Waiting(q) PROVE Waiting(q)'
    <3>1. PICK j \in 1 .. n : backlog[j].from = q
      BY <1>1, <2>2 DEF Waiting
    <3>2. j - 1 \in 1 .. n - 1 /\ (j - 1) + 1 = j
      BY <1>5, <1>8, <1>10, <3>1
    <3>3. backlog'[j - 1].from = q
      BY <1>3, <3>1, <3>2
    <3> QED BY <1>3, <3>2, <3>3 DEF Waiting
  <2> QED BY <2>1, <2>2
<1> QED BY <1>1, <1>3, <1>5, <1>7, <1>9, <1>10

-----------------------------------------------------------------------------
\* The server has done what the first request asked, and is to send the lists.
LEMMA ServesStep ==
  ASSUME EntriesInv, server.at = "accepting", backlog # <<>>,
         NEW p, p = Head(backlog).from, NEW r, r = Head(backlog).asks,
         server' = [at |-> "replying", to |-> p, next |-> 0],
         entries' = Edited(r),
         page' = [page EXCEPT ![p].reply = IF page[p].at = "reading" THEN entries' ELSE @],
         backlog' = Tail(backlog),
         UNCHANGED <<ended, conn, stream, broken>>
  PROVE  EntriesInv'
<1>1. Typed /\ BacklogInv /\ \A q \in Pages : PageInv(q)
  BY DEF EntriesInv, PagesInv
<1>2. PICK n : n = Len(backlog)
  OBVIOUS
<1>3. /\ n \in Nat \ {0} /\ Len(backlog') = n - 1
      /\ p \in Pages /\ r \in Requests /\ backlog[1].from = p /\ backlog[1].asks = r
      /\ backlog' \in Seq([from : Pages, asks : Requests])
      /\ \A j \in 1 .. n - 1 :
           /\ backlog'[j] = backlog[j + 1] /\ j + 1 \in 1 .. n
           /\ backlog[j + 1].from \in Pages \ {p}
      /\ Waiting(p) /\ ~Waiting(p)'
      /\ \A q : q # p => (Waiting(q)' <=> Waiting(q))
  BY <1>1, <1>2, Unqueued
<1>4. PICK edited : edited = Edited(r) /\ entries' = edited
  OBVIOUS
<1>5. /\ edited \in [Names -> Seq(Entry)] /\ entries' = edited
      /\ entries \in [Names -> Seq(Entry)]
      /\ \A t \in Names : /\ Len(entries[t]) \in Nat /\ Len(edited[t]) \in Nat
                          /\ Len(edited[t]) <= Len(entries[t]) + 1
                          /\ r.mode # "add" => Len(edited[t]) <= Len(entries[t])
  <2>1. edited \in [Names -> Seq(Entry)]
    BY <1>1, <1>3, <1>4, EditedTyped
  <2>2. entries \in [Names -> Seq(Entry)]
    BY <1>1 DEF Typed
  <2> QED BY <1>1, <1>3, <1>4, <2>1, <2>2, EditedLength
<1>6. r.mode = "add" => edited[r.name] \in Seq(Entry)
                        /\ Contains(edited[r.name], [id |-> r.id, masked |-> TRUE])
  BY <1>1, <1>3, <1>4, EditedLists, RequestParts
<1>7. /\ server' \in [at : {"accepting", "replying", "dead"}, to : Pages, next : 0 .. Len(Tables)]
      /\ \A q : Serving(q)' <=> q = p
      /\ \A q : ~Serving(q)
      /\ server'.next = 0 /\ server'.at # "dead"
  <2>1. 0 \in 0 .. Len(Tables)
    BY PagesAssumption
  <2> QED BY <1>3, <2>1 DEF Serving
<1>8. /\ page \in [Pages -> PageStates] /\ page[p] \in PageStates
      /\ stream \in [Pages -> Seq(Messages)]
  BY <1>1, <1>3 DEF Typed
<1>9. PICK new : new = [page[p] EXCEPT !.reply = IF page[p].at = "reading" THEN edited ELSE @]
  OBVIOUS
<1>10. /\ new \in PageStates
       /\ new.at = page[p].at /\ new.asks = page[p].asks /\ new.has = page[p].has
       /\ new.reply = IF page[p].at = "reading" THEN edited ELSE page[p].reply
  BY <1>5, <1>8, <1>9 DEF PageStates
<1>11. /\ page' \in [Pages -> PageStates] /\ page'[p] = new
       /\ \A q \in Pages \ {p} : page'[q] = page[q]
  <2>1. PICK lists : lists = IF page[p].at = "reading" THEN edited ELSE page[p].reply
    OBVIOUS
  <2>2. page' = [page EXCEPT ![p].reply = lists]
    BY <1>4, <2>1
  <2>3. new = [page[p] EXCEPT !.reply = lists]
    BY <1>9, <2>1
  <2>4. page' = [page EXCEPT ![p] = new]
    BY <2>2, <2>3
  <2>5. page' \in [Pages -> PageStates]
    BY <1>8, <1>10, <2>4
  <2>6. page'[p] = new
    BY <1>3, <1>8, <2>4
  <2>7. \A q \in Pages \ {p} : page'[q] = page[q]
    BY <1>8, <2>4
  <2> QED BY <2>5, <2>6, <2>7
<1>12. \A j \in 1 .. n : Pending(j)
  BY <1>1, <1>2 DEF BacklogInv
<1>13. MaxEntries \in Nat
  BY UnitsAssumption
<1>14. ASSUME NEW t \in Names PROVE Len(edited[t]) <= MaxEntries
  <2>1. PICK a, b : a = Len(entries[t]) /\ b = Len(edited[t])
    OBVIOUS
  <2>2. /\ a \in Nat /\ b \in Nat /\ b <= a + 1 /\ (r.mode # "add" => b <= a)
        /\ a <= MaxEntries
    BY <1>1, <1>5, <2>1 DEF Typed
  <2>3. r.mode = "add" => a + 1 <= MaxEntries
    <3>1. 1 \in 1 .. n
      BY <1>3
    <3>2. Pending(1)
      BY <1>12, <3>1
    <3> QED BY <1>3, <2>1, <3>2 DEF Pending
  <2>4. b <= MaxEntries
    BY <1>13, <2>2, <2>3
  <2> QED BY <2>1, <2>4
<1>15. Typed'
  BY <1>1, <1>3, <1>5, <1>7, <1>11, <1>14 DEF Typed
<1>16. ASSUME NEW j \in 1 .. n - 1 PROVE Pending(j)'
  <2>1. /\ backlog'[j] = backlog[j + 1] /\ backlog[j + 1].from \in Pages \ {p}
        /\ Pending(j + 1) /\ j \in Nat
    BY <1>3, <1>12
  <2>2. ASSUME backlog[j + 1].asks.mode = "add", NEW t \in Names
        PROVE  Len(edited[t]) + j <= MaxEntries
    <3>1. PICK a, b : a = Len(entries[t]) /\ b = Len(edited[t])
      OBVIOUS
    <3>2. a \in Nat /\ b \in Nat /\ b <= a + 1
      BY <1>5, <3>1
    <3>3. a + (j + 1) <= MaxEntries
      BY <2>1, <2>2, <3>1 DEF Pending
    <3>4. b + j <= MaxEntries
      BY <1>13, <2>1, <3>2, <3>3
    <3> QED BY <3>1, <3>4
  <2> QED BY <1>5, <1>7, <1>11, <2>1, <2>2 DEF Pending
<1>17. BacklogInv'
  <2>1. \A i, j \in 1 .. n : backlog[i].from = backlog[j].from => i = j
    BY <1>1, <1>2 DEF BacklogInv
  <2>2. ASSUME NEW i \in 1 .. n - 1, NEW j \in 1 .. n - 1, backlog'[i].from = backlog'[j].from
        PROVE  i = j
    <3>1. i + 1 = j + 1
      BY <1>3, <2>1, <2>2
    <3> QED BY <3>1
  <2> QED BY <1>3, <1>7, <1>16, <2>2 DEF BacklogInv
<1>18. PageInv(p)'
  <2>1. CASE page[p].at # "reading"
    <3>1. page'[p].at = page[p].at /\ page'[p].has = page[p].has /\ page'[p].asks = page[p].asks
          /\ page'[p].reply = page[p].reply
      BY <1>10, <1>11, <2>1
    <3>3. (Matches(p)' <=> Matches(p)) /\ (AddSeen(p)' <=> AddSeen(p))
      BY <3>1, SameMatches
    <3> QED BY <1>1, <1>3, <2>1, <3>1, <3>3 DEF PageInv
  <2>2. CASE page[p].at = "reading"
    <3>1. page[p].asks = r
      <4>1. 1 \in 1 .. n
        BY <1>3
      <4>2. Pending(1)
        BY <1>12, <4>1
      <4> QED BY <1>3, <2>2, <4>2 DEF Pending
    <3>2. page'[p].at = "reading" /\ page'[p].asks = r /\ page'[p].has = page[p].has
          /\ page'[p].reply = edited
      BY <1>10, <1>11, <2>2, <3>1
    <3>3. Len(page[p].has) = 0 /\ Len(stream[p]) = 0
      <4>1. PICK a, b : a = Len(page[p].has) /\ b = Len(stream[p])
        OBVIOUS
      <4>2. a \in Nat /\ b \in Nat
        BY <1>1, <1>3, <4>1, PageTyped
      <4>3. a + b <= 0
        BY <1>1, <1>3, <2>2, <4>1 DEF PageInv, Held, Sent
      <4>4. a = 0 /\ b = 0
        BY <4>2, <4>3
      <4> QED BY <4>1, <4>4
    <3>4. Held(p)' = 0 /\ Sent(p)' = 0
      BY <1>3, <1>7, <3>2, <3>3 DEF Held, Sent
    <3>5. Matches(p)'
      BY <3>2, <3>3 DEF Matches
    <3>6. AddSeen(p)'
      BY <1>6, <3>2 DEF AddSeen
    <3>7. Len(page'[p].has) <= Len(Tables)
      BY <3>2, <3>3, PagesAssumption
    <3>8. conn[p] = "open"
      BY <1>1, <1>3, <2>2 DEF PageInv
    <3> QED BY <1>5, <1>7, <3>2, <3>4, <3>5, <3>6, <3>7, <3>8 DEF PageInv
  <2> QED BY <2>1, <2>2
<1>19. ASSUME NEW q \in Pages PROVE PageInv(q)'
  <2>1. CASE q # p
    BY <1>1, <1>3, <1>7, <1>11, <2>1, SamePage
  <2> QED BY <1>18, <2>1
<1> QED BY <1>15, <1>17, <1>19 DEF EntriesInv, PagesInv

\* The server takes a request.
LEMMA HandleStep == ASSUME EntriesInv, Handle PROVE EntriesInv'
<1>1. PICK p, r : p = Head(backlog).from /\ r = Head(backlog).asks
  OBVIOUS
<1>2. CASE r.mode \in {"incomplete", "long"}
  <2>1. Dies /\ UNCHANGED <<entries, page, conn, stream, broken>>
    BY <1>1, <1>2 DEF Handle
  <2> QED BY <2>1, DiesStep
<1>3. CASE r.mode \notin {"incomplete", "long"}
  <2>1. /\ server.at = "accepting" /\ backlog # <<>>
        /\ server' = [at |-> "replying", to |-> p, next |-> 0]
        /\ entries' = Edited(r)
        /\ page' = [page EXCEPT ![p].reply = IF page[p].at = "reading" THEN entries' ELSE @]
        /\ backlog' = Tail(backlog)
        /\ UNCHANGED <<ended, conn, stream, broken>>
    BY <1>1, <1>3 DEF Handle
  <2> QED BY <1>1, <2>1, ServesStep
<1> QED BY <1>2, <1>3

-----------------------------------------------------------------------------
\* The pickle the server sends is the next one of its page.
LEMMA PickleTyped ==
  ASSUME Typed, NEW i \in 0 .. Len(Tables), NEW m, m = Pickle(i)
  PROVE  /\ m \in Messages
         /\ m.body = IF i = 0 THEN Tables ELSE entries[Tables[i]]
<1>1. CASE i = 0
  BY <1>1 DEF Pickle, Messages, Bodies
<1>2. CASE i # 0
  <2>1. PICK t : t = Tables[i]
    OBVIOUS
  <2>2. t \in Names
    <3>1. Tables \in Seq(Names) /\ i \in 1 .. Len(Tables)
      BY <1>2, PagesAssumption
    <3> QED BY <2>1, <3>1, ElementOfSeq
  <2>3. PICK list : list = entries[t]
    OBVIOUS
  <2>4. list \in Seq(Entry) /\ Len(list) <= MaxEntries
    BY <2>2, <2>3 DEF Typed
  <2>5. Len(list) \in 0 .. MaxEntries
    BY <2>4, UnitsAssumption
  <2>6. PICK u : u = Units[Len(list)]
    OBVIOUS
  <2>7. u \in Int
    BY <2>5, <2>6, UnitsAssumption
  <2>8. m = [body |-> list, upto |-> u, whole |-> TRUE]
    BY <1>2, <2>1, <2>3, <2>6 DEF Pickle
  <2> QED BY <1>2, <2>1, <2>3, <2>4, <2>7, <2>8 DEF Messages, Bodies
<1> QED BY <1>1, <1>2

\* A pickle goes to the end of what is on its way.
Grown(r, s, m) ==
  /\ r \in Seq(Messages) /\ Len(r) = Len(s) + 1
  /\ \A j \in 1 .. Len(s) : r[j] = s[j]
  /\ r[Len(s) + 1].body = m.body

\* What a send adds to the connection.
LEMMA BehindTyped ==
  ASSUME NEW s \in Seq(Messages), NEW m \in Messages PROVE Grown(Behind(s, m), s, m)
<1>1. PICK e : e = IF s = <<>> THEN m ELSE [m EXCEPT !.upto = @ + s[Len(s)].upto]
  OBVIOUS
<1>2. e \in Messages /\ e.body = m.body
  <2>1. CASE s = <<>>
    BY <1>1, <2>1
  <2>2. CASE s # <<>>
    <3>1. Len(s) \in 1 .. Len(s)
      BY <2>2
    <3>2. s[Len(s)] \in Messages
      BY <3>1, ElementOfSeq
    <3>3. PICK u : u = s[Len(s)].upto
      OBVIOUS
    <3>4. m.upto + u \in Int
      BY <3>2, <3>3 DEF Messages
    <3>5. e = [m EXCEPT !.upto = m.upto + u]
      BY <1>1, <2>2, <3>3
    <3> QED BY <3>4, <3>5 DEF Messages
  <2> QED BY <2>1, <2>2
<1>3. Behind(s, m) = Append(s, e)
  BY <1>1 DEF Behind
<1>4. Append(s, e) \in Seq(Messages) /\ Len(Append(s, e)) = Len(s) + 1
  BY <1>2, AppendProperties
<1>5. \A j \in 1 .. Len(s) : Append(s, e)[j] = s[j]
  BY <1>2, AppendProperties
<1>6. Append(s, e)[Len(s) + 1] = e
  BY <1>2, AppendProperties
<1>7. Grown(Append(s, e), s, m)
  BY <1>2, <1>4, <1>5, <1>6 DEF Grown
<1> QED BY <1>3, <1>7

\* The server sends the next pickle to a page that may have left.
LEMMA SendsStep ==
  ASSUME EntriesInv, server.at = "replying", Send, conn[server.to] # "reset"
  PROVE  EntriesInv'
<1>1. Typed /\ BacklogInv /\ \A q \in Pages : PageInv(q)
  BY DEF EntriesInv, PagesInv
<1>2. PICK p, i, n : p = server.to /\ i = server.next /\ n = Len(Tables)
  OBVIOUS
<1>3. /\ server \in [at : {"accepting", "replying", "dead"}, to : Pages, next : 0 .. n]
      /\ p \in Pages /\ i \in 0 .. n /\ n \in Nat
      /\ \A q : Serving(q) <=> q = p
  <2>1. server \in [at : {"accepting", "replying", "dead"}, to : Pages, next : 0 .. n]
    BY <1>1, <1>2 DEF Typed
  <2>2. n \in Nat
    BY <1>2, PagesAssumption
  <2> QED BY <1>2, <2>1, <2>2 DEF Serving
<1>4. PICK m : m = Pickle(i)
  OBVIOUS
<1>5. /\ m \in Messages
      /\ m.body = IF i = 0 THEN Tables ELSE entries[Tables[i]]
  BY <1>1, <1>2, <1>3, <1>4, PickleTyped
<1>6. /\ stream' = IF conn[p] = "open" THEN [stream EXCEPT ![p] = Behind(@, m)] ELSE stream
      /\ conn' = [conn EXCEPT ![p] =
           IF @ = "open" THEN @ ELSE IF i = n THEN "closed" ELSE "reset"]
      /\ server' = IF i = n THEN [server EXCEPT !.at = "accepting", !.next = 0]
                            ELSE [server EXCEPT !.next = @ + 1]
      /\ ended' = [ended EXCEPT ![p] = (i = n)]
      /\ UNCHANGED <<backlog, entries, page, broken>>
  BY <1>2, <1>4 DEF Send
<1>7. /\ server' \in [at : {"accepting", "replying", "dead"}, to : Pages, next : 0 .. n]
      /\ server'.at # "dead"
      /\ IF i = n THEN server'.at = "accepting"
                  ELSE server'.at = "replying" /\ server'.to = p /\ server'.next = i + 1
  <2>1. CASE i = n
    <3>1. 0 \in 0 .. n
      BY <1>3
    <3> QED BY <1>3, <1>6, <2>1, <3>1
  <2>2. CASE i # n
    <3>1. i + 1 \in 0 .. n
      BY <1>3, <2>2
    <3>2. server' = [server EXCEPT !.next = i + 1]
      BY <1>2, <1>6, <2>2
    <3> QED BY <1>2, <1>3, <2>2, <3>1, <3>2
  <2> QED BY <2>1, <2>2
<1>8. \A q : Serving(q)' <=> q = p /\ i # n
  BY <1>7 DEF Serving
<1>9. PICK s, left : s = stream[p] /\ left = Behind(s, m)
  OBVIOUS
<1>10. /\ s \in Seq(Messages) /\ left \in Seq(Messages) /\ Len(left) = Len(s) + 1
       /\ \A j \in 1 .. Len(s) : left[j] = s[j]
       /\ left[Len(s) + 1].body = m.body
       /\ stream \in [Pages -> Seq(Messages)]
       /\ conn \in [Pages -> {"open", "closed", "reset"}]
       /\ ended \in [Pages -> BOOLEAN]
  <2>1. /\ stream \in [Pages -> Seq(Messages)]
        /\ conn \in [Pages -> {"open", "closed", "reset"}]
        /\ ended \in [Pages -> BOOLEAN]
    BY <1>1 DEF Typed
  <2>2. s \in Seq(Messages)
    BY <1>3, <1>9, <2>1
  <2>3. /\ left \in Seq(Messages) /\ Len(left) = Len(s) + 1
        /\ \A j \in 1 .. Len(s) : left[j] = s[j]
        /\ left[Len(s) + 1].body = m.body
    <3>1. m \in Messages /\ left = Behind(s, m)
      BY <1>5, <1>9
    <3>2. Grown(left, s, m)
      BY <2>2, <3>1, BehindTyped
    <3> QED BY <3>2 DEF Grown
  <2> QED BY <2>1, <2>2, <2>3
<1>11. /\ stream' \in [Pages -> Seq(Messages)]
       /\ stream'[p] = IF conn[p] = "open" THEN left ELSE s
       /\ \A q \in Pages \ {p} : stream'[q] = stream[q]
  <2>1. CASE conn[p] = "open"
    <3>1. stream' = [stream EXCEPT ![p] = left]
      BY <1>6, <1>9, <2>1
    <3> QED BY <1>3, <1>10, <2>1, <3>1
  <2>2. CASE conn[p] # "open"
    BY <1>6, <1>9, <1>10, <2>2
  <2> QED BY <2>1, <2>2
<1>12. /\ conn' \in [Pages -> {"open", "closed", "reset"}]
       /\ conn'[p] = "open" <=> conn[p] = "open"
       /\ \A q \in Pages \ {p} : conn'[q] = conn[q]
  <2>1. PICK c : c = IF conn[p] = "open" THEN "open" ELSE IF i = n THEN "closed" ELSE "reset"
    OBVIOUS
  <2>2. conn' = [conn EXCEPT ![p] = c]
    BY <1>6, <2>1
  <2> QED BY <1>3, <1>10, <2>1, <2>2
<1>13. ended' \in [Pages -> BOOLEAN]
  <2>1. (i = n) \in BOOLEAN
    OBVIOUS
  <2> QED BY <1>6, <1>10, <2>1
<1>14. Typed'
  BY <1>1, <1>2, <1>6, <1>7, <1>11, <1>12, <1>13 DEF Typed
<1>15. \A j \in 1 .. Len(backlog) : Pending(j) /\ backlog[j].from # p
  BY <1>1, <1>3 DEF BacklogInv, Pending
<1>16. \A j \in 1 .. Len(backlog) : Pending(j)'
  BY <1>6, <1>8, <1>15 DEF Pending
<1>17. BacklogInv'
  BY <1>1, <1>6, <1>7, <1>16 DEF BacklogInv
<1>18. (\A q : Waiting(q)' <=> Waiting(q)) /\ ~Waiting(p)
  BY <1>6, <1>15 DEF Waiting
<1>19. Sent(p) = i /\ Sent(p)' = i + 1
  <2>0. ~Waiting(p) /\ ~Waiting(p)' /\ Serving(p) /\ (Serving(p)' <=> i # n)
    BY <1>3, <1>8, <1>18
  <2>1. Sent(p) = i
    BY <1>2, <2>0 DEF Sent
  <2>2. CASE i = n
    <3>1. Sent(p)' = Len(Tables) + 1
      BY <2>0, <2>2 DEF Sent
    <3> QED BY <1>2, <2>1, <2>2, <3>1
  <2>3. CASE i # n
    <3>1. Sent(p)' = server'.next
      BY <2>0, <2>3 DEF Sent
    <3> QED BY <1>7, <2>1, <2>3, <3>1
  <2> QED BY <2>1, <2>2, <2>3
<1>20. PageInv(p)'
  <2>1. CASE conn[p] # "open"
    <3>1. stream'[p] = stream[p] /\ page'[p] = page[p] /\ page[p].at # "reading"
      BY <1>1, <1>3, <1>6, <1>9, <1>11, <2>1 DEF PageInv
    <3>2. (Matches(p)' <=> Matches(p)) /\ (AddSeen(p)' <=> AddSeen(p))
      BY <3>1, SameMatches
    <3> QED BY <1>1, <1>3, <1>12, <2>1, <3>1, <3>2 DEF PageInv
  <2>2. CASE conn[p] = "open"
    <3>1. /\ page[p].at = "reading" /\ page' = page /\ stream'[p] = left
          /\ page[p].reply = entries /\ entries' = entries
      BY <1>1, <1>3, <1>6, <1>11, <2>2 DEF PageInv
    <3>2. PICK a, b, h : a = Len(page[p].has) /\ b = Len(s) /\ h = page[p].has
      OBVIOUS
    <3>3. a \in Nat /\ b \in Nat
      BY <1>1, <1>3, <1>9, <3>2, PageTyped
    <3>4. /\ a + b <= i /\ a <= n
          /\ a + b = i => Matches(p) /\ AddSeen(p)
      <4>1. /\ Held(p) <= Sent(p) /\ Len(page[p].has) <= Len(Tables)
            /\ Held(p) = Sent(p) => Matches(p) /\ AddSeen(p)
        BY <1>1, <1>3, <1>18, <3>1 DEF PageInv
      <4>2. Held(p) = a + b
        BY <1>9, <3>2 DEF Held
      <4> QED BY <1>2, <1>19, <3>2, <4>1, <4>2
    <3>5. Held(p)' = a + (b + 1)
      BY <1>10, <3>1, <3>2 DEF Held
    <3>6. a + (b + 1) <= i + 1 /\ (a + (b + 1) = i + 1 => a + b = i)
      BY <1>3, <3>3, <3>4
    <3>7. ASSUME a + b = i PROVE Matches(p)' /\ AddSeen(p)'
      <4>1. \A k : Pickled(p, k)' = Pickled(p, k)
        BY <3>1 DEF Pickled
      <4>2. /\ \A k \in 1 .. a : h[k] = Pickled(p, k)
            /\ \A k \in 1 .. b : s[k].body = Pickled(p, a + k)
        BY <1>9, <3>2, <3>4, <3>7 DEF Matches
      <4>3. left[b + 1].body = Pickled(p, a + (b + 1))
        <5>1. a + (b + 1) = i + 1 /\ (i + 1) - 1 = i /\ (i + 1 = 1 <=> i = 0)
          BY <1>3, <3>3, <3>7
        <5> QED BY <1>5, <1>10, <3>1, <3>2, <5>1 DEF Pickled
      <4>4. ASSUME NEW k \in 1 .. b + 1 PROVE left[k].body = Pickled(p, a + k)
        <5>1. k \in 1 .. b \/ k = b + 1
          BY <3>3
        <5> QED BY <1>10, <3>2, <4>2, <4>3, <5>1
      <4>5. Matches(p)'
        BY <1>10, <3>1, <3>2, <4>1, <4>2, <4>4 DEF Matches
      <4>6. AddSeen(p)'
        BY <3>1, <3>4, <3>7 DEF AddSeen
      <4> QED BY <4>5, <4>6
    <3>8. Held(p)' <= Sent(p)' /\ (Held(p)' = Sent(p)' => Matches(p)' /\ AddSeen(p)')
      BY <1>19, <3>5, <3>6, <3>7
    <3>9. Len(page'[p].has) <= Len(Tables)
      BY <1>2, <3>1, <3>2, <3>4
    <3> QED BY <1>12, <2>2, <3>1, <3>8, <3>9 DEF PageInv
  <2> QED BY <2>1, <2>2
<1>21. ASSUME NEW q \in Pages PROVE PageInv(q)'
  <2>1. CASE q # p
    BY <1>1, <1>3, <1>6, <1>8, <1>11, <1>12, <1>18, <2>1, SamePage
  <2> QED BY <1>20, <2>1
<1> QED BY <1>14, <1>17, <1>21 DEF EntriesInv, PagesInv

\* A send.
LEMMA SendStep == ASSUME EntriesInv, Send PROVE EntriesInv'
<1>1. CASE conn[server.to] = "reset"
  <2>1. Dies /\ UNCHANGED <<entries, page, conn, stream, broken>>
    BY <1>1 DEF Send
  <2> QED BY <2>1, DiesStep
<1>2. CASE conn[server.to] # "reset"
  <2>1. server.at = "replying"
    BY DEF Send
  <2> QED BY <1>2, <2>1, SendsStep
<1> QED BY <1>1, <1>2

\* A step.
LEMMA EntriesInductive == EntriesInv /\ [Next]_vars => EntriesInv'
<1> SUFFICES ASSUME EntriesInv, [Next]_vars PROVE EntriesInv'
  OBVIOUS
<1>1. ASSUME NEW p \in Pages, Recv(p) PROVE EntriesInv'
  BY <1>1, RecvStep
<1>2. ASSUME NEW p \in Pages, NEW r \in Requests, WithinBound(r), Get(p, r) PROVE EntriesInv'
  BY <1>2, GetStep
<1>3. CASE WorkerEnds
  BY <1>3, WorkerEndsStep
<1>4. CASE Handle
  BY <1>4, HandleStep
<1>5. CASE Send
  BY <1>5, SendStep
<1>6. CASE StartServer
  BY <1>6, StartServerStep
<1>7. CASE UNCHANGED vars
  <2>1. UNCHANGED <<server, entries, backlog, page, conn, stream, ended, broken>>
    BY <1>7 DEF vars
  <2>2. Typed' /\ BacklogInv'
    BY <2>1 DEF EntriesInv, Typed, BacklogInv, Pending, Serving
  <2>3. \A q \in Pages : PageInv(q)'
    BY <2>1, SamePage DEF EntriesInv, PagesInv, Waiting, Serving
  <2> QED BY <2>2, <2>3 DEF EntriesInv, PagesInv
<1> QED BY <1>1, <1>2, <1>3, <1>4, <1>5, <1>6, <1>7 DEF Next

-----------------------------------------------------------------------------
\* A page that gets its last pickle is neither in the backlog nor being served.
LEMMA LastIsSent ==
  ASSUME Typed, NEW p \in Pages, PageInv(p), page[p].at = "reading", Loads(stream[p]),
         Len(Append(page[p].has, Head(stream[p]).body)) = Len(Tables) + 1
  PROVE  ~Waiting(p) /\ ~Serving(p)
<1>1. PICK h, s : h = page[p].has /\ s = stream[p]
  OBVIOUS
<1>2. h \in Seq(Bodies) /\ s \in Seq(Messages) /\ s # <<>>
  BY <1>1, PageTyped DEF Loads
<1>3. PICK a, b, n, i : a = Len(h) /\ b = Len(s) /\ n = Len(Tables) /\ i = server.next
  OBVIOUS
<1>4. a \in Nat /\ b \in Nat \ {0} /\ n \in Nat /\ i \in 0 .. n /\ Sent(p) \in 0 .. n + 1
  <2>1. b \in Nat \ {0}
    BY <1>2, <1>3
  <2> QED BY <1>1, <1>3, <2>1, PageTyped
<1>5. a + 1 = n + 1
  <2>1. Head(s).body \in Bodies
    <3>1. Head(s) \in Messages
      BY <1>2
    <3> QED BY <3>1 DEF Messages
  <2>2. Len(Append(h, Head(s).body)) = a + 1
    BY <1>2, <1>3, <2>1, AppendProperties
  <2> QED BY <1>1, <1>3, <2>2
<1>6. a + b <= Sent(p)
  BY <1>1, <1>3 DEF PageInv, Held
<1>7. Sent(p) # 0 /\ Sent(p) # i
  BY <1>4, <1>5, <1>6
<1> QED BY <1>3, <1>7 DEF Sent

\* Nothing ends the server that has not broken a page.
LEMMA BrokenStep == EntriesInv /\ BrokenInv /\ [Next]_vars => BrokenInv'
<1> SUFFICES ASSUME EntriesInv, BrokenInv, [Next]_vars PROVE BrokenInv'
  OBVIOUS
<1>1. Typed /\ BacklogInv /\ \A q \in Pages : PageInv(q)
  BY DEF EntriesInv, PagesInv
<1>2. /\ backlog \in Seq([from : Pages, asks : Requests])
      /\ conn \in [Pages -> {"open", "closed", "reset"}]
  BY <1>1 DEF Typed
<1>3. \A j \in 1 .. Len(backlog) : backlog[j].from \in Pages
  <2>1. \A j \in 1 .. Len(backlog) : backlog[j] \in [from : Pages, asks : Requests]
    BY <1>2, ElementOfSeq
  <2> QED BY <2>1
<1>4. ASSUME NEW p \in Pages, NEW r \in Requests, Get(p, r) PROVE BrokenInv'
  <2>1. /\ server' = server /\ (broken => broken') /\ ~Serving(p)
        /\ r.mode \in {"incomplete", "long"} => broken'
        /\ \A i \in DOMAIN backlog : backlog[i].from # p
    BY <1>4 DEF Get, Serving
  <2>2. \A q \in Pages \ {p} : conn'[q] = conn[q]
    BY <1>2, <1>4 DEF Get
  <2>3. \A j \in 1 .. Len(backlog) : backlog[j].from \in Pages \ {p}
    BY <1>2, <1>3, <2>1
  <2>4. CASE server.at = "dead"
    <3>1. backlog' = backlog /\ broken'
      BY <1>4, <2>1, <2>4 DEF Get, BrokenInv
    <3> QED BY <3>1 DEF BrokenInv
  <2>5. CASE server.at # "dead"
    <3>1. backlog' = Append(backlog, [from |-> p, asks |-> r])
      BY <1>4, <2>5 DEF Get
    <3>2. PICK n : n = Len(backlog)
      OBVIOUS
    <3>3. /\ n \in Nat /\ Len(backlog') = n + 1
          /\ \A j \in 1 .. n : backlog'[j] = backlog[j]
          /\ backlog'[n + 1].from = p /\ backlog'[n + 1].asks = r
      BY <1>1, <3>1, <3>2, Queued
    <3>4. \A j \in 1 .. n + 1 : j \in 1 .. n \/ j = n + 1
      BY <3>3
    <3>5. r.mode # "incomplete" => conn'[p] = "open"
      BY <1>2, <1>4, <2>5 DEF Get
    <3>6. ASSUME NEW j \in 1 .. n,
                 \/ backlog'[j].asks.mode \in {"incomplete", "long"}
                 \/ conn'[backlog'[j].from] # "open"
          PROVE  broken'
      <4>1. backlog'[j] = backlog[j] /\ conn'[backlog[j].from] = conn[backlog[j].from]
        BY <2>2, <2>3, <3>2, <3>3
      <4> QED BY <2>1, <3>2, <3>6, <4>1 DEF BrokenInv
    <3>7. backlog'[n + 1].asks.mode \in {"incomplete", "long"}
            \/ conn'[backlog'[n + 1].from] # "open" => broken'
      BY <2>1, <3>3, <3>5
    <3>8. ASSUME NEW q \in Pages, Serving(q)', conn'[q] # "open" PROVE broken'
      <4>1. Serving(q) /\ q # p
        BY <2>1, <3>8 DEF Serving
      <4> QED BY <2>1, <2>2, <3>8, <4>1 DEF BrokenInv
    <3>9. server'.at # "dead"
      BY <2>1, <2>5
    <3> QED BY <3>3, <3>4, <3>6, <3>7, <3>8, <3>9 DEF BrokenInv
  <2> QED BY <2>4, <2>5
<1>5. ASSUME NEW p \in Pages, Recv(p) PROVE BrokenInv'
  <2>1. UNCHANGED <<server, backlog>> /\ page[p].at = "reading"
    BY <1>5 DEF Recv, plane
  <2>2. CASE ~Loads(stream[p])
    <3>1. broken' = TRUE
      BY <1>5, <2>2 DEF Recv, Fails
    <3> QED BY <3>1 DEF BrokenInv
  <2>3. CASE Loads(stream[p])
    <3>1. PICK has, left :
            /\ has = Append(page[p].has, Head(stream[p]).body)
            /\ conn' = [conn EXCEPT ![p] = IF Len(has) = Len(Tables) + 1 THEN Left(left) ELSE @]
            /\ broken' = broken
      BY <1>5, <2>3 DEF Recv
    <3>2. \A q \in Pages : conn'[q] = conn[q] \/ (~Waiting(q) /\ ~Serving(q))
      <4>1. CASE Len(has) = Len(Tables) + 1
        <5>1. ~Waiting(p) /\ ~Serving(p)
          BY <1>1, <2>1, <2>3, <3>1, <4>1, LastIsSent
        <5> QED BY <1>2, <3>1, <5>1
      <4>2. CASE Len(has) # Len(Tables) + 1
        BY <1>2, <3>1, <4>2
      <4> QED BY <4>1, <4>2
    <3>3. \A j \in 1 .. Len(backlog) : Waiting(backlog[j].from)
      BY DEF Waiting
    <3>4. \A j \in 1 .. Len(backlog) : conn'[backlog[j].from] = conn[backlog[j].from]
      BY <1>3, <3>2, <3>3
    <3> QED BY <2>1, <3>1, <3>2, <3>4 DEF BrokenInv, Serving
  <2> QED BY <2>2, <2>3
<1>6. CASE WorkerEnds
  <2>1. broken' = TRUE
    BY <1>6 DEF WorkerEnds
  <2> QED BY <2>1 DEF BrokenInv
<1>7. ASSUME Dies, broken, UNCHANGED <<conn, broken>> PROVE BrokenInv'
  BY <1>7 DEF BrokenInv
<1>8. CASE Handle
  <2>1. PICK p, r : p = Head(backlog).from /\ r = Head(backlog).asks
    OBVIOUS
  <2>2. backlog # <<>> /\ UNCHANGED <<conn, stream, broken>>
    BY <1>8 DEF Handle
  <2>3. 1 \in 1 .. Len(backlog) /\ backlog[1].from = p /\ backlog[1].asks = r /\ p \in Pages
    <3>1. 1 \in 1 .. Len(backlog) /\ Head(backlog) = backlog[1]
      BY <1>2, <2>2
    <3> QED BY <1>3, <2>1, <3>1
  <2>4. r.mode \in {"incomplete", "long"} \/ conn[p] # "open" => broken
    BY <2>3 DEF BrokenInv
  <2>5. CASE r.mode \in {"incomplete", "long"}
    <3>1. Dies
      BY <1>8, <2>1, <2>5 DEF Handle
    <3> QED BY <1>7, <2>2, <2>4, <2>5, <3>1
  <2>6. CASE r.mode \notin {"incomplete", "long"}
    <3>1. backlog' = Tail(backlog) /\ server' = [at |-> "replying", to |-> p, next |-> 0]
      BY <1>8, <2>1, <2>6 DEF Handle
    <3>2. PICK n : n = Len(backlog)
      OBVIOUS
    <3>3. /\ Len(backlog') = n - 1
          /\ \A j \in 1 .. n - 1 : backlog'[j] = backlog[j + 1] /\ j + 1 \in 1 .. n
      BY <1>1, <2>1, <2>2, <3>1, <3>2, Unqueued
    <3>4. ASSUME NEW j \in 1 .. n - 1,
                 \/ backlog'[j].asks.mode \in {"incomplete", "long"}
                 \/ conn'[backlog'[j].from] # "open"
          PROVE  broken'
      BY <2>2, <3>2, <3>3, <3>4 DEF BrokenInv
    <3>5. \A q : Serving(q)' => q = p
      BY <3>1 DEF Serving
    <3>6. server'.at # "dead"
      BY <3>1
    <3> QED BY <2>2, <2>4, <3>3, <3>4, <3>5, <3>6 DEF BrokenInv
  <2> QED BY <2>5, <2>6
<1>9. CASE Send
  <2>1. PICK p : p = server.to
    OBVIOUS
  <2>2. Serving(p) /\ broken' = broken /\ server.at = "replying"
    BY <1>9, <2>1 DEF Send, Serving
  <2>3. p \in Pages
    BY <1>1, <2>1 DEF Typed
  <2>4. conn[p] # "open" => broken
    BY <2>2, <2>3 DEF BrokenInv
  <2>5. CASE conn[p] = "reset"
    <3>1. Dies /\ UNCHANGED <<conn, broken>>
      BY <1>9, <2>1, <2>5 DEF Send
    <3> QED BY <1>7, <2>4, <2>5, <3>1
  <2>6. CASE conn[p] # "reset"
    <3>1. PICK c :
            /\ conn' = [conn EXCEPT ![p] = IF @ = "open" THEN @ ELSE c]
            /\ backlog' = backlog
      BY <1>9, <2>1, <2>6 DEF Send
    <3>2. server'.to = server.to /\ server'.at # "dead"
      <4>1. /\ server \in [at : {"accepting", "replying", "dead"}, to : Pages,
                            next : 0 .. Len(Tables)]
            /\ server' = IF server.next = Len(Tables)
                         THEN [server EXCEPT !.at = "accepting", !.next = 0]
                         ELSE [server EXCEPT !.next = @ + 1]
        BY <1>1, <1>9, <2>1, <2>6 DEF Send, Typed
      <4> QED BY <2>2, <4>1
    <3>3. CASE conn[p] = "open"
      <4>1. conn' = conn
        BY <1>2, <3>1, <3>3
      <4>2. \A q : Serving(q)' => Serving(q)
        BY <2>2, <3>2 DEF Serving
      <4> QED BY <2>2, <3>1, <3>2, <4>1, <4>2 DEF BrokenInv
    <3>4. CASE conn[p] # "open"
      BY <2>2, <2>4, <3>4 DEF BrokenInv
    <3> QED BY <3>3, <3>4
  <2> QED BY <2>5, <2>6
<1>10. CASE StartServer
  <2>1. backlog' = backlog /\ backlog = <<>> /\ server'.at = "accepting"
    BY <1>1, <1>10 DEF StartServer, BacklogInv, Typed
  <2>2. Len(backlog') = 0
    BY <2>1
  <2> QED BY <2>1, <2>2 DEF BrokenInv, Serving
<1>11. CASE UNCHANGED vars
  BY <1>11 DEF vars, BrokenInv, Serving
<1> QED BY <1>4, <1>5, <1>6, <1>8, <1>9, <1>10, <1>11 DEF Next

-----------------------------------------------------------------------------
\* The entries without a mask that a table starts with, where they are in a list.
Stays(start, list) ==
  \E at \in Bijection(Maskless(start), Maskless(list)) :
    \A i, j \in Maskless(start) :
      /\ list[at[i]] = start[i]
      /\ i < j => at[i] < at[j]

\* What is to be shown of at, to have that it is such a place.
LEMMA StaysIf ==
  ASSUME NEW start, NEW list, NEW at \in [Maskless(start) -> Maskless(list)],
         \A i \in Maskless(start) : list[at[i]] = start[i],
         \A i, j \in Maskless(start) : at[i] = at[j] => i = j,
         \A i, j \in Maskless(start) : i < j => at[i] < at[j],
         \A y \in Maskless(list) : \E i \in Maskless(start) : at[i] = y
  PROVE  Stays(start, list)
<1> DEFINE S == Maskless(start)
           T == Maskless(list)
<1>1. at \in Injection(S, T)
  BY DEF Injection, IsInjective
<1>2. at \in Surjection(S, T)
  BY DEF Surjection
<1>3. at \in Bijection(S, T)
  BY <1>1, <1>2 DEF Bijection
<1> QED BY <1>3 DEF Stays

\* And what there is to know of it.
LEMMA StaysAt ==
  ASSUME NEW start, NEW list, Stays(start, list)
  PROVE  \E at \in [Maskless(start) -> Maskless(list)] :
           /\ \A i \in Maskless(start) : list[at[i]] = start[i]
           /\ \A i, j \in Maskless(start) : at[i] = at[j] => i = j
           /\ \A i, j \in Maskless(start) : i < j => at[i] < at[j]
           /\ \A y \in Maskless(list) : \E i \in Maskless(start) : at[i] = y
<1> DEFINE S == Maskless(start)
           T == Maskless(list)
<1>1. PICK at \in Bijection(S, T) :
        \A i, j \in S : /\ list[at[i]] = start[i]
                        /\ i < j => at[i] < at[j]
  BY DEF Stays
<1>2. at \in Injection(S, T) /\ at \in Surjection(S, T)
  BY <1>1 DEF Bijection
<1>3. /\ at \in [S -> T]
      /\ \A i, j \in S : at[i] = at[j] => i = j
  BY <1>2 DEF Injection, IsInjective
<1>4. \A y \in T : \E i \in S : at[i] = y
  BY <1>2 DEF Surjection
<1> HIDE DEF S, T
<1>5. \A i \in S : list[at[i]] = start[i]
  BY <1>1
<1>6. \A i, j \in S : i < j => at[i] < at[j]
  BY <1>1
<1> QED BY <1>3, <1>4, <1>5, <1>6 DEF S, T

\* All of them stay in place at the start.
LEMMA StaysAtStart == ASSUME NEW list PROVE Stays(list, list)
<1> DEFINE S == Maskless(list)
<1>1. PICK at : at = [i \in S |-> i]
  OBVIOUS
<1>2. at \in [S -> S] /\ \A i \in S : at[i] = i
  BY <1>1
<1> HIDE DEF S
<1>3. /\ \A i \in S : list[at[i]] = list[i]
      /\ \A i, j \in S : at[i] = at[j] => i = j
      /\ \A i, j \in S : i < j => at[i] < at[j]
      /\ \A y \in S : \E i \in S : at[i] = y
  BY <1>2
<1> QED BY <1>2, <1>3, StaysIf DEF S

\* A list with the same entries without a mask, at the same places.
LEMMA StaysAlike ==
  ASSUME NEW start, NEW list, Stays(start, list), NEW new,
         Maskless(new) = Maskless(list),
         \A j \in Maskless(list) : new[j] = list[j]
  PROVE  Stays(start, new)
<1>1. PICK at \in [Maskless(start) -> Maskless(list)] :
        /\ \A i \in Maskless(start) : list[at[i]] = start[i]
        /\ \A i, j \in Maskless(start) : at[i] = at[j] => i = j
        /\ \A i, j \in Maskless(start) : i < j => at[i] < at[j]
        /\ \A y \in Maskless(list) : \E i \in Maskless(start) : at[i] = y
  BY StaysAt
<1>2. \A i \in Maskless(start) : new[at[i]] = start[i]
  BY <1>1
<1>3. at \in [Maskless(start) -> Maskless(new)]
  OBVIOUS
<1>4. \A y \in Maskless(new) : \E i \in Maskless(start) : at[i] = y
  BY <1>1
<1> QED BY <1>1, <1>2, <1>3, <1>4, StaysIf

\* An entry with a mask is put behind them.
LEMMA StaysAdded ==
  ASSUME NEW start, NEW list \in Seq(Entry), Stays(start, list),
         NEW new, NEW e \in Entry, e.masked, new = Append(list, e)
  PROVE  Stays(start, new)
<1>1. PICK n : n = Len(list)
  OBVIOUS
<1>2. n \in Nat /\ DOMAIN list = 1 .. n
  BY <1>1
<1>3. DOMAIN new = 1 .. n + 1 /\ new[n + 1] = e
  BY <1>1
<1>4. \A j \in 1 .. n : new[j] = list[j]
  BY <1>1
<1>5. \A j \in 1 .. n + 1 : j \in 1 .. n \/ j = n + 1
  BY <1>2
<1>6. \A j \in 1 .. n : j \in 1 .. n + 1
  BY <1>2
<1>7. Maskless(new) = Maskless(list)
  BY <1>2, <1>3, <1>4, <1>5, <1>6 DEF Maskless
<1>8. \A j \in Maskless(list) : new[j] = list[j]
  BY <1>2, <1>4 DEF Maskless
<1> QED BY <1>7, <1>8, StaysAlike

\* An entry with a mask is taken from between them.
LEMMA StaysWithout ==
  ASSUME NEW start, NEW list \in Seq(Entry), Stays(start, list),
         NEW new \in Seq(Entry), NEW k \in 1 .. Len(list), list[k].masked,
         Len(new) = Len(list) - 1,
         \A j \in 1 .. k - 1 : new[j] = list[j],
         \A j \in k .. Len(new) : new[j] = list[j + 1]
  PROVE  Stays(start, new)
<1>1. PICK n : n = Len(list)
  OBVIOUS
<1>2. n \in Nat /\ k \in 1 .. n /\ DOMAIN list = 1 .. n /\ DOMAIN new = 1 .. n - 1
  BY <1>1
<1>3. /\ \A j \in 1 .. n - 1 : j < k => new[j] = list[j] /\ j \in 1 .. n /\ j # k
      /\ \A j \in 1 .. n - 1 : ~(j < k) => new[j] = list[j + 1] /\ j + 1 \in 1 .. n /\ j + 1 # k
  BY <1>1, <1>2
<1> DEFINE down(x) == IF x < k THEN x ELSE x - 1
<1>4. ASSUME NEW x \in Maskless(list)
      PROVE  x \in 1 .. n /\ x # k /\ down(x) \in 1 .. n - 1 /\ new[down(x)] = list[x]
  <2>1. x \in 1 .. n /\ x # k
    BY <1>2 DEF Maskless
  <2>2. CASE x < k
    <3>1. x \in 1 .. n - 1
      BY <1>2, <2>1, <2>2
    <3> QED BY <1>3, <2>1, <2>2, <3>1
  <2>3. CASE ~(x < k)
    <3>1. x - 1 \in 1 .. n - 1 /\ ~(x - 1 < k) /\ (x - 1) + 1 = x
      BY <1>2, <2>1, <2>3
    <3> QED BY <1>3, <2>1, <2>3, <3>1
  <2> QED BY <2>2, <2>3
<1>5. \A x \in Maskless(list) : down(x) \in Maskless(new)
  BY <1>2, <1>4 DEF Maskless
<1>6. ASSUME NEW x \in Maskless(list), NEW y \in Maskless(list)
      PROVE  (down(x) = down(y) => x = y) /\ (x < y => down(x) < down(y))
  BY <1>2, <1>4
<1>7. ASSUME NEW y \in Maskless(new) PROVE \E x \in Maskless(list) : down(x) = y
  <2>1. y \in 1 .. n - 1 /\ ~new[y].masked
    BY <1>2 DEF Maskless
  <2>2. CASE y < k
    <3>1. y \in Maskless(list) /\ down(y) = y
      BY <1>2, <1>3, <2>1, <2>2 DEF Maskless
    <3> QED BY <3>1
  <2>3. CASE ~(y < k)
    <3>1. y + 1 \in Maskless(list)
      BY <1>2, <1>3, <2>1, <2>3 DEF Maskless
    <3>2. down(y + 1) = y
      BY <1>2, <2>1, <2>3
    <3> QED BY <3>1, <3>2
  <2> QED BY <2>2, <2>3
<1> HIDE DEF down
<1>8. PICK at \in [Maskless(start) -> Maskless(list)] :
        /\ \A i \in Maskless(start) : list[at[i]] = start[i]
        /\ \A i, j \in Maskless(start) : at[i] = at[j] => i = j
        /\ \A i, j \in Maskless(start) : i < j => at[i] < at[j]
        /\ \A y \in Maskless(list) : \E i \in Maskless(start) : at[i] = y
  BY StaysAt
<1>9. PICK to : to = [i \in Maskless(start) |-> down(at[i])]
  OBVIOUS
<1>10. to \in [Maskless(start) -> Maskless(new)] /\ \A i \in Maskless(start) : to[i] = down(at[i])
  BY <1>5, <1>8, <1>9
<1>11. \A i \in Maskless(start) : new[to[i]] = start[i]
  BY <1>4, <1>8, <1>10
<1>12. \A i, j \in Maskless(start) : to[i] = to[j] => i = j
  BY <1>6, <1>8, <1>10
<1>13. \A i, j \in Maskless(start) : i < j => to[i] < to[j]
  BY <1>6, <1>8, <1>10
<1>14. \A y \in Maskless(new) : \E i \in Maskless(start) : to[i] = y
  BY <1>7, <1>8, <1>10
<1> QED BY <1>10, <1>11, <1>12, <1>13, <1>14, StaysIf

\* What a request does to a list leaves them.
LEMMA StaysEdited ==
  ASSUME Typed, NEW r \in Requests, NEW t \in Names, NEW start, Stays(start, entries[t])
  PROVE  Stays(start, Edited(r)[t])
<1>1. PICK old, new : old = entries[t] /\ new = Edited(r)[t]
  OBVIOUS
<1>2. /\ old \in Seq(Entry) /\ new \in Seq(Entry) /\ Stays(start, old)
      /\ \/ new = old
         \/ r.mode = "add" /\ new = Append(old, [id |-> r.id, masked |-> TRUE])
         \/ new = Removed(old, r.id)
  BY <1>1, EditedLists DEF Typed
<1>3. CASE new = old
  BY <1>1, <1>2, <1>3
<1>4. CASE r.mode = "add" /\ new = Append(old, [id |-> r.id, masked |-> TRUE])
  <2>1. PICK e : e = [id |-> r.id, masked |-> TRUE]
    OBVIOUS
  <2>2. e \in Entry /\ e.masked
    BY <1>4, <2>1, RequestParts DEF Entry
  <2>3. new = Append(old, e)
    BY <1>4, <2>1
  <2> QED BY <1>1, <1>2, <2>2, <2>3, StaysAdded
<1>5. CASE new = Removed(old, r.id)
  <2>1. \/ new = old
        \/ \E k \in 1 .. Len(old) :
             /\ old[k].masked
             /\ Len(new) = Len(old) - 1
             /\ \A j \in 1 .. k - 1 : new[j] = old[j]
             /\ \A j \in k .. Len(new) : new[j] = old[j + 1]
    <3>1. old \in Seq(Entry)
      BY <1>2
    <3> QED BY <1>5, <3>1, RemovedOne
  <2>2. CASE new # old
    <3>1. PICK k \in 1 .. Len(old) :
            /\ old[k].masked
            /\ Len(new) = Len(old) - 1
            /\ \A j \in 1 .. k - 1 : new[j] = old[j]
            /\ \A j \in k .. Len(new) : new[j] = old[j + 1]
      BY <2>1, <2>2
    <3>2. Stays(start, new)
      BY <1>2, <3>1, StaysWithout
    <3> QED BY <1>1, <3>2
  <2> QED BY <1>3, <2>2
<1> QED BY <1>2, <1>3, <1>4, <1>5

-----------------------------------------------------------------------------
\* The lists after a step are those the server starts with, or as a request leaves them.
LEMMA ListsStep ==
  ASSUME Typed, [Next]_vars
  PROVE  \/ entries' = entries
         \/ entries' = Initial
         \/ \E r \in Requests : entries' = Edited(r)
<1>1. CASE Handle
  <2>1. PICK r : r = Head(backlog).asks
    OBVIOUS
  <2>2. r \in Requests
    <3>1. backlog \in Seq([from : Pages, asks : Requests]) /\ backlog # <<>>
      BY <1>1 DEF Handle, Typed
    <3>2. Head(backlog) = backlog[1] /\ 1 \in 1 .. Len(backlog)
      BY <3>1
    <3>3. backlog[1] \in [from : Pages, asks : Requests]
      BY <3>1, <3>2, ElementOfSeq
    <3>4. backlog[1].asks \in Requests
      BY <3>3
    <3> QED BY <2>1, <3>2, <3>4
  <2>3. entries' = entries \/ entries' = Edited(r)
    BY <1>1, <2>1 DEF Handle
  <2> QED BY <2>2, <2>3
<1>2. CASE ~Handle
  BY <1>2 DEF Next, Recv, Get, WorkerEnds, Send, StartServer, plane, vars
<1> QED BY <1>1, <1>2

\* The entries without a mask stay in every step.
LEMMA MasklessStep == Typed /\ MasklessStay /\ [Next]_vars => MasklessStay'
<1> SUFFICES ASSUME Typed, MasklessStay, [Next]_vars PROVE MasklessStay'
  OBVIOUS
<1>1. \A t \in Names : Stays(Initial[t], entries[t])
  BY DEF MasklessStay, Stays
<1>2. ASSUME NEW t \in Names PROVE Stays(Initial[t], entries'[t])
  BY <1>1, ListsStep, StaysEdited, StaysAtStart
<1> QED BY <1>2 DEF MasklessStay, Stays

\* The start of the other two.
LEMMA InitMore == Init => BrokenInv /\ MasklessStay
<1> SUFFICES ASSUME Init PROVE BrokenInv /\ MasklessStay
  OBVIOUS
<1>1. server.at = "accepting" /\ backlog = <<>> /\ entries = Initial
  BY DEF Init
<1>2. Len(backlog) = 0
  BY <1>1
<1>3. BrokenInv
  BY <1>1, <1>2 DEF BrokenInv, Serving
<1>4. \A t \in Names : Stays(Initial[t], entries[t])
  BY <1>1, StaysAtStart
<1> QED BY <1>3, <1>4 DEF MasklessStay, Stays

\* What the property says of the types.
LEMMA InvTypeOK == EntriesInv => TypeOK
<1> SUFFICES ASSUME EntriesInv PROVE TypeOK
  OBVIOUS
<1>1. Typed /\ \A p \in Pages : PageInv(p)
  BY DEF EntriesInv, PagesInv
<1>2. \A t \in Names : entries[t] \in BoundedSeq(Entry, MaxEntries)
  <2>1. \A t \in Names : entries[t] \in Seq(Entry) /\ Len(entries[t]) <= MaxEntries
    BY <1>1 DEF Typed
  <2> QED BY <2>1, Bounded, UnitsAssumption
<1>3. \A i \in DOMAIN backlog : backlog[i] \in [from : Pages, asks : Requests]
  <2>1. backlog \in Seq([from : Pages, asks : Requests])
    BY <1>1 DEF Typed
  <2>2. DOMAIN backlog = 1 .. Len(backlog)
    BY <2>1
  <2> QED BY <2>1, <2>2, ElementOfSeq
<1>4. ASSUME NEW p \in Pages
      PROVE  Len(page[p].has) <= Len(Tables) + 1 /\ Len(stream[p]) <= Len(Tables) + 1
  <2>1. PICK a, b, n : a = Len(page[p].has) /\ b = Len(stream[p]) /\ n = Len(Tables)
    OBVIOUS
  <2>2. a \in Nat /\ b \in Nat /\ n \in Nat /\ Sent(p) \in 0 .. n + 1
    BY <1>1, <2>1, PageTyped
  <2>3. CASE page[p].at = "reading"
    <3>1. a + b <= Sent(p)
      BY <1>1, <2>1, <2>3 DEF PageInv, Held
    <3>2. a <= n + 1 /\ b <= n + 1
      BY <2>2, <3>1
    <3> QED BY <2>1, <3>2
  <2>4. CASE page[p].at = "shown"
    <3>1. a = n + 1 /\ b = 0
      BY <1>1, <2>1, <2>4 DEF PageInv
    <3> QED BY <2>1, <2>2, <3>1
  <2>5. CASE page[p].at = "none"
    <3>1. a = 0 /\ b = 0
      BY <1>1, <2>1, <2>5 DEF PageInv
    <3> QED BY <2>1, <2>2, <3>1
  <2> QED BY <1>1, <2>3, <2>4, <2>5, PageTyped
<1>5. ASSUME NEW p \in Pages
      PROVE  /\ page[p].at \in {"none", "reading", "shown"}
             /\ page[p].asks \in Requests /\ DOMAIN page[p].reply = Names
  BY <1>1, PageTyped
<1>6. DOMAIN entries = Names
  BY <1>1 DEF Typed
<1> QED BY <1>1, <1>2, <1>3, <1>4, <1>5, <1>6 DEF TypeOK, Typed

\* A page that is shown has the tables and their lists.
LEMMA InvShown == EntriesInv => ShownAsServed
<1> SUFFICES ASSUME EntriesInv PROVE ShownAsServed
  OBVIOUS
<1>1. Typed /\ \A p \in Pages : PageInv(p)
  BY DEF EntriesInv, PagesInv
<1>2. ASSUME NEW p \in Pages, page[p].at = "shown"
      PROVE  page[p].has = <<Tables>> \o [i \in 1 .. Len(Tables) |-> page[p].reply[Tables[i]]]
  <2>1. PICK h, n : h = page[p].has /\ n = Len(Tables)
    OBVIOUS
  <2>2. h \in Seq(Bodies) /\ n \in Nat /\ page[p].reply \in [Names -> Seq(Entry)]
    BY <1>1, <2>1, PageTyped
  <2>3. Len(h) = n + 1 /\ \A k \in 1 .. n + 1 : h[k] = Pickled(p, k)
    BY <1>1, <1>2, <2>1 DEF PageInv, Matches
  <2>4. PICK lists : lists = [i \in 1 .. n |-> page[p].reply[Tables[i]]]
    OBVIOUS
  <2>5. lists \in Seq(Bodies) /\ Len(lists) = n
    <3>1. \A i \in 1 .. n : Tables[i] \in Names
      BY <2>1, PagesAssumption, ElementOfSeq
    <3>2. \A i \in 1 .. n : page[p].reply[Tables[i]] \in Bodies
      BY <2>2, <3>1 DEF Bodies
    <3> QED BY <2>2, <2>4, <3>2
  <2>6. <<Tables>> \in Seq(Bodies) /\ Len(<<Tables>>) = 1 /\ <<Tables>>[1] = Tables
    BY DEF Bodies
  <2>7. PICK first : first = <<Tables>>
    OBVIOUS
  <2>8. first \in Seq(Bodies) /\ Len(first) = 1 /\ first[1] = Tables
    BY <2>6, <2>7
  <2>9. /\ first \o lists \in Seq(Bodies) /\ Len(first \o lists) = 1 + n
        /\ \A k \in 1 .. 1 + n :
             (first \o lists)[k] = IF k <= 1 THEN first[k] ELSE lists[k - 1]
    <3>1. /\ first \o lists \in Seq(Bodies) /\ Len(first \o lists) = Len(first) + Len(lists)
          /\ \A k \in 1 .. Len(first) + Len(lists) :
               (first \o lists)[k] = IF k <= Len(first) THEN first[k] ELSE lists[k - Len(first)]
      BY <2>5, <2>8, ConcatProperties
    <3> QED BY <2>5, <2>8, <3>1
  <2>10. ASSUME NEW k \in 1 .. n + 1 PROVE (first \o lists)[k] = h[k]
    <3>1. CASE k = 1
      BY <2>2, <2>3, <2>8, <2>9, <3>1 DEF Pickled
    <3>2. CASE k # 1
      <4>1. k - 1 \in 1 .. n /\ ~(k <= 1) /\ k \in 1 .. 1 + n
        BY <2>2, <3>2
      <4>2. (first \o lists)[k] = lists[k - 1]
        BY <2>9, <4>1
      <4>3. lists[k - 1] = page[p].reply[Tables[k - 1]]
        BY <2>4, <4>1
      <4> QED BY <2>3, <3>2, <4>2, <4>3 DEF Pickled
    <3> QED BY <3>1, <3>2
  <2>11. Len(first \o lists) = Len(h)
    BY <2>2, <2>3, <2>9
  <2>12. first \o lists = h
    BY <2>2, <2>3, <2>9, <2>10, <2>11, SeqEqual
  <2> QED BY <2>1, <2>4, <2>7, <2>12
<1>3. \A p \in Pages : page[p].at = "shown" => AddSeen(p)
  BY <1>1 DEF PageInv
<1> QED BY <1>2, <1>3, InvTypeOK DEF ShownAsServed, AddSeen

\* The invariant of every behavior.
LEMMA EntriesInvariant == Spec => [](EntriesInv /\ BrokenInv /\ MasklessStay)
<1>1. Init => EntriesInv /\ BrokenInv /\ MasklessStay
  BY InitEntries, InitMore
<1>2. EntriesInv => Typed
  BY DEF EntriesInv
<1>3. EntriesInv /\ BrokenInv /\ MasklessStay /\ [Next]_vars
        => EntriesInv' /\ BrokenInv' /\ MasklessStay'
  BY <1>2, EntriesInductive, BrokenStep, MasklessStep
<1> QED BY <1>1, <1>3, PTL DEF Spec

(***************************************************************************)
(* A page of entries that is shown has the tables and the list of each, as *)
(* the server had them when it had done what the page asked, whatever recv *)
(* joined or cut (entries in dashboard/views.py).                          *)
(***************************************************************************)
THEOREM ShownAsServedHolds == Spec => []ShownAsServed
BY EntriesInvariant, InvShown, PTL

(***************************************************************************)
(* The server of dummy_ctrl_plane_connection.py dies only after a page has *)
(* failed under it, was cut off, or sent a request it cannot read.         *)
(***************************************************************************)
THEOREM UpWhileShownHolds == Spec => []UpWhileShown
<1>1. BrokenInv => UpWhileShown
  BY DEF BrokenInv, UpWhileShown
<1> QED BY <1>1, EntriesInvariant, PTL

(***************************************************************************)
(* The entries the exact table starts with, which have no mask, are there  *)
(* for as long as the server runs: no delete of the page removes one.      *)
(***************************************************************************)
THEOREM MasklessStayHolds == Spec => []MasklessStay
BY EntriesInvariant, PTL

=============================================================================
