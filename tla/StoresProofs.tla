---------------------------- MODULE StoresProofs ----------------------------
(***************************************************************************)
(* Whatever clients ask for at the same time, however their calls fail and *)
(* whenever the process dies, every call of a store is done at one moment: *)
(* Stores implements AtomicStore, for any clients, names and definitions.  *)
(***************************************************************************)
EXTENDS Stores, TLAPS

Places == {"idle", "call", "locked", "open", "writing", "return"}

\* The types of the variables; only a file can be left unreadable.
Types ==
  /\ backend \in {"file", "directory", "database", "default"} /\ ofSources \in BOOLEAN
  /\ file \in Content \cup {Unreadable} /\ lock \in Client \cup {None}
  /\ pc \in [Client -> Places] /\ request \in [Client -> AnyRequest \cup {NoRequest}]
  /\ image \in [Client -> Content] /\ item \in [Client -> Name \cup {None}]
  /\ backend # "file" => file # Unreadable

\* What the mutex promises one client.  Only a YAML store has a lock, a copy and
\* a half-written file.
Exclusive(c) ==
  /\ pc[c] = "idle" <=> request[c] = NoRequest
  /\ pc[c] \in {"locked", "open", "writing"} => lock = c
  /\ pc[c] = "writing" => file = Empty
  /\ lock = c => pc[c] \notin {"idle", "call"}
  /\ pc[c] \in {"locked", "open"} => backend \in {"file", "directory"}
  /\ pc[c] = "writing" => backend = "file"

\* A request whose call is under way has not failed yet, and a GET has all left
\* to read of the store, or of the database's second table.
CallOpen(c) == request[c] # NoRequest =>
    /\ pc[c] # "return" => request[c].outcome = "ok"
    /\ request[c].op = "get" =>
         /\ pc[c] \notin {"open", "writing"}
         /\ pc[c] = "call" /\ backend = "database" => request[c].todo \in {Held, Preset}
         /\ pc[c] \in {"call", "locked"} /\ backend # "database" => request[c].todo = Held
         /\ pc[c] = "return" /\ request[c].outcome = "ok" => request[c].todo = {}

\* The copy about to be written is the file with the one change, for as long as
\* the lock is held: nobody changes the file under it.
CopyCurrent(c) == pc[c] = "open" =>
    /\ file # Unreadable /\ item[c] \in request[c].todo
    /\ image[c] = Edited(c, item[c], Expanded(file))
    /\ request[c].op = "create" => file[item[c]] = Absent

\* The inductive invariant.
IInv == Types /\ \A c \in Client : Exclusive(c) /\ CallOpen(c) /\ CopyCurrent(c)

\* A step of one client leaves the others alone: the file changes only while no
\* other client has read it or is writing it.
LEMMA OneClientSteps ==
  ASSUME IInv, NEW c \in Client, Types', backend' = backend, ofSources' = ofSources,
         \A d \in Client \ {c} : /\ pc'[d] = pc[d] /\ request'[d] = request[d]
                                 /\ item'[d] = item[d] /\ image'[d] = image[d],
         file' = file \/ \A d \in Client \ {c} : pc[d] \notin {"open", "writing"},
         lock' = lock \/ (lock = c /\ lock' = None) \/ (lock = None /\ lock' = c),
         Exclusive(c)', CallOpen(c)', CopyCurrent(c)'
  PROVE  IInv'
<1> SUFFICES ASSUME NEW d \in Client, d # c
             PROVE  Exclusive(d)' /\ CallOpen(d)' /\ CopyCurrent(d)'
  BY DEF IInv
<1>1. Exclusive(d) /\ CallOpen(d) /\ CopyCurrent(d) /\ Exclusive(c)  BY DEF IInv
<1>2. Exclusive(d)'  BY <1>1, StoresAssumption DEF Exclusive
<1>3. CallOpen(d)'  BY <1>1 DEF CallOpen, Held
<1>4. ASSUME pc[d] = "open" PROVE CopyCurrent(d)'
  <2>1. file' = file  BY <1>4
  <2>2. Expanded(file)' = Expanded(file)  BY <2>1 DEF Expanded, Expand
  <2> QED  BY <1>1, <1>4, <2>1, <2>2 DEF CopyCurrent, Edited
<1>5. ASSUME pc[d] # "open" PROVE CopyCurrent(d)'  BY <1>5 DEF CopyCurrent
<1> QED  BY <1>2, <1>3, <1>4, <1>5

-----------------------------------------------------------------------------
(* Contents and requests.                                                  *)

LEMMA EmptyType == Empty \in Content /\ Empty # Unreadable
BY StoresAssumption DEF Empty, Content

LEMMA ExpandType == \A v \in Stored \cup {Absent} : Expand(v) \in Stored \cup {Absent}
BY DEF Expand, Stored

LEMMA ExpandedType == \A s \in Content : Expanded(s) \in Content /\ Expanded(s) # Unreadable
BY ExpandType, StoresAssumption DEF Expanded, Content

LEMMA EditedType ==
  ASSUME NEW c \in Client, request[c] \in AnyRequest, NEW n \in Name, NEW s \in Content
  PROVE  Edited(c, n, s) \in Content
<1>1. request[c].value \in Stored \cup {Absent}  BY DEF AnyRequest, Stored
<1> QED  BY <1>1 DEF Edited, Content

LEMMA CutType == \A s \in Content : Cut(s) \subseteq Content \cup {Unreadable}
BY DEF Cut, Content

\* How a request goes on.
LEMMA RequestGoesOn ==
  ASSUME NEW r \in AnyRequest
  PROVE  /\ \A o \in {"ok", "exists", "error"} : [r EXCEPT !.outcome = o] \in AnyRequest
         /\ \A T \in SUBSET Name : [r EXCEPT !.todo = T] \in AnyRequest
         /\ \A T \in SUBSET Name, S \in Content : [r EXCEPT !.todo = T, !.seen = S] \in AnyRequest
BY DEF AnyRequest

\* What the handlers ask for.
LEMMA RequestsAre ==
  ASSUME NEW r \in Requests
  PROVE  \E op \in {"get", "create", "update", "delete"}, S \in SUBSET Name, v \in Value \cup {Absent} :
           /\ r = NewRequest(op, S, v) /\ (v = Absent <=> op \in {"get", "delete"})
           /\ op = "get" => S = Held
<1>1. SUBSET Metric \subseteq SUBSET Name /\ SUBSET Preset \subseteq SUBSET Name
  BY DEF Name
<1>2. \/ r = NewRequest("get", Held, Absent)
      \/ \E S \in SUBSET Name, v \in Value : r = NewRequest("create", S, v)
      \/ \E S \in SUBSET Name, v \in Value : r = NewRequest("update", S, v)
      \/ \E S \in SUBSET Name : r = NewRequest("delete", S, Absent)
  <2>1. CASE r \in handleMetrics \cup handlePresets
    BY <1>1, <2>1 DEF handleMetrics, handlePresets
  <2>2. CASE r \in handleSources
    <3>1. CASE r \in {NewRequest("create", {n}, v) : n \in Metric, v \in Value}
      <4>1. PICK n \in Metric, v \in Value : r = NewRequest("create", {n}, v)  BY <3>1
      <4>2. {n} \in SUBSET Name  BY DEF Name
      <4> QED  BY <4>1, <4>2
    <3> QED  BY <2>2, <3>1 DEF handleSources
  <2>3. CASE r \in Item(Metric) \cup Item(Preset)
    <3>1. PICK M \in {Metric, Preset} : r \in Item(M)  BY <2>3
    <3> DEFINE puts    == {NewRequest("update", {n}, v) : n \in M, v \in Value}
    <3> DEFINE deletes == {NewRequest("delete", {n}, Absent) : n \in M}
    <3>2. CASE r \in puts
      <4>1. PICK n \in M, v \in Value : r = NewRequest("update", {n}, v)  BY <3>2
      <4>2. {n} \in SUBSET Name  BY <3>1 DEF Name
      <4> QED  BY <4>1, <4>2
    <3>3. CASE r \in deletes
      <4>1. PICK n \in M : r = NewRequest("delete", {n}, Absent)  BY <3>3
      <4>2. {n} \in SUBSET Name  BY <3>1 DEF Name
      <4> QED  BY <4>1, <4>2
    <3>4. Item(M) = {NewRequest("get", Held, Absent)} \cup puts \cup deletes  BY DEF Item
    <3> HIDE DEF puts, deletes
    <3> QED  BY <3>1, <3>2, <3>3, <3>4
  <2> QED
    BY <2>1, <2>2, <2>3 DEF Requests, handleMetricItem, handlePresetItem, handleSourceItem
<1>3. Held \in SUBSET Name  BY DEF Held, Name
<1> QED  BY <1>2, <1>3, StoresAssumption

LEMMA RequestsType ==
  ASSUME NEW r \in Requests
  PROVE  /\ r \in AnyRequest /\ r # NoRequest /\ r.outcome = "ok"
         /\ r.op = "get" => r.todo = Held
<1>1. PICK op \in {"get", "create", "update", "delete"}, S \in SUBSET Name, v \in Value \cup {Absent} :
        r = NewRequest(op, S, v) /\ (op = "get" => S = Held)
  BY RequestsAre
<1>2. r.op = op /\ r.todo = S /\ r.outcome = "ok" /\ r \in AnyRequest
  BY <1>1, EmptyType DEF NewRequest, AnyRequest
<1> QED  BY <1>1, <1>2, StoresAssumption

\* A store as it was set up satisfies the invariant.
LEMMA InitIInv == Init => IInv
<1> SUFFICES ASSUME Init PROVE IInv  OBVIOUS
<1>1. file \in Content /\ file # Unreadable
  BY StoresAssumption DEF Init, Content, Stored
<1>2. Types  BY <1>1, EmptyType DEF Init, Types, Places
<1>3. \A c \in Client : Exclusive(c) /\ CallOpen(c) /\ CopyCurrent(c)
  BY StoresAssumption DEF Init, Exclusive, CallOpen, Held, CopyCurrent
<1> QED  BY <1>2, <1>3 DEF IInv

-----------------------------------------------------------------------------
(* The steps.                                                              *)

\* The end of a call, well or not, that has changed nothing but its request.
LEMMA CallEndsKeeps ==
  ASSUME IInv, NEW c \in Client, NEW o \in {"exists", "error"}, CallEnds(c, o), pc[c] # "idle",
         UNCHANGED <<backend, ofSources, lock, item, image>>,
         file' \in Content \cup {Unreadable}, backend # "file" => file' # Unreadable,
         file' = file \/ pc[c] = "writing"
  PROVE  IInv'
<1>1. Types /\ Exclusive(c)  BY DEF IInv
<1>2. request[c] \in AnyRequest  BY <1>1 DEF Types, Exclusive
<1> DEFINE r == [request[c] EXCEPT !.outcome = o]
<1>3. r \in AnyRequest /\ r.outcome = o  BY <1>2, RequestGoesOn DEF AnyRequest
<1>4. request' = [request EXCEPT ![c] = r] /\ pc' = [pc EXCEPT ![c] = "return"]
  BY <1>1 DEF CallEnds, Types
<1> HIDE DEF r
<1>5. Types'  BY <1>1, <1>3, <1>4 DEF Types, Places
<1>6. pc'[c] = "return" /\ request'[c] = r  BY <1>1, <1>4 DEF Types
<1>7. r # NoRequest /\ r.outcome # "ok"  BY <1>3, StoresAssumption
<1>8. Exclusive(c)' /\ CallOpen(c)' /\ CopyCurrent(c)'
  BY <1>1, <1>6, <1>7 DEF Exclusive, CallOpen, Held, CopyCurrent
<1>9. \A d \in Client \ {c} : pc'[d] = pc[d] /\ request'[d] = request[d]  BY <1>1, <1>4 DEF Types
<1>10. file' = file \/ \A d \in Client \ {c} : pc[d] \notin {"open", "writing"}
  BY <1>1 DEF IInv, Exclusive
<1> QED  BY <1>5, <1>8, <1>9, <1>10, OneClientSteps

\* A read takes what it sees out of what is left to read.
LEMMA SeeType ==
  ASSUME IInv, NEW c \in Client, request[c] # NoRequest, NEW P, NEW S, file # Unreadable, See(c, P, S)
  PROVE  /\ request' = [request EXCEPT ![c] = request'[c]]
         /\ request'[c] \in AnyRequest /\ request'[c] # NoRequest
         /\ request'[c].todo = request[c].todo \ P
         /\ request'[c].op = request[c].op /\ request'[c].value = request[c].value
         /\ request'[c].outcome = request[c].outcome
         /\ request'[c].seen = [n \in Name |-> IF n \in S THEN Expanded(file)[n] ELSE request[c].seen[n]]
<1>1. Types  BY DEF IInv
<1>2. request[c] \in AnyRequest /\ file \in Content  BY <1>1 DEF Types
<1> DEFINE T == request[c].todo \ P
<1> DEFINE q == [n \in Name |-> IF n \in S THEN Expanded(file)[n] ELSE request[c].seen[n]]
<1>3. T \in SUBSET Name /\ q \in Content
  BY <1>2, ExpandedType DEF AnyRequest, Content
<1> HIDE DEF T, q
<1> DEFINE r == [request[c] EXCEPT !.todo = T, !.seen = q]
<1>4. r \in AnyRequest  BY <1>2, <1>3, RequestGoesOn
<1>5. request' = [request EXCEPT ![c] = r]
  BY <1>1 DEF See, Types, T, q
<1>6. r.todo = T /\ r.seen = q /\ r.op = request[c].op /\ r.outcome = request[c].outcome
      /\ r.value = request[c].value
  BY <1>2 DEF AnyRequest
<1> HIDE DEF r
<1>7. request'[c] = r  BY <1>1, <1>5 DEF Types
<1> QED  BY <1>4, <1>5, <1>6, <1>7, StoresAssumption DEF T, q

LEMMA AskKeeps == ASSUME IInv, NEW c \in Client, Ask(c) PROVE IInv'
<1>1. Types /\ Exclusive(c)  BY DEF IInv
<1>2. PICK r \in Requests : request' = [request EXCEPT ![c] = r]  BY DEF Ask
<1>3. r \in AnyRequest /\ r # NoRequest /\ r.outcome = "ok" /\ (r.op = "get" => r.todo = Held)
  BY RequestsType
<1>4. /\ pc[c] = "idle" /\ pc' = [pc EXCEPT ![c] = "call"]
      /\ UNCHANGED <<backend, ofSources, file, lock, item, image>>
  BY DEF Ask
<1>5. Types'  BY <1>1, <1>2, <1>3, <1>4 DEF Types, Places
<1>6. pc'[c] = "call" /\ request'[c] = r  BY <1>1, <1>2, <1>4 DEF Types
<1>7. Exclusive(c)' /\ CallOpen(c)' /\ CopyCurrent(c)'
  BY <1>1, <1>3, <1>4, <1>6 DEF Exclusive, CallOpen, Held, CopyCurrent
<1>8. \A d \in Client \ {c} : pc'[d] = pc[d] /\ request'[d] = request[d]
  BY <1>1, <1>2, <1>4 DEF Types
<1> QED  BY <1>4, <1>5, <1>7, <1>8, OneClientSteps

LEMMA LockKeeps == ASSUME IInv, NEW c \in Client, Lock(c) PROVE IInv'
<1>1. Types /\ Exclusive(c) /\ CallOpen(c)  BY DEF IInv
<1>2. /\ pc[c] = "call" /\ backend \in {"file", "directory"} /\ lock = None /\ lock' = c
      /\ pc' = [pc EXCEPT ![c] = "locked"]
      /\ UNCHANGED <<backend, ofSources, file, request, item, image>>
  BY DEF Lock
<1>3. Types'  BY <1>1, <1>2 DEF Types, Places
<1>4. pc'[c] = "locked"  BY <1>1, <1>2 DEF Types
<1>5. Exclusive(c)' /\ CallOpen(c)' /\ CopyCurrent(c)'
  BY <1>1, <1>2, <1>4 DEF Exclusive, CallOpen, Held, CopyCurrent
<1>6. \A d \in Client \ {c} : pc'[d] = pc[d]  BY <1>1, <1>2 DEF Types
<1> QED  BY <1>2, <1>3, <1>5, <1>6, OneClientSteps

\* A GET that has read all there is.
LEMMA GetKeeps ==
  ASSUME IInv, NEW c \in Client, file # Unreadable, request[c] # NoRequest, request[c].op = "get",
         pc[c] \in {"call", "locked"}, backend # "database", See(c, Held, Held),
         pc' = [pc EXCEPT ![c] = "return"], UNCHANGED <<backend, ofSources, file, lock, item, image>>
  PROVE  IInv'
<1>1. Types /\ Exclusive(c) /\ CallOpen(c)  BY DEF IInv
<1>2. /\ request' = [request EXCEPT ![c] = request'[c]] /\ request'[c] \in AnyRequest
      /\ request'[c] # NoRequest /\ request'[c].todo = request[c].todo \ Held
  BY SeeType
<1>3. request'[c].todo = {}  BY <1>1, <1>2 DEF CallOpen, Held
<1>4. Types'  BY <1>1, <1>2 DEF Types, Places
<1>5. pc'[c] = "return"  BY <1>1 DEF Types
<1>6. Exclusive(c)' /\ CallOpen(c)' /\ CopyCurrent(c)'
  BY <1>1, <1>2, <1>3, <1>5 DEF Exclusive, CallOpen, Held, CopyCurrent
<1>7. \A d \in Client \ {c} : pc'[d] = pc[d] /\ request'[d] = request[d]  BY <1>1, <1>2 DEF Types
<1> QED  BY <1>4, <1>6, <1>7, OneClientSteps

\* A GET that has read a table of the database, all its rows or not.
LEMMA TableKeeps ==
  ASSUME IInv, NEW c \in Client, NEW S, pc[c] = "call", backend = "database",
         request[c].op = "get", See(c, NextTable(c), S),
         pc' = [pc EXCEPT ![c] = IF request'[c].todo = {} THEN "return" ELSE "call"],
         UNCHANGED <<backend, ofSources, file, lock, item, image>>
  PROVE  IInv'
<1>1. Types /\ Exclusive(c) /\ CallOpen(c)  BY DEF IInv
<1>2. file # Unreadable /\ request[c] # NoRequest  BY <1>1 DEF Types, Exclusive
<1>3. /\ request' = [request EXCEPT ![c] = request'[c]] /\ request'[c] \in AnyRequest
      /\ request'[c] # NoRequest /\ request'[c].todo = request[c].todo \ NextTable(c)
      /\ request'[c].op = "get" /\ request'[c].outcome = request[c].outcome
  BY <1>2, SeeType
<1>4. request[c].todo \in {Name, Metric, Preset} /\ request[c].outcome = "ok"  BY <1>1, <1>2 DEF CallOpen, Held
<1>5. request'[c].todo \in {Preset, {}}
  BY <1>3, <1>4, StoresAssumption DEF NextTable, Name
<1>6. Types'  BY <1>1, <1>3 DEF Types, Places
<1>7. pc'[c] = IF request'[c].todo = {} THEN "return" ELSE "call"  BY <1>1 DEF Types
<1>8. Exclusive(c)' /\ CallOpen(c)' /\ CopyCurrent(c)'
  BY <1>1, <1>3, <1>4, <1>5, <1>7 DEF Exclusive, CallOpen, Held, CopyCurrent
<1>9. \A d \in Client \ {c} : pc'[d] = pc[d] /\ request'[d] = request[d]  BY <1>1, <1>3 DEF Types
<1> QED  BY <1>6, <1>8, <1>9, OneClientSteps

\* The copy is made of the file as it is.
LEMMA EditKeeps == ASSUME IInv, NEW c \in Client, Edit(c) PROVE IInv'
<1>1. Types /\ Exclusive(c) /\ CallOpen(c)  BY DEF IInv
<1>2. /\ pc[c] = "locked" /\ file # Unreadable /\ request[c].op # "get"
      /\ UNCHANGED <<backend, ofSources, file, lock>>
  BY DEF Edit
<1>3. request[c] \in AnyRequest /\ request[c] # NoRequest /\ file \in Content
  BY <1>1, <1>2 DEF Types, Exclusive
<1>4. PICK n \in request[c].todo :
        IF request[c].op = "create" /\ file[n] # Absent
        THEN CallEnds(c, "exists") /\ UNCHANGED <<item, image>>
        ELSE /\ item' = [item EXCEPT ![c] = n]
             /\ image' = [image EXCEPT ![c] = Edited(c, n, Expanded(file))]
             /\ pc' = [pc EXCEPT ![c] = "open"]
             /\ UNCHANGED request
  BY DEF Edit
<1>5. CASE request[c].op = "create" /\ file[n] # Absent
  BY <1>1, <1>2, <1>4, <1>5, CallEndsKeeps DEF Types
<1>6. CASE ~(request[c].op = "create" /\ file[n] # Absent)
  <2>1. n \in Name  BY <1>3 DEF AnyRequest
  <2>2. Edited(c, n, Expanded(file)) \in Content  BY <1>3, <2>1, EditedType, ExpandedType
  <2>3. /\ item' = [item EXCEPT ![c] = n] /\ pc' = [pc EXCEPT ![c] = "open"]
        /\ image' = [image EXCEPT ![c] = Edited(c, n, Expanded(file))] /\ request' = request
    BY <1>4, <1>6
  <2>4. Types'  BY <1>1, <1>2, <2>1, <2>2, <2>3 DEF Types, Places
  <2>5. pc'[c] = "open" /\ item'[c] = n /\ image'[c] = Edited(c, n, Expanded(file))
    BY <1>1, <2>3 DEF Types
  <2>6. Edited(c, n, Expanded(file))' = Edited(c, n, Expanded(file))
    BY <1>2, <2>3 DEF Edited, Expanded, Expand
  <2>7. CopyCurrent(c)'
    BY <1>2, <1>6, <2>3, <2>5, <2>6 DEF CopyCurrent, Edited, Expanded, Expand
  <2>8. Exclusive(c)' /\ CallOpen(c)'
    BY <1>1, <1>2, <2>3, <2>5 DEF Exclusive, CallOpen, Held
  <2>9. \A d \in Client \ {c} : pc'[d] = pc[d] /\ item'[d] = item[d] /\ image'[d] = image[d]
    BY <1>1, <2>3 DEF Types
  <2> QED  BY <1>2, <2>3, <2>4, <2>7, <2>8, <2>9, OneClientSteps
<1> QED  BY <1>5, <1>6

LEMMA TruncateKeeps == ASSUME IInv, NEW c \in Client, Truncate(c) PROVE IInv'
<1>1. Types /\ Exclusive(c) /\ CallOpen(c)  BY DEF IInv
<1>2. /\ pc[c] = "open" /\ backend = "file" /\ file' = Empty
      /\ request' = [request EXCEPT ![c].todo = @ \ {item[c]}]
      /\ pc' = [pc EXCEPT ![c] = "writing"] /\ UNCHANGED <<backend, ofSources, lock, item, image>>
  BY DEF Truncate
<1>3. request[c] \in AnyRequest /\ request[c] # NoRequest  BY <1>1, <1>2 DEF Types, Exclusive
<1> DEFINE r == [request[c] EXCEPT !.todo = @ \ {item[c]}]
<1>4. request' = [request EXCEPT ![c] = r]  BY <1>1, <1>2 DEF Types
<1>5. /\ r \in AnyRequest /\ r # NoRequest /\ r.op = request[c].op /\ r.outcome = request[c].outcome
  <2>1. request[c].todo \ {item[c]} \in SUBSET Name  BY <1>3 DEF AnyRequest
  <2>2. r \in AnyRequest  BY <1>3, <2>1, RequestGoesOn
  <2> QED  BY <1>3, <2>2, StoresAssumption DEF AnyRequest
<1> HIDE DEF r
<1>6. Types'  BY <1>1, <1>2, <1>4, <1>5, EmptyType DEF Types, Places
<1>7. pc'[c] = "writing" /\ request'[c] = r  BY <1>1, <1>2, <1>4 DEF Types
<1>8. Exclusive(c)' /\ CallOpen(c)' /\ CopyCurrent(c)'
  BY <1>1, <1>2, <1>3, <1>5, <1>7, EmptyType DEF Exclusive, CallOpen, Held, CopyCurrent, Empty
<1>9. \A d \in Client \ {c} : pc'[d] = pc[d] /\ request'[d] = request[d]  BY <1>1, <1>2, <1>4 DEF Types
<1>10. \A d \in Client \ {c} : pc[d] \notin {"open", "writing"}
  BY <1>1, <1>2 DEF IInv, Exclusive
<1> QED  BY <1>2, <1>6, <1>8, <1>9, <1>10, OneClientSteps

LEMMA WriteOutKeeps == ASSUME IInv, NEW c \in Client, WriteOut(c) PROVE IInv'
<1>1. Types /\ Exclusive(c) /\ CallOpen(c)  BY DEF IInv
<1>2. /\ pc[c] = "writing" /\ file' = image[c] /\ pc' = [pc EXCEPT ![c] = "return"]
      /\ UNCHANGED <<backend, ofSources, lock, request, item, image>>
  BY DEF WriteOut
<1>3. Types'  BY <1>1, <1>2, StoresAssumption DEF Types, Places
<1>4. pc'[c] = "return"  BY <1>1, <1>2 DEF Types
<1>5. Exclusive(c)' /\ CallOpen(c)' /\ CopyCurrent(c)'
  BY <1>1, <1>2, <1>4 DEF Exclusive, CallOpen, Held, CopyCurrent
<1>6. \A d \in Client \ {c} : pc'[d] = pc[d]  BY <1>1, <1>2 DEF Types
<1>7. \A d \in Client \ {c} : pc[d] \notin {"open", "writing"}
  BY <1>1, <1>2 DEF IInv, Exclusive
<1> QED  BY <1>2, <1>3, <1>5, <1>6, <1>7, OneClientSteps

\* The method returns: its client no longer has the lock.
LEMMA ReturnKeeps == ASSUME IInv, NEW c \in Client, Return(c) PROVE IInv'
<1>1. Types /\ Exclusive(c) /\ CallOpen(c)  BY DEF IInv
<1>2. /\ pc[c] = "return" /\ lock' = IF lock = c THEN None ELSE lock
      /\ item' = [item EXCEPT ![c] = None] /\ image' = [image EXCEPT ![c] = Empty]
      /\ UNCHANGED <<backend, ofSources, file>>
  BY DEF Return, Unlocked
<1>3. request[c] \in AnyRequest /\ request[c] # NoRequest  BY <1>1, <1>2 DEF Types, Exclusive
<1>4. \/ /\ request[c].outcome = "ok" /\ request[c].todo # {}
         /\ pc' = [pc EXCEPT ![c] = "call"] /\ request' = request
      \/ pc' = [pc EXCEPT ![c] = "idle"] /\ request' = [request EXCEPT ![c] = NoRequest]
  BY DEF Return
<1>5. Types'  BY <1>1, <1>2, <1>4, EmptyType DEF Types, Places
<1>6. \/ /\ request[c].outcome = "ok" /\ request[c].todo # {}
         /\ pc'[c] = "call" /\ request'[c] = request[c]
      \/ pc'[c] = "idle" /\ request'[c] = NoRequest
  BY <1>1, <1>4 DEF Types
<1>7. Exclusive(c)'  BY <1>2, <1>3, <1>6, StoresAssumption DEF Exclusive
<1>8. CallOpen(c)' /\ CopyCurrent(c)'
  BY <1>1, <1>2, <1>3, <1>6 DEF CallOpen, Held, CopyCurrent
<1>9. \A d \in Client \ {c} : /\ pc'[d] = pc[d] /\ request'[d] = request[d]
                              /\ item'[d] = item[d] /\ image'[d] = image[d]
  BY <1>1, <1>2, <1>4 DEF Types
<1> QED  BY <1>2, <1>5, <1>7, <1>8, <1>9, OneClientSteps

\* A statement of the database, where nobody has a copy.
LEMMA ExecuteKeeps == ASSUME IInv, NEW c \in Client, Execute(c) PROVE IInv'
<1>1. Types /\ Exclusive(c) /\ CallOpen(c)  BY DEF IInv
<1>2. /\ pc[c] = "call" /\ backend = "database" /\ request[c].op # "get"
      /\ UNCHANGED <<backend, ofSources, lock, item, image>>
  BY DEF Execute
<1>3. request[c] \in AnyRequest /\ request[c] # NoRequest /\ file \in Content
  BY <1>1, <1>2 DEF Types, Exclusive
<1>4. PICK n \in request[c].todo :
        IF request[c].op = "create" /\ file[n] # Absent
        THEN CallEnds(c, "exists") /\ UNCHANGED file
        ELSE /\ file' = Edited(c, n, file)
             /\ request' = [request EXCEPT ![c].todo = @ \ {n}]
             /\ pc' = [pc EXCEPT ![c] = "return"]
  BY DEF Execute
<1>5. CASE request[c].op = "create" /\ file[n] # Absent
  BY <1>1, <1>2, <1>4, <1>5, CallEndsKeeps DEF Types
<1>6. CASE ~(request[c].op = "create" /\ file[n] # Absent)
  <2> DEFINE r == [request[c] EXCEPT !.todo = @ \ {n}]
  <2>1. /\ file' = Edited(c, n, file) /\ request' = [request EXCEPT ![c] = r]
        /\ pc' = [pc EXCEPT ![c] = "return"]
    BY <1>1, <1>4, <1>6 DEF Types
  <2>2. r \in AnyRequest /\ r # NoRequest /\ r.op = request[c].op /\ r.outcome = request[c].outcome
    <3>1. request[c].todo \ {n} \in SUBSET Name  BY <1>3 DEF AnyRequest
    <3>2. r \in AnyRequest  BY <1>3, <3>1, RequestGoesOn
    <3> QED  BY <1>3, <3>2, StoresAssumption DEF AnyRequest
  <2> HIDE DEF r
  <2>3. file' \in Content /\ file' # Unreadable
    BY <1>3, <2>1, EditedType, StoresAssumption DEF AnyRequest
  <2>4. Types'  BY <1>1, <1>2, <2>1, <2>2, <2>3 DEF Types, Places
  <2>5. pc'[c] = "return" /\ request'[c] = r  BY <1>1, <2>1 DEF Types
  <2>6. Exclusive(c)' /\ CallOpen(c)' /\ CopyCurrent(c)'
    BY <1>1, <1>2, <2>2, <2>5 DEF Exclusive, CallOpen, Held, CopyCurrent
  <2>7. \A d \in Client \ {c} : pc'[d] = pc[d] /\ request'[d] = request[d]
    BY <1>1, <2>1 DEF Types
  <2>8. \A d \in Client \ {c} : pc[d] \notin {"open", "writing"}
    BY <1>2 DEF IInv, Exclusive
  <2> QED  BY <1>2, <2>4, <2>6, <2>7, <2>8, OneClientSteps
<1> QED  BY <1>5, <1>6

\* What a crash leaves of the file.
LEMMA CrashFile ==
  ASSUME Crash
  PROVE  \/ file' = file /\ \A c \in Client : pc[c] # "writing"
         \/ \E c \in Client : pc[c] = "writing" /\ file' \in Cut(image[c])
<1> DEFINE cuts == UNION {Cut(image[c]) : c \in {d \in Client : pc[d] = "writing"}}
<1>1. file' \in cuts \cup IF \E d \in Client : pc[d] = "writing" THEN {} ELSE {file}
  BY DEF Crash
<1>2. ASSUME file' \in cuts PROVE \E c \in Client : pc[c] = "writing" /\ file' \in Cut(image[c])
  <2>1. PICK c \in {d \in Client : pc[d] = "writing"} : file' \in Cut(image[c])  BY <1>2
  <2> QED  BY <2>1
<1> HIDE DEF cuts
<1> QED  BY <1>1, <1>2

\* After a crash nobody has the lock, and only a file may be unreadable.
LEMMA CrashKeeps == ASSUME IInv, Crash PROVE IInv'
<1>1. Types  BY DEF IInv
<1>2. /\ lock' = None /\ pc' = [c \in Client |-> "idle"] /\ request' = [c \in Client |-> NoRequest]
      /\ item' = [c \in Client |-> None] /\ image' = [c \in Client |-> Empty]
      /\ backend' = backend /\ ofSources' = ofSources
  BY DEF Crash
<1>3. file' = file \/ \E c \in Client : pc[c] = "writing" /\ file' \in Cut(image[c])
  BY CrashFile
<1>4. file' \in Content \cup {Unreadable}  BY <1>1, <1>3, CutType DEF Types
<1>5. backend # "file" => file' = file  BY <1>3 DEF IInv, Exclusive
<1>6. Types'  BY <1>1, <1>2, <1>4, <1>5, EmptyType DEF Types, Places
<1>7. \A c \in Client : (Exclusive(c) /\ CallOpen(c) /\ CopyCurrent(c))'
  BY <1>2, StoresAssumption DEF Exclusive, CallOpen, Held, CopyCurrent
<1> QED  BY <1>6, <1>7 DEF IInv

\* Every step keeps the invariant.
LEMMA StepIInv == IInv /\ [Next]_vars => IInv'
<1> SUFFICES ASSUME IInv, [Next]_vars PROVE IInv'  OBVIOUS
<1>1. Types /\ \A c \in Client : Exclusive(c)  BY DEF IInv
<1>2. ASSUME NEW c \in Client, GetAll(c) PROVE IInv'
  BY <1>1, <1>2, GetKeeps DEF GetAll, Exclusive
<1>3. ASSUME NEW c \in Client, SelectTable(c) PROVE IInv'
  BY <1>3, TableKeeps DEF SelectTable
<1>4. ASSUME NEW c \in Client, RowsEndEarly(c) PROVE IInv'
  BY <1>4, TableKeeps DEF RowsEndEarly
<1>5. ASSUME NEW c \in Client, BuiltIn(c) PROVE IInv'
  <2>1. pc[c] = "call" /\ backend = "default" /\ UNCHANGED <<backend, ofSources, file, lock, item, image>>
    BY <1>5 DEF BuiltIn
  <2>2. request[c] # NoRequest /\ file # Unreadable /\ file \in Content
    BY <1>1, <2>1 DEF Exclusive, Types
  <2>3. CASE CallEnds(c, "error")
    BY <2>1, <2>2, <2>3, CallEndsKeeps
  <2>4. CASE request[c].op = "get" /\ See(c, Held, Held) /\ pc' = [pc EXCEPT ![c] = "return"]
    BY <2>1, <2>2, <2>4, GetKeeps
  <2> QED  BY <1>5, <2>3, <2>4 DEF BuiltIn
<1>6. ASSUME NEW c \in Client, ReadFails(c) \/ OpenFails(c) \/ ConnectionFails(c) PROVE IInv'
  <2>1. /\ CallEnds(c, "error") /\ pc[c] # "idle" /\ UNCHANGED <<backend, ofSources, file, lock, item, image>>
    BY <1>6 DEF ReadFails, OpenFails, ConnectionFails
  <2> QED  BY <1>1, <2>1, CallEndsKeeps DEF Types
<1>7. ASSUME NEW c \in Client, WriteFails(c) PROVE IInv'
  <2>1. /\ pc[c] = "writing" /\ file' \in Cut(image[c]) /\ CallEnds(c, "error")
        /\ UNCHANGED <<backend, ofSources, lock, item, image>>
    BY <1>7 DEF WriteFails
  <2>2. file' \in Content \cup {Unreadable} /\ backend = "file"
    BY <1>1, <2>1, CutType DEF Types, Exclusive
  <2> QED  BY <2>1, <2>2, CallEndsKeeps
<1>8. CASE UNCHANGED vars
  BY <1>8 DEF vars, IInv, Types, Exclusive, CallOpen, Held, CopyCurrent, Edited, Expanded, Expand
<1> QED
  BY <1>2, <1>3, <1>4, <1>5, <1>6, <1>7, <1>8, AskKeeps, LockKeeps, EditKeeps, TruncateKeeps,
     WriteOutKeeps, ReturnKeeps, ExecuteKeeps, CrashKeeps
  DEF Next, Step, Failure

\* Under the invariant every variable has its type, only one client is between
\* Lock and Unlock, and the file is empty while it is written.
THEOREM Invariance == Spec => []IInv
<1> QED  BY InitIInv, StepIInv, PTL DEF Spec

\* The type invariant, with the mutual exclusion of the YAML stores: one client
\* at most is in a method, the mutex is never kept by a client that is not, and
\* no one but its writer meets the truncated file.
THEOREM MutexHolds == Spec => []TypeOK
<1>1. IInv => TypeOK  BY DEF IInv, Types, Exclusive, TypeOK, Places
<1> QED  BY <1>1, Invariance, PTL

-----------------------------------------------------------------------------
(* The refinement: what the clients see changes at one moment per call.    *)

\* What a reader of the store would see, were it not for the lock.
Visible == Expanded(Current)

\* Whoever holds the lock and is not writing meets the file itself, and so does
\* everybody in a store without files.
LEMMA NobodyWrites ==
  ASSUME IInv, \/ \E c \in Client : pc[c] \in {"locked", "open"}
               \/ backend # "file"
  PROVE  Visible = Expanded(file) /\ \A d \in Client : pc[d] # "writing"
<1>1. \A d \in Client : pc[d] # "writing"  BY DEF IInv, Exclusive
<1> QED  BY <1>1 DEF Visible, Current

\* There is one writer at most.
LEMMA WriterVisible ==
  ASSUME IInv, NEW c \in Client, pc[c] = "writing"
  PROVE  Visible = Expanded(image[c]) /\ \A d \in Client : pc[d] = "writing" => d = c
<1>1. \A d \in Client : pc[d] = "writing" => d = c  BY DEF IInv, Exclusive
<1>2. (CHOOSE d \in Client : pc[d] = "writing") = c  BY <1>1
<1> QED  BY <1>1, <1>2 DEF Visible, Current

\* A step that leaves file, writers and their copies alone changes nothing that
\* can be seen.
LEMMA SameVisible ==
  ASSUME IInv, backend' = backend, ofSources' = ofSources, file' = file,
         \A d \in Client : pc'[d] = "writing" <=> pc[d] = "writing",
         \A d \in Client : pc[d] = "writing" => image'[d] = image[d]
  PROVE  Visible' = Visible
<1>1. CASE \A d \in Client : pc[d] # "writing"
  BY <1>1 DEF Visible, Current, Expanded, Expand
<1>2. ASSUME NEW c \in Client, pc[c] = "writing" PROVE Visible' = Visible
  <2>1. Visible = Expanded(image[c]) /\ \A d \in Client : pc[d] = "writing" => d = c
    BY <1>2, WriterVisible
  <2>2. (CHOOSE d \in Client : pc'[d] = "writing") = c  BY <1>2, <2>1
  <2>3. Current' = image[c]  BY <1>2, <2>2 DEF Current
  <2> QED  BY <2>1, <2>3 DEF Visible, Expanded, Expand
<1> QED  BY <1>1, <1>2

\* Reading twice what was stored once is reading it once.
LEMMA ExpandedTwice == \A s \in Content : Expanded(Expanded(s)) = Expanded(s)
<1> SUFFICES ASSUME NEW s \in Content PROVE Expanded(Expanded(s)) = Expanded(s)  OBVIOUS
<1>1. \A v : Expand(Expand(v)) = Expand(v)  BY StoresAssumption DEF Expand
<1>2. s # Unreadable /\ Expanded(s) # Unreadable  BY ExpandedType, StoresAssumption
<1>3. Expanded(s) = [n \in Name |-> Expand(s[n])]  BY <1>2 DEF Expanded
<1>4. Expanded(Expanded(s)) = [n \in Name |-> Expand(Expanded(s)[n])]  BY <1>2 DEF Expanded
<1> QED  BY <1>1, <1>3, <1>4

\* A change to the copy is the same change to what is seen.
LEMMA EditedVisible ==
  ASSUME NEW c \in Client, request[c] \in AnyRequest, NEW n \in Name, NEW s \in Content
  PROVE  Expanded(Edited(c, n, s)) = [Expanded(s) EXCEPT ![n] = request[c].value]
<1>1. Edited(c, n, s) \in Content /\ Edited(c, n, s) # Unreadable /\ s # Unreadable
  BY EditedType, StoresAssumption
<1>2. Expand(request[c].value) = request[c].value
  BY StoresAssumption DEF Expand, AnyRequest
<1>3. Expanded(Edited(c, n, s)) = [m \in Name |-> Expand(Edited(c, n, s)[m])]  BY <1>1 DEF Expanded
<1>4. \A m \in Name : Edited(c, n, s)[m] = IF m = n THEN request[c].value ELSE s[m]
  BY DEF Edited, Content
<1>5. Expanded(s) = [m \in Name |-> Expand(s[m])]  BY <1>1 DEF Expanded
<1> QED  BY <1>2, <1>3, <1>4, <1>5

\* What is seen of a file that was cut is what was seen of it, less some entries.
LEMMA CutVisible ==
  ASSUME NEW s \in Content, NEW f \in Cut(s)
  PROVE  Expanded(f) \in {Unreadable} \cup
           {[n \in Name |-> IF n \in K THEN Expanded(s)[n] ELSE Absent] : K \in SUBSET Name}
<1>1. CASE f = Unreadable  BY <1>1 DEF Expanded
<1>2. ASSUME NEW K \in SUBSET Name, f = [n \in Name |-> IF n \in K THEN s[n] ELSE Absent]
      PROVE  Expanded(f) = [n \in Name |-> IF n \in K THEN Expanded(s)[n] ELSE Absent]
  <2>1. f \in Content /\ f # Unreadable /\ s # Unreadable
    BY <1>2, StoresAssumption DEF Content
  <2>2. /\ Expanded(f) = [n \in Name |-> Expand(f[n])] /\ Expanded(s) = [n \in Name |-> Expand(s[n])]
    BY <2>1 DEF Expanded
  <2>3. Expand(Absent) = Absent  BY StoresAssumption DEF Expand
  <2> QED  BY <1>2, <2>2, <2>3
<1> QED  BY <1>1, <1>2 DEF Cut

\* An entry that is there is seen, and one that is not is not.
LEMMA AbsentVisible ==
  ASSUME NEW s \in Content, NEW n \in Name PROVE Expanded(s)[n] = Absent <=> s[n] = Absent
<1>1. s # Unreadable  BY StoresAssumption
<1> QED  BY <1>1, StoresAssumption DEF Expanded, Expand

\* What a request is to AtomicStore.
LEMMA OpenCalls ==
  ASSUME IInv, NEW c \in Client, pc[c] # "idle"
  PROVE  /\ request[c] \in AnyRequest /\ request[c] # NoRequest
         /\ pc[c] # "return" => Atomic!Open(c)
         /\ pc[c] \in {"open", "writing"} => Atomic!Write(c)
BY DEF IInv, Types, Exclusive, CallOpen, Held, Atomic!Open, Atomic!Write

LEMMA AskRefines == ASSUME IInv, NEW c \in Client, Ask(c) PROVE Atomic!Ask(c)
<1>1. /\ pc[c] = "idle" /\ pc' = [pc EXCEPT ![c] = "call"]
      /\ UNCHANGED <<backend, ofSources, file, lock, item, image>>
  BY DEF Ask
<1>2. request[c] = NoRequest /\ pc \in [Client -> Places]  BY <1>1 DEF IInv, Exclusive, Types
<1>3. Visible' = Visible  BY <1>1, <1>2, SameVisible
<1>4. PICK r \in Requests : request' = [request EXCEPT ![c] = r]  BY DEF Ask
<1>5. PICK op \in {"get", "create", "update", "delete"}, S \in SUBSET Name, v \in Value \cup {Absent} :
        r = NewRequest(op, S, v) /\ (v = Absent <=> op \in {"get", "delete"})
  BY RequestsAre
<1>6. v \in Stored \cup {Absent}  BY DEF Stored
<1> QED  BY <1>2, <1>3, <1>4, <1>5, <1>6 DEF Atomic!Ask, NewRequest, Empty, Visible

\* A read sees a part of the store at one moment.
LEMMA ReadRefines ==
  ASSUME IInv, NEW c \in Client, NEW P \in {Name, Metric, Preset}, NEW S \in SUBSET P,
         S = P \/ (backend = "database" /\ ~ofSources),
         pc[c] = "locked" \/ backend # "file", pc[c] \in {"call", "locked"},
         file # Unreadable, request[c].op = "get", P \subseteq request[c].todo,
         See(c, P, S), UNCHANGED <<backend, ofSources, file, lock, item, image>>,
         \A d \in Client : pc'[d] = "writing" <=> pc[d] = "writing"
  PROVE  Atomic!Read(c, P)
<1>1. Visible = Expanded(file)  BY NobodyWrites
<1>2. Visible' = Visible  BY SameVisible
<1>3. Visible # Unreadable  BY <1>1, ExpandedType DEF IInv, Types
<1>4. Atomic!Open(c)  BY OpenCalls
<1>5. request' = [request EXCEPT ![c].todo = @ \ P,
                                 ![c].seen = [n \in Name |-> IF n \in S THEN Visible[n] ELSE @[n]]]
  BY <1>1 DEF See
<1>6. S \in IF backend = "database" /\ ~ofSources THEN SUBSET P ELSE {P}  OBVIOUS
<1> QED  BY <1>2, <1>3, <1>4, <1>5, <1>6 DEF Atomic!Read, Visible

\* A call that ends with an error has left what is seen as it was, or has cut it.
LEMMA FailRefines ==
  ASSUME IInv, NEW c \in Client, CallEnds(c, "error"), pc[c] # "idle",
         request[c].outcome = "ok", UNCHANGED <<backend, ofSources, lock, item, image>>,
         (file' = file /\ pc[c] # "writing") \/ (file' \in Cut(image[c]) /\ pc[c] = "writing")
  PROVE  Atomic!Fail(c)
<1>1. /\ request' = [request EXCEPT ![c].outcome = "error"] /\ pc' = [pc EXCEPT ![c] = "return"]
  BY DEF CallEnds
<1>2. pc \in [Client -> Places] /\ image[c] \in Content  BY DEF IInv, Types
<1>3. Atomic!Open(c)  BY OpenCalls DEF Atomic!Open
<1>4. CASE file' = file /\ pc[c] # "writing"
  <2>1. Visible' = Visible  BY <1>1, <1>2, <1>4, SameVisible
  <2> QED  BY <1>1, <1>3, <2>1 DEF Atomic!Fail, Visible
<1>5. CASE file' \in Cut(image[c]) /\ pc[c] = "writing"
  <2>1. Visible = Expanded(image[c]) /\ \A d \in Client : pc[d] = "writing" => d = c
    BY <1>5, WriterVisible
  <2>2. \A d \in Client : pc'[d] # "writing"  BY <1>1, <1>2, <2>1
  <2>3. Visible' = Expanded(file')  BY <2>2 DEF Visible, Current, Expanded, Expand
  <2>4. Expanded(file') \in {Unreadable} \cup
           {[n \in Name |-> IF n \in K THEN Expanded(image[c])[n] ELSE Absent] : K \in SUBSET Name}
    BY <1>2, <1>5, CutVisible
  <2>5. Visible # Unreadable /\ Atomic!Write(c)  BY <1>2, <1>5, <2>1, ExpandedType, OpenCalls
  <2>6. Visible' \in Atomic!Losses(Visible)  BY <2>1, <2>3, <2>4 DEF Atomic!Losses
  <2> QED  BY <1>1, <1>3, <2>5, <2>6 DEF Atomic!Fail, Visible
<1> QED  BY <1>4, <1>5

\* A creation that finds the name taken.
LEMMA ExistsRefines ==
  ASSUME IInv, NEW c \in Client, NEW n \in request[c].todo, pc[c] # "idle", pc[c] # "return",
         pc[c] = "locked" \/ backend # "file",
         file # Unreadable, request[c].op = "create", file[n] # Absent,
         CallEnds(c, "exists"), UNCHANGED <<backend, ofSources, file, lock, item, image>>
  PROVE  Atomic!Exists(c, n)
<1>1. /\ request' = [request EXCEPT ![c].outcome = "exists"] /\ pc' = [pc EXCEPT ![c] = "return"]
  BY DEF CallEnds
<1>2. pc \in [Client -> Places] /\ file \in Content  BY DEF IInv, Types
<1>3. Visible = Expanded(file) /\ \A d \in Client : pc[d] # "writing"  BY NobodyWrites
<1>4. Visible' = Visible  BY <1>1, <1>2, <1>3, SameVisible
<1>5. n \in Name /\ Atomic!Open(c)  BY OpenCalls DEF AnyRequest
<1>6. Visible # Unreadable /\ Visible[n] # Absent
  BY <1>2, <1>3, <1>5, ExpandedType, AbsentVisible
<1> QED  BY <1>1, <1>4, <1>5, <1>6 DEF Atomic!Exists, Atomic!Write, Visible

\* The change is done when the file is truncated: from then on what is seen is
\* the copy.
LEMMA TruncateRefines ==
  ASSUME IInv, NEW c \in Client, Truncate(c)
  PROVE  item[c] \in Name /\ Atomic!Apply(c, item[c])
<1>1. /\ pc[c] = "open" /\ backend = "file" /\ file' = Empty
      /\ request' = [request EXCEPT ![c].todo = @ \ {item[c]}]
      /\ pc' = [pc EXCEPT ![c] = "writing"] /\ UNCHANGED <<backend, ofSources, lock, item, image>>
  BY DEF Truncate
<1>2. /\ file # Unreadable /\ item[c] \in request[c].todo
      /\ image[c] = Edited(c, item[c], Expanded(file))
      /\ request[c].op = "create" => file[item[c]] = Absent
  BY <1>1 DEF IInv, CopyCurrent
<1>3. request[c] \in AnyRequest /\ Atomic!Write(c)  BY <1>1, OpenCalls
<1>4. item[c] \in Name /\ file \in Content /\ pc \in [Client -> Places]
  BY <1>2, <1>3 DEF AnyRequest, IInv, Types
<1>5. Visible = Expanded(file) /\ Visible # Unreadable  BY <1>1, <1>4, NobodyWrites, ExpandedType
<1>6. Visible' = Expanded(image[c])
  <2>1. IInv' /\ pc'[c] = "writing"  BY <1>1, <1>4, TruncateKeeps
  <2>2. \A d \in Client : pc'[d] = "writing" => d = c  BY <2>1 DEF IInv, Exclusive
  <2>3. (CHOOSE d \in Client : pc'[d] = "writing") = c  BY <2>1, <2>2
  <2>4. Current' = image[c]  BY <1>1, <2>1, <2>3 DEF Current
  <2> QED  BY <1>1, <2>4 DEF Visible, Expanded, Expand
<1>7. Expanded(image[c]) = [Visible EXCEPT ![item[c]] = request[c].value]
  <2>1. Expanded(file) \in Content /\ Expanded(Expanded(file)) = Expanded(file)
    BY <1>4, ExpandedType, ExpandedTwice
  <2> QED  BY <1>2, <1>3, <1>4, <1>5, <2>1, EditedVisible
<1>8. request[c].op = "create" => Visible[item[c]] = Absent
  BY <1>2, <1>4, <1>5, AbsentVisible
<1> QED
  BY <1>1, <1>2, <1>3, <1>4, <1>5, <1>6, <1>7, <1>8 DEF Atomic!Apply, Atomic!Effect, Visible

\* A statement of the database is done when it is executed.
LEMMA ExecuteRefines ==
  ASSUME IInv, NEW c \in Client, Execute(c)
  PROVE  \E n \in Name : Atomic!Apply(c, n) \/ Atomic!Exists(c, n)
<1>1. /\ pc[c] = "call" /\ backend = "database" /\ request[c].op # "get"
      /\ UNCHANGED <<backend, ofSources, lock, item, image>>
  BY DEF Execute
<1>2. file \in Content /\ file # Unreadable /\ pc \in [Client -> Places]  BY <1>1 DEF IInv, Types
<1>3. request[c] \in AnyRequest /\ Atomic!Open(c)  BY <1>1, OpenCalls
<1>4. PICK n \in request[c].todo :
        IF request[c].op = "create" /\ file[n] # Absent
        THEN CallEnds(c, "exists") /\ UNCHANGED file
        ELSE /\ file' = Edited(c, n, file)
             /\ request' = [request EXCEPT ![c].todo = @ \ {n}]
             /\ pc' = [pc EXCEPT ![c] = "return"]
  BY DEF Execute
<1>5. n \in Name  BY <1>3 DEF AnyRequest
<1>6. CASE request[c].op = "create" /\ file[n] # Absent
  <2>1. Atomic!Exists(c, n)  BY <1>1, <1>2, <1>4, <1>6, ExistsRefines
  <2> QED  BY <1>5, <2>1
<1>7. CASE ~(request[c].op = "create" /\ file[n] # Absent)
  <2>1. /\ file' = Edited(c, n, file) /\ pc' = [pc EXCEPT ![c] = "return"]
        /\ request' = [request EXCEPT ![c].todo = @ \ {n}]
    BY <1>4, <1>7
  <2>2. Visible = Expanded(file) /\ Visible # Unreadable /\ \A d \in Client : pc[d] # "writing"
    BY <1>1, <1>2, NobodyWrites, ExpandedType
  <2>3. \A d \in Client : pc'[d] # "writing"  BY <1>2, <2>1, <2>2
  <2>4. Visible' = Expanded(file')  BY <1>1, <2>3 DEF Visible, Current, Expanded, Expand
  <2>5. Visible' = [Visible EXCEPT ![n] = request[c].value]
    BY <1>2, <1>3, <1>5, <2>1, <2>2, <2>4, EditedVisible
  <2>6. request[c].op = "create" => Visible[n] = Absent  BY <1>2, <1>5, <1>7, <2>2, AbsentVisible
  <2>7. Atomic!Apply(c, n)
    BY <1>1, <1>3, <1>4, <2>1, <2>2, <2>5, <2>6 DEF Atomic!Apply, Atomic!Effect, Atomic!Write, Visible
  <2> QED  BY <1>5, <2>7
<1> QED  BY <1>6, <1>7

\* The file is complete: what is seen has not changed since it was truncated.
LEMMA WriteOutRefines ==
  ASSUME IInv, NEW c \in Client, WriteOut(c) PROVE Visible' = Visible /\ request' = request
<1>1. /\ pc[c] = "writing" /\ file' = image[c] /\ pc' = [pc EXCEPT ![c] = "return"]
      /\ UNCHANGED <<backend, ofSources, lock, request, item, image>>
  BY DEF WriteOut
<1>2. Visible = Expanded(image[c]) /\ \A d \in Client : pc[d] = "writing" => d = c
  BY <1>1, WriterVisible
<1>3. \A d \in Client : pc'[d] # "writing"  BY <1>1, <1>2 DEF IInv, Types
<1>4. Visible' = Expanded(file')  BY <1>1, <1>3 DEF Visible, Current, Expanded, Expand
<1> QED  BY <1>1, <1>2, <1>4

LEMMA ReturnRefines ==
  ASSUME IInv, NEW c \in Client, Return(c)
  PROVE  Atomic!Return(c) \/ (Visible' = Visible /\ request' = request)
<1>1. /\ pc[c] = "return" /\ image' = [image EXCEPT ![c] = Empty] /\ UNCHANGED <<backend, ofSources, file>>
  BY DEF Return
<1>2. pc \in [Client -> Places] /\ image \in [Client -> Content]  BY DEF IInv, Types
<1>3. \/ pc' = [pc EXCEPT ![c] = "call"] /\ request' = request
      \/ /\ pc' = [pc EXCEPT ![c] = "idle"] /\ request' = [request EXCEPT ![c] = NoRequest]
         /\ request[c].outcome = "ok" => request[c].todo = {}
  BY DEF Return
<1>4. Visible' = Visible  BY <1>1, <1>2, <1>3, SameVisible
<1>5. request[c] # NoRequest  BY <1>1, OpenCalls
<1> QED  BY <1>3, <1>4, <1>5 DEF Atomic!Return, Atomic!Open, Visible

LEMMA CrashRefines == ASSUME IInv, Crash PROVE Atomic!Crash
<1>1. /\ pc' = [c \in Client |-> "idle"] /\ request' = [c \in Client |-> NoRequest]
      /\ backend' = backend /\ ofSources' = ofSources
  BY DEF Crash
<1>2. Visible' = Expanded(file')  BY <1>1 DEF Visible, Current, Expanded, Expand
<1>3. CASE file' = file /\ \A c \in Client : pc[c] # "writing"
  <2>1. Visible' = Visible  BY <1>2, <1>3 DEF Visible, Current
  <2> QED  BY <1>1, <2>1 DEF Atomic!Crash, Visible
<1>4. ASSUME NEW c \in Client, pc[c] = "writing", file' \in Cut(image[c]) PROVE Atomic!Crash
  <2>1. Visible = Expanded(image[c]) /\ image[c] \in Content /\ Atomic!Write(c)
    BY <1>4, WriterVisible, OpenCalls DEF IInv, Types
  <2>2. Expanded(file') \in {Unreadable} \cup
           {[n \in Name |-> IF n \in K THEN Expanded(image[c])[n] ELSE Absent] : K \in SUBSET Name}
    BY <1>4, <2>1, CutVisible
  <2>3. Visible' \in Atomic!Losses(Visible)  BY <1>2, <2>1, <2>2 DEF Atomic!Losses
  <2>4. Visible # Unreadable  BY <2>1, ExpandedType
  <2> QED  BY <1>1, <2>1, <2>3, <2>4 DEF Atomic!Crash, Visible
<1> QED  BY <1>3, <1>4, CrashFile

\* Every step of the stores is a step of AtomicStore or changes nothing there.
LEMMA StepRefines ==
  IInv /\ [Next]_vars => [Atomic!Next]_<<Expanded(Current), request, backend = "database" /\ ~ofSources>>
<1> SUFFICES ASSUME IInv, [Next]_vars
             PROVE  /\ Atomic!Step \/ (Visible' = Visible /\ request' = request)
                    /\ backend' = backend /\ ofSources' = ofSources
  BY DEF Atomic!Next, Visible
<1>1. Types /\ \A c \in Client : Exclusive(c) /\ CallOpen(c)  BY DEF IInv
<1>2. backend' = backend /\ ofSources' = ofSources
  BY DEF Next, vars, Crash, Ask, Lock, Step, Failure, GetAll, Edit, Truncate, WriteOut, Return,
         SelectTable, Execute, BuiltIn, ReadFails, OpenFails, WriteFails, ConnectionFails, RowsEndEarly
<1> DEFINE Refined == Atomic!Step \/ (Visible' = Visible /\ request' = request)
<1>3. CASE Crash  BY <1>2, <1>3, CrashRefines DEF Atomic!Step
<1>4. ASSUME NEW c \in Client, Ask(c) PROVE Refined  BY <1>4, AskRefines DEF Atomic!Step
<1>5. ASSUME NEW c \in Client, Lock(c) PROVE Refined
  <2>1. /\ pc[c] = "call" /\ pc' = [pc EXCEPT ![c] = "locked"]
        /\ UNCHANGED <<backend, ofSources, file, request, item, image>>
    BY <1>5 DEF Lock
  <2>2. Visible' = Visible  BY <1>1, <2>1, SameVisible DEF Types
  <2> QED  BY <2>1, <2>2
<1>6. ASSUME NEW c \in Client, GetAll(c) PROVE Refined
  <2>1. /\ pc[c] = "locked" /\ file # Unreadable /\ request[c].op = "get" /\ See(c, Held, Held)
        /\ pc' = [pc EXCEPT ![c] = "return"] /\ UNCHANGED <<backend, ofSources, file, lock, item, image>>
    BY <1>6 DEF GetAll
  <2>2. Held \subseteq request[c].todo /\ Held \in {Name, Metric}  BY <1>1, <2>1 DEF Exclusive, CallOpen, Held
  <2>3. \A d \in Client : pc'[d] = "writing" <=> pc[d] = "writing"  BY <1>1, <2>1 DEF Types
  <2>4. Atomic!Read(c, Held)  BY <2>1, <2>2, <2>3, ReadRefines
  <2> QED  BY <2>2, <2>4 DEF Atomic!Step
<1>7. ASSUME NEW c \in Client, NEW S \in SUBSET NextTable(c), S = NextTable(c) \/ ~ofSources,
             pc[c] = "call", backend = "database",
             request[c].op = "get", See(c, NextTable(c), S),
             pc' = [pc EXCEPT ![c] = IF request'[c].todo = {} THEN "return" ELSE "call"],
             UNCHANGED <<backend, ofSources, file, lock, item, image>>
      PROVE  Refined
  <2>1. NextTable(c) \in {Metric, Preset}  BY DEF NextTable
  <2>2. NextTable(c) \subseteq request[c].todo
    BY <1>1, <1>7 DEF Exclusive, CallOpen, Held, NextTable, Name
  <2>3. \A d \in Client : pc'[d] = "writing" <=> pc[d] = "writing"  BY <1>1, <1>7 DEF Types
  <2>4. file # Unreadable  BY <1>1, <1>7 DEF Types
  <2>5. Atomic!Read(c, NextTable(c))  BY <1>7, <2>1, <2>2, <2>3, <2>4, ReadRefines
  <2> QED  BY <2>1, <2>5 DEF Atomic!Step
<1>8. ASSUME NEW c \in Client, SelectTable(c) PROVE Refined
  <2>1. NextTable(c) \in SUBSET NextTable(c)  OBVIOUS
  <2> QED  BY <1>7, <1>8, <2>1 DEF SelectTable
<1>9. ASSUME NEW c \in Client, RowsEndEarly(c) PROVE Refined
  <2>1. PICK S \in (SUBSET NextTable(c)) \ {NextTable(c)} : See(c, NextTable(c), S)
    BY <1>9 DEF RowsEndEarly
  <2> QED  BY <1>7, <1>9, <2>1 DEF RowsEndEarly
<1>10. ASSUME NEW c \in Client, BuiltIn(c) PROVE Refined
  <2>1. pc[c] = "call" /\ backend = "default" /\ UNCHANGED <<backend, ofSources, file, lock, item, image>>
    BY <1>10 DEF BuiltIn
  <2>2. request[c] # NoRequest /\ request[c].outcome = "ok" /\ file # Unreadable
    BY <1>1, <2>1 DEF Exclusive, CallOpen, Held, Types
  <2>3. CASE CallEnds(c, "error")
    <3>1. Atomic!Fail(c)  BY <2>1, <2>2, <2>3, FailRefines
    <3> QED  BY <3>1 DEF Atomic!Step
  <2>4. CASE request[c].op = "get" /\ See(c, Held, Held) /\ pc' = [pc EXCEPT ![c] = "return"]
    <3>1. Held \subseteq request[c].todo /\ Held \in {Name, Metric}  BY <1>1, <2>1, <2>2, <2>4 DEF CallOpen, Held
    <3>2. \A d \in Client : pc'[d] = "writing" <=> pc[d] = "writing"  BY <1>1, <2>1, <2>4 DEF Types
    <3>3. Atomic!Read(c, Held)  BY <2>1, <2>2, <2>4, <3>1, <3>2, ReadRefines
    <3> QED  BY <3>1, <3>3 DEF Atomic!Step
  <2> QED  BY <1>10, <2>3, <2>4 DEF BuiltIn
<1>11. ASSUME NEW c \in Client, ReadFails(c) \/ OpenFails(c) \/ ConnectionFails(c) PROVE Refined
  <2>1. /\ CallEnds(c, "error") /\ pc[c] \notin {"idle", "writing"}
        /\ pc[c] = "return" => request[c].outcome = "ok"
        /\ UNCHANGED <<backend, ofSources, file, lock, item, image>>
    BY <1>11 DEF ReadFails, OpenFails, ConnectionFails
  <2>2. request[c].outcome = "ok"  BY <1>1, <2>1 DEF Exclusive, CallOpen, Held
  <2>3. Atomic!Fail(c)  BY <2>1, <2>2, FailRefines
  <2> QED  BY <2>3 DEF Atomic!Step
<1>12. ASSUME NEW c \in Client, WriteFails(c) PROVE Refined
  <2>1. /\ pc[c] = "writing" /\ file' \in Cut(image[c]) /\ CallEnds(c, "error")
        /\ UNCHANGED <<backend, ofSources, lock, item, image>>
    BY <1>12 DEF WriteFails
  <2>2. request[c].outcome = "ok"  BY <1>1, <2>1 DEF Exclusive, CallOpen, Held
  <2>3. Atomic!Fail(c)  BY <2>1, <2>2, FailRefines
  <2> QED  BY <2>3 DEF Atomic!Step
<1>13. ASSUME NEW c \in Client, Edit(c) PROVE Refined
  <2>1. /\ pc[c] = "locked" /\ file # Unreadable /\ UNCHANGED <<backend, ofSources, file, lock>>
    BY <1>13 DEF Edit
  <2>2. PICK n \in request[c].todo :
          IF request[c].op = "create" /\ file[n] # Absent
          THEN CallEnds(c, "exists") /\ UNCHANGED <<item, image>>
          ELSE /\ item' = [item EXCEPT ![c] = n]
               /\ image' = [image EXCEPT ![c] = Edited(c, n, Expanded(file))]
               /\ pc' = [pc EXCEPT ![c] = "open"]
               /\ UNCHANGED request
    BY <1>13 DEF Edit
  <2>3. CASE request[c].op = "create" /\ file[n] # Absent
    <3>1. Atomic!Exists(c, n)  BY <2>1, <2>2, <2>3, ExistsRefines
    <3>2. n \in Name  BY <2>1, OpenCalls DEF AnyRequest
    <3> QED  BY <3>1, <3>2 DEF Atomic!Step
  <2>4. CASE ~(request[c].op = "create" /\ file[n] # Absent)
    <3>1. /\ image' = [image EXCEPT ![c] = Edited(c, n, Expanded(file))]
          /\ pc' = [pc EXCEPT ![c] = "open"] /\ request' = request
      BY <2>2, <2>4
    <3>2. Visible' = Visible  BY <1>1, <2>1, <3>1, SameVisible DEF Types
    <3> QED  BY <3>1, <3>2
  <2> QED  BY <2>3, <2>4
<1>14. ASSUME NEW c \in Client, Truncate(c) PROVE Refined
  BY <1>14, TruncateRefines DEF Atomic!Step
<1>15. ASSUME NEW c \in Client, WriteOut(c) PROVE Refined  BY <1>15, WriteOutRefines
<1>16. ASSUME NEW c \in Client, Return(c) PROVE Refined
  BY <1>16, ReturnRefines DEF Atomic!Step
<1>17. ASSUME NEW c \in Client, Execute(c) PROVE Refined
  BY <1>17, ExecuteRefines DEF Atomic!Step
<1>18. CASE UNCHANGED vars
  BY <1>18 DEF vars, Visible, Current, Expanded, Expand
<1> QED
  BY <1>2, <1>3, <1>4, <1>5, <1>6, <1>8, <1>9, <1>10, <1>11, <1>12, <1>13, <1>14, <1>15, <1>16,
     <1>17, <1>18
  DEF Next, Step, Failure

\* The YAML files, the configuration database and the built-in definitions all
\* implement AtomicStore: whichever calls overlap, fail or are cut off by a
\* crash, each takes effect at one moment.
THEOREM StoresAreAtomic == Spec => CallsAreAtomic
<1>1. Init => Atomic!Init
  <2> SUFFICES ASSUME Init PROVE Atomic!Init  OBVIOUS
  <2>1. IInv /\ \A c \in Client : pc[c] # "writing"  BY InitIInv DEF Init
  <2>2. file \in Content  BY StoresAssumption DEF Init, Content, Stored
  <2>3. Expanded(Current) \in Content  BY <2>1, <2>2, ExpandedType DEF Current
  <2>4. (backend = "database" /\ ~ofSources) \in BOOLEAN  OBVIOUS
  <2> QED  BY <2>3, <2>4 DEF Atomic!Init, Atomic!Content, Init, Content
<1> QED  BY <1>1, StepRefines, Invariance, PTL DEF Spec, CallsAreAtomic, Atomic!Spec
=============================================================================
