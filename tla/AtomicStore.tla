---------------------------- MODULE AtomicStore ----------------------------
(***************************************************************************)
(* What a store of named definitions (sources, metrics, presets) promises  *)
(* its clients: every call takes effect at one moment between its start    *)
(* and its answer, a creation never replaces anything, and the only harm a *)
(* failure or a crash does is to lose entries while a change is under way. *)
(* (A store may be one whose reads can end early without an error.)        *)
(* A request is a list of calls, one for every name it is about, answered  *)
(* after the last of them or the first that does not succeed.              *)
(***************************************************************************)
CONSTANTS Client, Name, Value,
          Parts,       \* the sets of names that are read at one moment
          Absent,      \* what the store holds for a name it does not have
          Unreadable,  \* a store whose content no longer can be read
          NoRequest

VARIABLES store, request,
          lossy    \* a read may miss entries unnoticed

Content == [Name -> Value \cup {Absent}]
Open(c) == request[c] # NoRequest /\ request[c].outcome = "ok"
Write(c) == Open(c) /\ request[c].op # "get"

\* The content once the call of c about n has been done.
Effect(c, n) == [store EXCEPT ![n] = request[c].value]

\* What is left of content s when a write of it is cut short.
Losses(s) == {Unreadable} \cup {[n \in Name |-> IF n \in K THEN s[n] ELSE Absent] : K \in SUBSET Name}

Init == /\ store \in Content
        /\ request = [c \in Client |-> NoRequest]
        /\ lossy \in BOOLEAN

Ask(c) ==
  /\ request[c] = NoRequest
  /\ \E op \in {"get", "create", "update", "delete"}, S \in SUBSET Name, v \in Value \cup {Absent} :
       /\ (v = Absent) <=> op \in {"get", "delete"}
       /\ request' = [request EXCEPT ![c] =
         [op |-> op, todo |-> S, value |-> v, outcome |-> "ok", seen |-> [n \in Name |-> Absent]]]
  /\ UNCHANGED store

Read(c, P) ==
  /\ Open(c) /\ request[c].op = "get" /\ P \subseteq request[c].todo
  /\ store # Unreadable
  /\ \E S \in IF lossy THEN SUBSET P ELSE {P} :
       request' = [request EXCEPT ![c].todo = @ \ P,
                                  ![c].seen = [n \in Name |-> IF n \in S THEN store[n] ELSE @[n]]]
  /\ UNCHANGED store

Apply(c, n) ==
  /\ Write(c) /\ n \in request[c].todo
  /\ store # Unreadable
  /\ request[c].op = "create" => store[n] = Absent
  /\ store' = Effect(c, n)
  /\ request' = [request EXCEPT ![c].todo = @ \ {n}]

Exists(c, n) ==
  /\ Write(c) /\ request[c].op = "create" /\ n \in request[c].todo
  /\ store # Unreadable /\ store[n] # Absent
  /\ request' = [request EXCEPT ![c].outcome = "exists"]
  /\ UNCHANGED store

\* A call fails: without effect, or with the effect it had before it failed, or
\* having cut the content short.
Fail(c) ==
  /\ Open(c)
  /\ request' = [request EXCEPT ![c].outcome = "error"]
  /\ \/ UNCHANGED store
     \/ Write(c) /\ store # Unreadable /\ store' \in Losses(store)

Return(c) ==
  /\ request[c] # NoRequest
  /\ Open(c) => request[c].todo = {}
  /\ request' = [request EXCEPT ![c] = NoRequest]
  /\ UNCHANGED store

Crash ==
  /\ request' = [c \in Client |-> NoRequest]
  /\ \/ UNCHANGED store
     \/ (\E c \in Client : Write(c)) /\ store # Unreadable /\ store' \in Losses(store)

Step ==
  \/ Crash
  \/ \E c \in Client :
       \/ Ask(c) \/ Fail(c) \/ Return(c)
       \/ \E P \in Parts : Read(c, P)
       \/ \E n \in Name : Apply(c, n) \/ Exists(c, n)

Next == Step /\ UNCHANGED lossy

Spec == Init /\ [][Next]_<<store, request, lossy>>
=============================================================================
