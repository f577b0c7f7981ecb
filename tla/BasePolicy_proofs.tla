--------------------------- MODULE BasePolicy_proofs ---------------------------
(***************************************************************************)
(* Proofs about BasePolicy, for any number of actors, attempts and         *)
(* connections and any number of breaks and restarts: types, when two      *)
(* samples can share a key, and that a query is answered as PolicyOracle   *)
(* promises.                                                               *)
(*                                                                         *)
(* The argument for the answers is ownership: a connection serves one      *)
(* actor, and of its request, its thread and its answer at most one speaks *)
(* of a question, which is the one its actor waits for.  A connection      *)
(* given up is nobody's, so what is still on its way there reaches no one. *)
(***************************************************************************)
EXTENDS BasePolicy, TLAPS

USE BasePolicyAssumption

-----------------------------------------------------------------------------
(* Types *)

(* What the server thread of a connection does. *)
Thread == [pc : {"idle", "store", "sample"}, for : Nat, key : Nat]

(***************************************************************************)
(* Actors, connections and threads keep their types, and an actor that     *)
(* sends or waits has a connection.                                        *)
(***************************************************************************)
THEOREM TypeCorrect == Spec => []TypeOK
<1> USE DEF clientVars, wireVars, faultVars, history, unchangedByClient,
            unchangedByHandler, Messages, Idle, NoMessage, None,
            Thread
<1>1. Init => TypeOK
  <2> SUFFICES ASSUME Init PROVE TypeOK
    OBVIOUS
  <2>1. overlapped \in BOOLEAN
    BY DEF Init
  <2>2. Idle \in Thread
    OBVIOUS
  <2>3. NoMessage \in Messages
    OBVIOUS
  <2>4. handler \in [Conns -> Thread]
    BY <2>2 DEF Init
  <2>5. attempt \in [Actors -> 0..Attempts] /\ conn \in [Actors -> Conns \cup {None}]
     /\ result \in [Actors -> Messages] /\ pc \in [Actors -> {"idle", "get", "send", "recv"}]
    BY <2>3 DEF Init
  <2> QED
    BY <2>1, <2>4, <2>5 DEF Init, TypeOK
<1>2. TypeOK /\ [Next]_vars => TypeOK'
  <2> SUFFICES ASSUME TypeOK, [Next]_vars PROVE TypeOK'
    OBVIOUS
  <2> USE DEF TypeOK
  <2>1. ASSUME NEW a \in Actors, Ask(a) PROVE TypeOK'
    BY <2>1 DEF Ask
  <2>2. ASSUME NEW a \in Actors, Get(a) PROVE TypeOK'
    <3>1. CASE conn[a] # None /\ UNCHANGED <<conn, open>>
      BY <2>2, <3>1 DEF Get
    <3>2. ASSUME NEW k \in Conns, conn' = [conn EXCEPT ![a] = k],
                 open' = [open EXCEPT ![k] = "open"]
          PROVE  TypeOK'
      <4>1. conn' \in [Actors -> Conns \cup {None}] /\ conn'[a] # None
        BY <3>2
      <4>2. \A b \in Actors : pc'[b] \in {"send", "recv"} => conn'[b] # None
        BY <2>2, <3>2 DEF Get
      <4> QED
        BY <2>2, <3>2, <4>1, <4>2 DEF Get
    <3> QED
      BY <2>2, <3>1, <3>2 DEF Get
  <2>3. ASSUME NEW a \in Actors, Send(a) PROVE TypeOK'
    BY <2>3 DEF Send
  <2>4. ASSUME NEW a \in Actors, Recv(a) PROVE TypeOK'
    BY <2>4 DEF Recv
  <2>5. ASSUME NEW a \in Actors, Broken(a) PROVE TypeOK'
    <3>1. [kind |-> "error", for |-> question[a]] \in Messages
      OBVIOUS
    <3>2. CASE attempt[a] < Attempts
      BY <2>5, <3>2 DEF Broken
    <3>3. CASE ~(attempt[a] < Attempts)
      BY <2>5, <3>1, <3>3 DEF Broken
    <3> QED
      BY <3>2, <3>3
  <2>6. ASSUME NEW k \in Conns, LoadKey(k) PROVE TypeOK'
    BY <2>6 DEF LoadKey, InSplit
  <2>7. ASSUME NEW k \in Conns, StoreKey(k) PROVE TypeOK'
    <3>1. [pc |-> "sample", for |-> handler[k].for, key |-> 0] \in Thread
      OBVIOUS
    <3>2. handler' \in [Conns -> Thread]
      BY <2>7, <3>1 DEF StoreKey
    <3>3. key' \in Nat
      BY <2>7 DEF StoreKey
    <3> QED
      BY <2>7, <3>2, <3>3 DEF StoreKey
  <2>8. ASSUME NEW k \in Conns, Reply(k) PROVE TypeOK'
    BY <2>8 DEF Reply
  <2>9. ASSUME NEW k \in Conns, Break(k) PROVE TypeOK'
    BY <2>9 DEF Break
  <2>10. CASE Stop
    <3>1. Idle \in Thread
      OBVIOUS
    <3>2. handler' \in [Conns -> Thread]
      BY <2>10, <3>1 DEF Stop
    <3> QED
      BY <2>10, <3>2 DEF Stop
  <2>11. CASE Start
    BY <2>11 DEF Start
  <2>12. CASE UNCHANGED vars
    BY <2>12 DEF vars
  <2> QED
    BY <2>1, <2>2, <2>3, <2>4, <2>5, <2>6, <2>7, <2>8, <2>9, <2>10,
       <2>11, <2>12
       DEF Next, ClientStep, HandlerStep
<1> QED
  BY <1>1, <1>2, PTL DEF Spec, Fairness

-----------------------------------------------------------------------------
(* Keys *)

(***************************************************************************)
(* Until a restart or an overlap, one thread at most is inside the split,  *)
(* the key it loaded is still the key, and every key used is behind it.    *)
(***************************************************************************)
KeyInv ==
  /\ restarts \in Nat
  /\ up \/ restarts > 0
  /\ restarts = 0 /\ ~overlapped =>
       /\ \A j, k \in Conns : InSplit(j) /\ InSplit(k) => j = k
       /\ \A k \in Conns : InSplit(k) => handler[k].key = key
       /\ \A u \in used : u \in Nat /\ u < key
       /\ ~repeated

(***************************************************************************)
(* Two samples share a key only after an overlap or a restart.             *)
(***************************************************************************)
THEOREM KeysDistinctCorrect == Spec => []KeysDistinct
<1>1. Init => KeyInv
  BY DEF Init, KeyInv, InSplit, Idle
<1>2. TypeOK /\ KeyInv /\ [Next]_vars => KeyInv'
  <2> SUFFICES ASSUME TypeOK, KeyInv, [Next]_vars PROVE KeyInv'
    OBVIOUS
  <2> USE DEF KeyInv, InSplit
  <2>1. ASSUME UNCHANGED <<handler, up, key, restarts, history>> PROVE KeyInv'
    BY <2>1 DEF history
  <2>2. ASSUME NEW k \in Conns, LoadKey(k) PROVE KeyInv'
    <3>1. restarts' = restarts /\ up' = up
      BY <2>2 DEF LoadKey, unchangedByHandler, faultVars
    <3>2. CASE overlapped'
      BY <3>1, <3>2
    <3>3. CASE ~overlapped'
      <4>1. ~overlapped /\ \A j \in Conns : handler[j].pc # "store"
        BY <2>2, <3>3 DEF LoadKey
      <4>2. \A j \in Conns : j # k => handler'[j] = handler[j]
        BY <2>2 DEF LoadKey, TypeOK
      <4>3. handler'[k].key = key
        BY <2>2 DEF LoadKey, TypeOK
      <4>4. key' = key /\ used' = used /\ repeated' = repeated
        BY <2>2 DEF LoadKey
      <4> QED
        BY <3>1, <3>3, <4>1, <4>2, <4>3, <4>4
    <3> QED
      BY <3>2, <3>3
  <2>3. ASSUME NEW k \in Conns, StoreKey(k) PROVE KeyInv'
    <3>1. restarts' = restarts /\ up' = up /\ overlapped' = overlapped
      BY <2>3 DEF StoreKey, unchangedByHandler, faultVars
    <3>2. ASSUME restarts = 0, ~overlapped
          PROVE  /\ \A j \in Conns : handler'[j].pc # "store"
                 /\ \A u \in used' : u \in Nat /\ u < key'
                 /\ ~repeated'
      <4>1. handler[k].key = key /\ key \in Nat
        BY <2>3, <3>2 DEF StoreKey, TypeOK
      <4>2. key' = key + 1 /\ used' = used \cup {key}
        BY <2>3, <4>1 DEF StoreKey
      <4>3. key \notin used
        BY <3>2, <4>1
      <4>4. ~repeated'
        BY <2>3, <3>2, <4>1, <4>3 DEF StoreKey
      <4>5. \A j \in Conns : handler'[j].pc = IF j = k THEN "sample" ELSE handler[j].pc
        BY <2>3 DEF StoreKey, TypeOK
      <4>6. \A j \in Conns : handler'[j].pc # "store"
        BY <2>3, <3>2, <4>5 DEF StoreKey
      <4> QED
        BY <3>2, <4>1, <4>2, <4>4, <4>6
    <3> QED
      BY <3>1, <3>2
  <2>4. ASSUME NEW k \in Conns, Reply(k) PROVE KeyInv'
    <3>1. \A j \in Conns : handler'[j] = IF j = k THEN Idle ELSE handler[j]
      BY <2>4 DEF Reply, TypeOK
    <3> QED
      BY <2>4, <3>1 DEF Reply, Idle, unchangedByHandler, faultVars, history
  <2>5. CASE Stop
    BY <2>5 DEF Stop
  <2>6. CASE Start
    BY <2>6 DEF Start, faultVars
  <2>7. ASSUME NEW a \in Actors, Ask(a) \/ ClientStep(a) PROVE KeyInv'
    <3>1. UNCHANGED unchangedByClient
      BY <2>7 DEF Ask, ClientStep, Get, Send, Recv, Broken
    <3> QED
      BY <2>1, <3>1 DEF unchangedByClient, faultVars
  <2>8. ASSUME NEW k \in Conns, Break(k) PROVE KeyInv'
    BY <2>1, <2>8 DEF Break
  <2>9. CASE UNCHANGED vars
    BY <2>1, <2>9 DEF vars, faultVars
  <2> QED
    BY <2>2, <2>3, <2>4, <2>5, <2>6, <2>7, <2>8, <2>9 DEF Next, HandlerStep
<1>3. KeyInv => KeysDistinct
  BY DEF KeyInv, KeysDistinct
<1> QED
  BY <1>1, <1>2, <1>3, TypeCorrect, PTL DEF Spec

-----------------------------------------------------------------------------
(* Answers *)

(* Nothing is on its way over connection k. *)
Quiet(k) == request[k] = None /\ handler[k].pc = "idle" /\ response[k] = NoMessage

(* The request, the thread and the answer of k speak of question q alone,  *)
(* and at most one of them speaks.                                         *)
Serves(k, q) ==
  /\ request[k] \in {None, q}
  /\ handler[k].pc # "idle" => handler[k].for = q /\ request[k] = None
  /\ response[k] # NoMessage =>
       /\ response[k] \in [kind : {"chunk", "error"}, for : {q}]
       /\ request[k] = None /\ handler[k].pc = "idle"

(***************************************************************************)
(* A connection has one owner; it is quiet unless its owner waits, and     *)
(* then it serves the owner's question.                                    *)
(***************************************************************************)
Owned ==
  /\ \A k \in Conns : open[k] = "new" => Quiet(k) /\ \A a \in Actors : conn[a] # k
  /\ \A a, b \in Actors : conn[a] = conn[b] /\ conn[a] # None => a = b
  /\ \A a \in Actors : conn[a] # None /\ pc[a] # "recv" => Quiet(conn[a])
  /\ \A a \in Actors : pc[a] = "recv" => Serves(conn[a], question[a])

(* An actor that waits has asked, and no result is ahead of its question.  *)
Counted ==
  \A a \in Actors :
    /\ pc[a] # "idle" => question[a] >= 1
    /\ question[a] <= QuestionBound[a]
    /\ result[a].for <= question[a]

(***************************************************************************)
(* A step over connection k that changes no client and opens nothing keeps *)
(* the ownership of every connection if it keeps that of k: a new or quiet *)
(* connection stays quiet, one that serves a question still serves it.     *)
(***************************************************************************)
LEMMA OwnedLocally ==
  ASSUME TypeOK, Owned, NEW k \in Conns, UNCHANGED clientVars,
         \A j \in Conns : open'[j] = "new" => open[j] = "new",
         \A j \in Conns : j # k => /\ request'[j] = request[j]
                                   /\ handler'[j] = handler[j]
                                   /\ response'[j] = response[j],
         Quiet(k) => Quiet(k)',
         \A q \in Nat : Serves(k, q) => Serves(k, q)'
  PROVE  Owned'
<1>1. \A j \in Conns : Quiet(j) => Quiet(j)'
  BY DEF Quiet
<1>2. \A j \in Conns, q \in Nat : Serves(j, q) => Serves(j, q)'
  BY DEF Serves
<1>3. \A a \in Actors : question[a] \in Nat /\ conn[a] \in Conns \cup {None}
                       /\ (pc[a] = "recv" => conn[a] # None)
  BY DEF TypeOK
<1> QED
  BY <1>1, <1>2, <1>3 DEF Owned, clientVars

(* Ownership and the counts hold throughout. *)
LEMMA OwnedInvariant == Spec => [](Owned /\ Counted)
<1>1. Init => Owned /\ Counted
  <2> SUFFICES ASSUME Init PROVE Owned /\ Counted
    OBVIOUS
  <2>1. \A k \in Conns : Quiet(k) /\ k # None
    BY DEF Init, Quiet, Idle, None
  <2>2. \A a \in Actors : conn[a] = None /\ pc[a] = "idle" /\ question[a] = 0
                         /\ result[a].for = 0
    BY DEF Init, NoMessage, None
  <2> QED
    BY <2>1, <2>2 DEF Owned, Counted
<1>2. TypeOK /\ Owned /\ [Next]_vars => Owned'
  <2> SUFFICES ASSUME TypeOK, Owned, [Next]_vars PROVE Owned'
    OBVIOUS
  <2>0. /\ \A a \in Actors : question[a] \in Nat /\ conn[a] \in Conns \cup {None}
        /\ \A a \in Actors : pc[a] \in {"send", "recv"} => conn[a] \in Conns
        /\ \A k \in Conns : k # None
    BY DEF TypeOK, None
  <2>1. ASSUME NEW a \in Actors, Ask(a) PROVE Owned'
    <3>1. UNCHANGED <<conn, open>> /\ \A b \in Actors : b # a =>
             pc'[b] = pc[b] /\ question'[b] = question[b]
      BY <2>1 DEF Ask, wireVars, TypeOK
    <3>2. pc[a] # "recv" /\ pc'[a] # "recv"
      BY <2>1 DEF Ask, TypeOK
    <3>3. UNCHANGED <<request, response, handler>>
      BY <2>1 DEF Ask, wireVars, unchangedByClient
    <3> QED
      BY <3>1, <3>2, <3>3 DEF Owned, Quiet, Serves
  <2>2. ASSUME NEW a \in Actors, Get(a) PROVE Owned'
    <3>1. UNCHANGED <<question, request, response, handler>>
      BY <2>2 DEF Get, unchangedByClient
    <3>2. \A k : (Quiet(k)' <=> Quiet(k)) /\ \A q : Serves(k, q)' <=> Serves(k, q)
      BY <3>1 DEF Quiet, Serves
    <3>3. pc[a] # "recv" /\ pc'[a] # "recv" /\ \A b \in Actors : b # a => pc'[b] = pc[b]
      BY <2>2 DEF Get, TypeOK
    <3>4. CASE UNCHANGED <<conn, open>>
      BY <3>1, <3>2, <3>3, <3>4 DEF Owned
    <3>5. ASSUME NEW k \in Conns, open[k] = "new",
                 conn' = [conn EXCEPT ![a] = k], open' = [open EXCEPT ![k] = "open"]
          PROVE  Owned'
      <4>1. Quiet(k) /\ \A b \in Actors : conn[b] # k
        BY <3>5 DEF Owned
      <4>2. \A b \in Actors : conn'[b] = IF b = a THEN k ELSE conn[b]
        BY <3>5 DEF TypeOK
      <4>3. \A j \in Conns : open'[j] = "new" => open[j] = "new" /\ j # k
        BY <3>5 DEF TypeOK
      <4> QED
        BY <3>1, <3>2, <3>3, <4>1, <4>2, <4>3 DEF Owned
    <3> QED
      BY <2>2, <3>4, <3>5 DEF Get
  <2>3. ASSUME NEW a \in Actors, Send(a) PROVE Owned'
    <3>0. pc[a] = "send" /\ open[conn[a]] = "open"
      BY <2>3 DEF Send
    <3>1. conn[a] \in Conns /\ open[conn[a]] # "new" /\ Quiet(conn[a])
      BY <2>0, <3>0 DEF Owned
    <3>2. UNCHANGED <<question, conn, open, response, handler>>
      BY <2>3 DEF Send, unchangedByClient
    <3>3. \A k \in Conns : request'[k] = IF k = conn[a] THEN question[a] ELSE request[k]
      BY <2>3 DEF Send, TypeOK
    <3>4. pc'[a] = "recv" /\ \A b \in Actors : b # a => pc'[b] = pc[b]
      BY <2>3 DEF Send, TypeOK
    <3>5. Serves(conn[a], question[a])'
      BY <3>1, <3>2, <3>3 DEF Quiet, Serves
    <3>6. \A k \in Conns : k # conn[a] =>
             (Quiet(k)' <=> Quiet(k)) /\ \A q : Serves(k, q)' <=> Serves(k, q)
      BY <3>2, <3>3 DEF Quiet, Serves
    <3> QED
      BY <2>0, <3>1, <3>2, <3>4, <3>5, <3>6 DEF Owned
  <2>4. ASSUME NEW a \in Actors, Recv(a) PROVE Owned'
    <3>0. pc[a] = "recv"
      BY <2>4 DEF Recv
    <3>1. conn[a] \in Conns /\ Serves(conn[a], question[a]) /\ response[conn[a]] # NoMessage
      BY <2>0, <2>4, <3>0 DEF Recv, Owned
    <3>2. UNCHANGED <<question, conn, open, request, handler>>
      BY <2>4 DEF Recv, unchangedByClient
    <3>3. \A k \in Conns : response'[k] = IF k = conn[a] THEN NoMessage ELSE response[k]
      BY <2>4 DEF Recv, TypeOK
    <3>4. pc'[a] # "recv" /\ \A b \in Actors : b # a => pc'[b] = pc[b]
      BY <2>4 DEF Recv, TypeOK
    <3>5. Quiet(conn[a])'
      BY <3>1, <3>2, <3>3 DEF Quiet, Serves
    <3>6. \A k \in Conns : k # conn[a] =>
             (Quiet(k)' <=> Quiet(k)) /\ \A q : Serves(k, q)' <=> Serves(k, q)
      BY <3>2, <3>3 DEF Quiet, Serves
    <3> QED
      BY <2>0, <3>1, <3>2, <3>4, <3>5, <3>6 DEF Owned
  <2>5. ASSUME NEW a \in Actors, Broken(a) PROVE Owned'
    <3>1. UNCHANGED <<question, open, request, response, handler>>
      BY <2>5 DEF Broken, wireVars, unchangedByClient
    <3>2. \A k : (Quiet(k)' <=> Quiet(k)) /\ \A q : Serves(k, q)' <=> Serves(k, q)
      BY <3>1 DEF Quiet, Serves
    <3>3. \A b \in Actors : conn'[b] = IF b = a THEN None ELSE conn[b]
      BY <2>5 DEF Broken, TypeOK
    <3>4. pc'[a] # "recv" /\ \A b \in Actors : b # a => pc'[b] = pc[b]
      BY <2>5 DEF Broken, TypeOK
    <3> QED
      BY <2>0, <3>1, <3>2, <3>3, <3>4 DEF Owned
  <2>6. ASSUME NEW k \in Conns, LoadKey(k) PROVE Owned'
    <3>1. UNCHANGED <<clientVars, open, response>>
      BY <2>6 DEF LoadKey, unchangedByHandler
    <3>2. /\ \A j \in Conns : request'[j] = IF j = k THEN None ELSE request[j]
          /\ \A j \in Conns : handler'[j] =
                IF j = k THEN [pc |-> "store", for |-> request[k], key |-> key] ELSE handler[j]
      BY <2>6 DEF LoadKey, TypeOK
    <3>3. ~Quiet(k)
      BY <2>6 DEF LoadKey, Quiet
    <3>4. \A q \in Nat : Serves(k, q) => Serves(k, q)'
      BY <2>6, <3>1, <3>2 DEF LoadKey, Serves
    <3> QED
      BY <3>1, <3>2, <3>3, <3>4, OwnedLocally
  <2>7. ASSUME NEW k \in Conns, StoreKey(k) PROVE Owned'
    <3>1. UNCHANGED <<clientVars, open, request, response>>
      BY <2>7 DEF StoreKey, unchangedByHandler
    <3>2. \A j \in Conns : handler'[j] =
             IF j = k THEN [pc |-> "sample", for |-> handler[k].for, key |-> 0] ELSE handler[j]
      BY <2>7 DEF StoreKey, TypeOK
    <3>3. ~Quiet(k)
      BY <2>7 DEF StoreKey, Quiet
    <3>4. \A q \in Nat : Serves(k, q) => Serves(k, q)'
      BY <2>7, <3>1, <3>2 DEF StoreKey, Serves
    <3> QED
      BY <3>1, <3>2, <3>3, <3>4, OwnedLocally
  <2>8. ASSUME NEW k \in Conns, Reply(k) PROVE Owned'
    <3>1. UNCHANGED <<clientVars, open, request>>
      BY <2>8 DEF Reply, unchangedByHandler
    <3>2. \A j \in Conns : handler'[j] = IF j = k THEN Idle ELSE handler[j]
      BY <2>8 DEF Reply, TypeOK
    <3>3. ~Quiet(k)
      BY <2>8 DEF Reply, Quiet
    <3>4. PICK kind \in {"chunk", "error"} : \A j \in Conns : response'[j] =
             IF j = k /\ open[k] = "open" THEN [kind |-> kind, for |-> handler[k].for]
             ELSE response[j]
      BY <2>8 DEF Reply, TypeOK
    <3>5. \A q \in Nat : Serves(k, q) => Serves(k, q)'
      BY <2>8, <3>1, <3>2, <3>4 DEF Reply, Serves, Idle
    <3> QED
      BY <3>1, <3>2, <3>3, <3>4, <3>5, OwnedLocally
  <2>9. ASSUME NEW k \in Conns, Break(k) PROVE Owned'
    <3>1. UNCHANGED <<clientVars, handler>>
      BY <2>9 DEF Break
    <3>2. \A j \in Conns : open'[j] = "new" => open[j] = "new"
      BY <2>9 DEF Break, TypeOK
    <3>3. CASE UNCHANGED <<request, response>>
      BY <3>1, <3>2, <3>3, OwnedLocally DEF Quiet, Serves
    <3>4. CASE /\ request' = [request EXCEPT ![k] = None]
               /\ response' = [response EXCEPT ![k] = NoMessage]
      <4>1. \A j \in Conns : /\ request'[j] = IF j = k THEN None ELSE request[j]
                             /\ response'[j] = IF j = k THEN NoMessage ELSE response[j]
        BY <3>4 DEF TypeOK
      <4>2. \A q \in Nat : Serves(k, q) => Serves(k, q)'
        BY <3>1, <4>1 DEF Serves
      <4>3. Quiet(k) => Quiet(k)'
        BY <3>1, <4>1 DEF Quiet
      <4> QED
        BY <3>1, <3>2, <4>1, <4>2, <4>3, OwnedLocally
    <3> QED
      BY <2>9, <3>3, <3>4 DEF Break
  <2>10. CASE Stop
    <3>1. UNCHANGED <<pc, question, conn, response>>
      BY <2>10 DEF Stop, clientVars
    <3>2. \A j \in Conns : /\ request'[j] = None /\ handler'[j] = Idle
                           /\ open'[j] = "new" => open[j] = "new"
      BY <2>10 DEF Stop
    <3>0. Idle.pc = "idle"
      BY DEF Idle
    <3>3. \A k \in Conns : Quiet(k) => Quiet(k)'
      BY <3>0, <3>1, <3>2 DEF Quiet
    <3>4. \A k \in Conns, q \in Nat : Serves(k, q) => Serves(k, q)'
      BY <3>1, <3>2 DEF Serves, Idle
    <3> QED
      BY <2>0, <3>1, <3>2, <3>3, <3>4 DEF Owned
  <2>11. CASE UNCHANGED <<clientVars, wireVars, handler>>
    BY <2>11 DEF Owned, Quiet, Serves, clientVars, wireVars
  <2> QED
    BY <2>1, <2>2, <2>3, <2>4, <2>5, <2>6, <2>7, <2>8, <2>9, <2>10, <2>11
       DEF Next, ClientStep, HandlerStep, Start, vars
<1>3. TypeOK /\ Owned /\ Counted /\ [Next]_vars => Counted'
  <2> SUFFICES ASSUME TypeOK, Owned, Counted, [Next]_vars PROVE Counted'
    OBVIOUS
  <2>0. \A a \in Actors : question[a] \in Nat /\ QuestionBound[a] \in Nat /\ result[a].for \in Nat
    BY DEF TypeOK, Messages
  <2>1. ASSUME NEW a \in Actors, Ask(a) PROVE Counted'
    <3>1. result' = result /\ question[a] < QuestionBound[a]
      BY <2>1 DEF Ask
    <3>2. \A b \in Actors : question'[b] = IF b = a THEN question[a] + 1 ELSE question[b]
      BY <2>1 DEF Ask, TypeOK
    <3>3. \A b \in Actors : b # a => pc'[b] = pc[b]
      BY <2>1 DEF Ask, TypeOK
    <3> QED
      BY <2>0, <3>1, <3>2, <3>3 DEF Counted
  <2>2. ASSUME NEW a \in Actors, Recv(a) PROVE Counted'
    <3>1. pc[a] = "recv" /\ question' = question
      BY <2>2 DEF Recv
    <3>2. \A b \in Actors : pc'[b] = IF b = a THEN "idle" ELSE pc[b]
      BY <2>2 DEF Recv, TypeOK
    <3>3. \A b \in Actors : result'[b] = IF b = a THEN response[conn[a]] ELSE result[b]
      BY <2>2 DEF Recv, TypeOK
    <3>4. Serves(conn[a], question[a]) /\ response[conn[a]] # NoMessage
      BY <2>2, <3>1 DEF Recv, Owned
    <3>5. response[conn[a]].for = question[a]
      BY <3>4 DEF Serves
    <3> QED
      BY <2>0, <3>1, <3>2, <3>3, <3>5 DEF Counted
  <2>3. ASSUME NEW a \in Actors, Broken(a) PROVE Counted'
    <3>1. question' = question /\ pc[a] # "idle"
      BY <2>3 DEF Broken
    <3>2. \A b \in Actors : b # a => pc'[b] = pc[b] /\ result'[b] = result[b]
      BY <2>3 DEF Broken, TypeOK
    <3>3. result'[a].for \in {result[a].for, question[a]}
      BY <2>3 DEF Broken, TypeOK
    <3> QED
      BY <2>0, <3>1, <3>2, <3>3 DEF Counted
  <2>4. ASSUME NEW a \in Actors, Get(a) \/ Send(a) PROVE Counted'
    <3>1. UNCHANGED <<question, result>> /\ pc[a] # "idle"
      BY <2>4 DEF Get, Send
    <3>2. \A b \in Actors : b # a => pc'[b] = pc[b]
      BY <2>4 DEF Get, Send, TypeOK
    <3> QED
      BY <3>1, <3>2 DEF Counted
  <2>5. CASE UNCHANGED clientVars
    BY <2>5 DEF clientVars, Counted
  <2>6. ASSUME NEW k \in Conns, HandlerStep(k) \/ Break(k) PROVE UNCHANGED clientVars
    BY <2>6 DEF HandlerStep, LoadKey, StoreKey, Reply, Break, unchangedByHandler
  <2>7. ASSUME Stop \/ Start \/ UNCHANGED vars PROVE UNCHANGED clientVars
    BY <2>7 DEF Stop, Start, vars
  <2> QED
    BY <2>1, <2>2, <2>3, <2>4, <2>5, <2>6, <2>7 DEF Next, ClientStep
<1> QED
  BY <1>1, <1>2, <1>3, TypeCorrect, PTL DEF Spec

(* What PolicyOracle sees of a state. *)
asked == [a \in Actors |-> IF pc[a] = "idle" THEN None ELSE question[a]]

(***************************************************************************)
(* Every query gets the answer to its own observation or fails, and none   *)
(* is answered twice: asking is Ask of PolicyOracle, receiving and giving  *)
(* up are Answer, and every other step is invisible.                       *)
(***************************************************************************)
THEOREM OneAnswerCorrect == Spec => OneAnswer
<1>1. Init => Oracle!Init
  BY DEF Init, Oracle!Init, NoMessage
<1>2. TypeOK /\ Owned /\ Counted /\ [Next]_vars => [Oracle!Next]_<<asked, result>>
  <2> SUFFICES ASSUME TypeOK, Owned, Counted, [Next]_vars
               PROVE  Oracle!Next \/ UNCHANGED <<asked, result>>
    BY DEF asked, Oracle!Next, Oracle!Ask, Oracle!Answer
  <2>0. \A a \in Actors : /\ question[a] \in Nat /\ QuestionBound[a] \in Nat
                          /\ result[a].for \in Nat
    BY DEF TypeOK, Messages
  <2>1. ASSUME NEW a \in Actors, Ask(a) PROVE Oracle!Ask(a)
    <3> DEFINE q == question[a] + 1
    <3>1. pc[a] = "idle" /\ result' = result /\ q \in 1..QuestionBound[a]
      BY <2>0, <2>1 DEF Ask
    <3>2. asked[a] = None
      BY <3>1 DEF asked
    <3>3. q # result[a].for
      BY <2>0 DEF Counted
    <3>4. asked' = [asked EXCEPT ![a] = q]
      BY <2>1 DEF Ask, TypeOK, asked
    <3>5. q \in UNION {1..QuestionBound[b] : b \in Actors}
      BY <3>1
    <3> HIDE DEF q
    <3> QED
      BY <3>1, <3>2, <3>3, <3>4, <3>5 DEF Oracle!Ask, asked
  <2>2. ASSUME NEW a \in Actors, NEW kind \in {"chunk", "error"}, pc[a] # "idle",
               pc' = [pc EXCEPT ![a] = "idle"], question' = question,
               result' = [result EXCEPT ![a] = [kind |-> kind, for |-> question[a]]]
        PROVE  Oracle!Answer(a)
    <3>1. asked[a] = question[a] /\ asked[a] # None
      BY <2>0, <2>2 DEF asked, Counted, None
    <3>2. asked' = [asked EXCEPT ![a] = None]
      BY <2>2 DEF TypeOK, asked
    <3> QED
      BY <2>2, <3>1, <3>2 DEF Oracle!Answer, asked
  <2>3. ASSUME NEW a \in Actors, Recv(a) PROVE Oracle!Answer(a)
    <3>1. pc[a] = "recv" /\ question' = question /\ pc' = [pc EXCEPT ![a] = "idle"]
      BY <2>3 DEF Recv
    <3>2. Serves(conn[a], question[a]) /\ response[conn[a]] # NoMessage
      BY <2>3, <3>1 DEF Recv, Owned
    <3>3. PICK kind \in {"chunk", "error"} :
             response[conn[a]] = [kind |-> kind, for |-> question[a]]
      BY <3>2 DEF Serves
    <3>4. result' = [result EXCEPT ![a] = [kind |-> kind, for |-> question[a]]]
      BY <2>3, <3>3 DEF Recv
    <3> QED
      BY <2>2, <3>1, <3>4
  <2>4. ASSUME NEW a \in Actors, Broken(a)
        PROVE  Oracle!Answer(a) \/ UNCHANGED <<asked, result>>
    <3>1. pc[a] # "idle" /\ question' = question
      BY <2>4 DEF Broken
    <3>2. CASE attempt[a] < Attempts
      <4>1. pc' = [pc EXCEPT ![a] = "get"] /\ result' = result
        BY <2>4, <3>2 DEF Broken
      <4>2. \A b \in Actors : pc'[b] = "idle" <=> pc[b] = "idle"
        BY <3>1, <4>1 DEF TypeOK
      <4>3. \A b \in Actors : (IF pc'[b] = "idle" THEN None ELSE question'[b])
                               = IF pc[b] = "idle" THEN None ELSE question[b]
        BY <3>1, <4>2
      <4> QED
        BY <4>1, <4>3 DEF asked, None
    <3>3. CASE ~(attempt[a] < Attempts)
      BY <2>2, <2>4, <3>1, <3>3 DEF Broken
    <3> QED
      BY <3>2, <3>3
  <2>5. ASSUME NEW a \in Actors, Get(a) \/ Send(a) PROVE UNCHANGED <<asked, result>>
    BY <2>5 DEF Get, Send, TypeOK, asked
  <2>6. CASE UNCHANGED clientVars
    BY <2>6 DEF clientVars, asked
  <2>7. ASSUME NEW k \in Conns, HandlerStep(k) \/ Break(k) PROVE UNCHANGED clientVars
    BY <2>7 DEF HandlerStep, LoadKey, StoreKey, Reply, Break, unchangedByHandler
  <2>8. ASSUME Stop \/ Start \/ UNCHANGED vars PROVE UNCHANGED clientVars
    BY <2>8 DEF Stop, Start, vars
  <2>9. ASSUME NEW a \in Actors, Ask(a) \/ ClientStep(a)
        PROVE  Oracle!Next \/ UNCHANGED <<asked, result>>
    <3>1. CASE Ask(a)
      BY <2>1, <3>1 DEF Oracle!Next
    <3>2. CASE Recv(a)
      BY <2>3, <3>2 DEF Oracle!Next
    <3>3. CASE Broken(a)
      BY <2>4, <3>3 DEF Oracle!Next
    <3>4. CASE Get(a) \/ Send(a)
      BY <2>5, <3>4
    <3> QED
      BY <2>9, <3>1, <3>2, <3>3, <3>4 DEF ClientStep
  <2> QED
    BY <2>6, <2>7, <2>8, <2>9 DEF Next
<1> QED
  BY <1>1, <1>2, TypeCorrect, OwnedInvariant, PTL DEF Spec, OneAnswer, Oracle!Spec, asked
==============================================================================
