------------------------------ MODULE BasePolicy ------------------------------
(***************************************************************************)
(* The base policy's process and its clients: query with a connection that *)
(* is kept, reconnects and three attempts, against a server with a thread  *)
(* per connection, whose policy functions split one random key without a   *)
(* lock.  Connections break and the server restarts.                       *)
(***************************************************************************)
EXTENDS Naturals, FiniteSets

CONSTANTS Actors,          \* processes that hold a BasePolicyClient
          Attempts,        \* of a query, 3 in the code
          Conns,           \* bound: connections ever made, as 1..n
          QuestionBound,   \* bound: queries of each actor
          BreakBound,      \* bound: connections that break
          RestartBound     \* bound: restarts of the server

ASSUME BasePolicyAssumption ==
  /\ Attempts \in Nat \ {0}
  /\ Conns \subseteq Nat \ {0}
  /\ QuestionBound \in [Actors -> Nat]

VARIABLES pc, question, attempt, conn, \* of each actor: where query stands
          result,                      \* what its last query came to
          open, request, response,     \* of each connection
          handler,                     \* the server thread of each connection
          up, key,                     \* the server runs; splits of its key
          breaks, restarts,
          used,      \* history: keys that samples were drawn with
          repeated,  \* history: one of them was drawn with twice
          overlapped \* history: two threads were inside the split at once

clientVars == <<pc, question, attempt, conn, result>>
wireVars == <<open, request, response>>
faultVars == <<breaks, restarts>>
history == <<used, repeated, overlapped>>
vars == <<clientVars, wireVars, handler, up, key, faultVars, history>>

None == 0
NoMessage == [kind |-> "none", for |-> None]
Idle == [pc |-> "idle", for |-> None, key |-> 0]

Init ==
  /\ pc = [a \in Actors |-> "idle"]
  /\ question = [a \in Actors |-> 0]
  /\ attempt = [a \in Actors |-> 0]
  /\ conn = [a \in Actors |-> None]
  /\ result = [a \in Actors |-> NoMessage]
  /\ open = [k \in Conns |-> "new"]
  /\ request = [k \in Conns |-> None]
  /\ response = [k \in Conns |-> NoMessage]
  /\ handler = [k \in Conns |-> Idle]
  /\ up = TRUE /\ key = 0
  /\ breaks = 0 /\ restarts = 0
  /\ used = {} /\ repeated = FALSE /\ overlapped = FALSE

-----------------------------------------------------------------------------
unchangedByClient == <<handler, up, key, faultVars, history>>

\* A question is the actor's next observation; the numbers are the actor's own.
Ask(a) ==
  /\ pc[a] = "idle" /\ question[a] < QuestionBound[a]
  /\ question' = [question EXCEPT ![a] = @ + 1]
  /\ attempt' = [attempt EXCEPT ![a] = 1]
  /\ pc' = [pc EXCEPT ![a] = "get"]
  /\ UNCHANGED <<conn, result, wireVars, unchangedByClient>>

\* Mutant: a connection refused is not waited for.
GetNone(a) ==
  /\ pc[a] = "get" /\ ~up
  /\ pc' = [pc EXCEPT ![a] = "send"]
  /\ UNCHANGED <<question, attempt, conn, result, wireVars, unchangedByClient>>

(***************************************************************************)
(* _get: the connection kept, broken or not, or else a new one; _connect   *)
(* tries every two seconds until the server accepts.                       *)
(***************************************************************************)
Get(a) ==
  /\ pc[a] = "get"
  /\ \/ conn[a] # None /\ UNCHANGED <<conn, open>>
     \/ /\ conn[a] = None /\ up
        /\ \E k \in Conns :
             /\ open[k] = "new" /\ \A j \in Conns : open[j] = "new" => k <= j
             /\ conn' = [conn EXCEPT ![a] = k]
             /\ open' = [open EXCEPT ![k] = "open"]
  /\ pc' = [pc EXCEPT ![a] = "send"]
  /\ UNCHANGED <<question, attempt, result, request, response, unchangedByClient>>

Send(a) ==
  /\ pc[a] = "send" /\ open[conn[a]] = "open"
  /\ request' = [request EXCEPT ![conn[a]] = question[a]]
  /\ pc' = [pc EXCEPT ![a] = "recv"]
  /\ UNCHANGED <<question, attempt, conn, result, open, response, unchangedByClient>>

\* The query returns a chunk, or raises RuntimeError for an error status; the
\* connection is kept in both cases.
Recv(a) ==
  /\ pc[a] = "recv" /\ response[conn[a]] # NoMessage
  /\ result' = [result EXCEPT ![a] = response[conn[a]]]
  /\ response' = [response EXCEPT ![conn[a]] = NoMessage]
  /\ pc' = [pc EXCEPT ![a] = "idle"]
  /\ UNCHANGED <<question, attempt, conn, open, request, unchangedByClient>>

\* Mutant: tried again without end, over the connection that broke.
BrokenKept(a) ==
  /\ pc[a] \in {"send", "recv"} /\ open[conn[a]] = "closed" /\ response[conn[a]] = NoMessage
  /\ pc' = [pc EXCEPT ![a] = "get"]
  /\ UNCHANGED <<question, attempt, conn, result, wireVars, unchangedByClient>>

\* Mutant: a recv that times out gives up the question and not the connection.
BrokenOrLate(a) ==
  /\ pc[a] \in {"send", "recv"} /\ response[conn[a]] = NoMessage
  /\ conn' = [conn EXCEPT ![a] = IF open[@] = "open" THEN @ ELSE None]
  /\ pc' = [pc EXCEPT ![a] = "idle"]
  /\ result' = [result EXCEPT ![a] = [kind |-> "error", for |-> question[a]]]
  /\ UNCHANGED <<question, attempt, wireVars, unchangedByClient>>

(***************************************************************************)
(* ConnectionClosed or a socket error: _close, and the same question again *)
(* over a new connection, whatever became of the first one.                *)
(***************************************************************************)
Broken(a) ==
  /\ pc[a] \in {"send", "recv"} /\ open[conn[a]] = "closed" /\ response[conn[a]] = NoMessage
  /\ conn' = [conn EXCEPT ![a] = None]
  /\ IF attempt[a] < Attempts
     THEN /\ pc' = [pc EXCEPT ![a] = "get"] /\ attempt' = [attempt EXCEPT ![a] = @ + 1]
          /\ UNCHANGED result
     ELSE /\ pc' = [pc EXCEPT ![a] = "idle"]
          /\ result' = [result EXCEPT ![a] = [kind |-> "error", for |-> question[a]]]
          /\ UNCHANGED attempt
  /\ UNCHANGED <<question, wireVars, unchangedByClient>>

-----------------------------------------------------------------------------
unchangedByHandler == <<clientVars, open, up, faultVars>>

InSplit(k) == handler[k].pc = "store"

\* The thread of a connection takes its next message and calls policy_fn:
\* rng["key"], k = split(rng["key"]), the load...
LoadKey(k) ==
  /\ handler[k] = Idle /\ request[k] # None
  /\ request' = [request EXCEPT ![k] = None]
  /\ handler' = [handler EXCEPT ![k] = [pc |-> "store", for |-> request[k], key |-> key]]
  /\ overlapped' = (overlapped \/ \E j \in Conns : InSplit(j))
  /\ UNCHANGED <<unchangedByHandler, response, key, used, repeated>>

\* Mutant: the sample is drawn with the key that is stored back.
StoreOld(k) ==
  /\ handler[k].pc = "store"
  /\ UNCHANGED key
  /\ used' = used \cup {handler[k].key}
  /\ repeated' = (repeated \/ handler[k].key \in used)
  /\ handler' = [handler EXCEPT ![k] = [pc |-> "sample", for |-> @.for, key |-> 0]]
  /\ UNCHANGED <<unchangedByHandler, request, response, overlapped>>

\* ... and the store, of the next key, after which k is the sample's.
StoreKey(k) ==
  /\ handler[k].pc = "store"
  /\ key' = handler[k].key + 1
  /\ used' = used \cup {handler[k].key}
  /\ repeated' = (repeated \/ handler[k].key \in used)
  /\ handler' = [handler EXCEPT ![k] = [pc |-> "sample", for |-> @.for, key |-> 0]]
  /\ UNCHANGED <<unchangedByHandler, request, response, overlapped>>

\* The sample, or the exception that is sent back instead; nobody is there to
\* receive either when the connection has closed, and the thread ends.
Reply(k) ==
  /\ handler[k].pc = "sample"
  /\ \E kind \in {"chunk", "error"} :
       response' = IF open[k] = "open"
                   THEN [response EXCEPT ![k] = [kind |-> kind, for |-> handler[k].for]]
                   ELSE response
  /\ handler' = [handler EXCEPT ![k] = Idle]
  /\ UNCHANGED <<unchangedByHandler, request, key, history>>

-----------------------------------------------------------------------------
\* The network: a connection breaks, with its request or answer or without.
Break(k) ==
  /\ open[k] = "open" /\ breaks < BreakBound
  /\ open' = [open EXCEPT ![k] = "closed"]
  /\ breaks' = breaks + 1
  /\ \/ UNCHANGED <<request, response>>
     \/ /\ request' = [request EXCEPT ![k] = None]
        /\ response' = [response EXCEPT ![k] = NoMessage]
  /\ UNCHANGED <<clientVars, handler, up, key, restarts, history>>

\* The server's process ends, and its threads and connections with it.
Stop ==
  /\ up /\ restarts < RestartBound
  /\ up' = FALSE /\ restarts' = restarts + 1
  /\ open' = [k \in Conns |-> IF open[k] = "open" THEN "closed" ELSE open[k]]
  /\ request' = [k \in Conns |-> None]
  /\ handler' = [k \in Conns |-> Idle]
  /\ UNCHANGED <<clientVars, response, key, breaks, history>>

\* main: the checkpoint is loaded and the key made from the seed again.
Start ==
  /\ ~up
  /\ up' = TRUE /\ key' = 0
  /\ UNCHANGED <<clientVars, wireVars, handler, faultVars, history>>

-----------------------------------------------------------------------------
ClientStep(a) == Get(a) \/ Send(a) \/ Recv(a) \/ Broken(a)
HandlerStep(k) == LoadKey(k) \/ StoreKey(k) \/ Reply(k)

Next ==
  \/ \E a \in Actors : Ask(a) \/ ClientStep(a)
  \/ \E k \in Conns : HandlerStep(k) \/ Break(k)
  \/ Stop \/ Start

Fairness ==
  /\ \A a \in Actors : WF_vars(ClientStep(a))
  /\ \A k \in Conns : WF_vars(HandlerStep(k))

Spec == Init /\ [][Next]_vars /\ Fairness

-----------------------------------------------------------------------------
Messages == [kind : {"none", "chunk", "error"}, for : Nat]

TypeOK ==
  /\ pc \in [Actors -> {"idle", "get", "send", "recv"}]
  /\ question \in [Actors -> Nat]
  /\ attempt \in [Actors -> 0..Attempts]
  /\ conn \in [Actors -> Conns \cup {None}]
  /\ \A a \in Actors : pc[a] \in {"send", "recv"} => conn[a] # None
  /\ result \in [Actors -> Messages]
  /\ open \in [Conns -> {"new", "open", "closed"}]
  /\ request \in [Conns -> Nat]
  /\ response \in [Conns -> Messages]
  /\ handler \in [Conns -> [pc : {"idle", "store", "sample"},
                            for : Nat, key : Nat]]
  /\ up \in BOOLEAN /\ key \in Nat /\ overlapped \in BOOLEAN

(***************************************************************************)
(* Every query gets the answer to its own observation or fails, and none   *)
(* is answered twice: no answer that a broken connection or an error left  *)
(* behind is taken for that of a later question.                           *)
(***************************************************************************)
Oracle == INSTANCE PolicyOracle
            WITH Questions <- UNION {1..QuestionBound[a] : a \in Actors}, NoQuestion <- None,
                 asked <- [a \in Actors |-> IF pc[a] = "idle" THEN None ELSE question[a]]

OneAnswer == Oracle!Spec

(***************************************************************************)
(* Two base chunks are sampled with one key only after two connection      *)
(* threads overlapped in the split, as those of two actors do, or those of *)
(* one actor that asked again over a new connection while the old thread   *)
(* was at work, or after a restart from the seed.                          *)
(***************************************************************************)
KeysDistinct == repeated => overlapped \/ restarts > 0

(***************************************************************************)
(* A query ends, with a chunk or an exception, if the server stays up from *)
(* some time on: it neither waits for an answer that will not come nor     *)
(* reconnects for ever.                                                    *)
(***************************************************************************)
QueryEnds == <>[]up => \A a \in Actors : (pc[a] # "idle" ~> pc[a] = "idle")
==============================================================================
