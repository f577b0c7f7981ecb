---------------------------- MODULE ParamsEndpoint ----------------------------
(***************************************************************************)
(* How parameters travel from the learner to the actors: _publish_agent in *)
(* the learner thread, the cache of serialized parameters, GET /params in  *)
(* the server thread, and clients (not part of the repository) that keep   *)
(* the version of the last answer and ask for a newer one.                 *)
(*                                                                         *)
(* The server thread runs one handler at a time, to its end (the handler   *)
(* does not await inside latest_params_bytes), but the learner publishes   *)
(* between any two of its reads of the session.  A client may give up at   *)
(* any time and ask again.  Parameters are numbered by the updates they    *)
(* went through.                                                           *)
(***************************************************************************)
EXTENDS Naturals

CONSTANTS Clients,
          None,          \* no version, no parameters
          Nobody,        \* the server thread is idle,
          Gone,          \* or serves a client that has given up
          PublishBound   \* bound: updates the learner publishes

ASSUME EndpointAssumption ==
  /\ None \notin Nat
  /\ Nobody \notin Clients /\ Gone \notin Clients /\ Nobody # Gone
  /\ PublishBound \in Nat

VARIABLES agent,     \* _agent
          version,   \* _params_version
          cache,     \* _params_bytes and _params_bytes_version
          serving,   \* whose request the server thread handles
          at,        \* where in latest_params_bytes it is
          label,     \* its local v
          call,      \* the request of each client
          since,     \* the If-None-Match it carries
          reply,     \* the answer to it
          have,      \* the parameters each client acts with
          holds,     \* the version it knows them by
          asked      \* history: version when it asked

learnerVars == <<agent, version>>
serverVars == <<cache, serving, at, label>>
clientVars == <<call, since, reply, have, holds, asked>>
vars == <<learnerVars, serverVars, clientVars>>

Versions == Nat \cup {None}

\* body and X-Params-Version of an answer; a 304 has no body.
Answers == [params : Versions, version : Versions]

Nothing == [params |-> None, version |-> None]

Init ==
  /\ agent = 0 /\ version = 0
  /\ cache = Nothing
  /\ serving = Nobody /\ at = "check" /\ label = 0
  /\ call = [c \in Clients |-> "idle"]
  /\ since = [c \in Clients |-> None]
  /\ reply = [c \in Clients |-> Nothing]
  /\ have = [c \in Clients |-> 0]
  /\ holds = [c \in Clients |-> None]
  /\ asked = [c \in Clients |-> 0]

-----------------------------------------------------------------------------
(***************************************************************************)
(* _publish_agent: the reference, then the counter.                        *)
(***************************************************************************)
Publish ==
  /\ agent = version
  /\ agent < PublishBound
  /\ agent' = agent + 1
  /\ UNCHANGED <<version, serverVars, clientVars>>

CountVersion ==
  /\ agent # version
  /\ version' = version + 1
  /\ UNCHANGED <<agent, serverVars, clientVars>>

-----------------------------------------------------------------------------
(***************************************************************************)
(* GET /params: latest_params_bytes, read by read.                         *)
(***************************************************************************)

\* The client may have given up meanwhile; the handler does not notice.
Answer(a) ==
  /\ reply' = [c \in Clients |-> IF c = serving THEN a ELSE reply[c]]
  /\ call' = [c \in Clients |-> IF c = serving THEN "answered" ELSE call[c]]
  /\ serving' = Nobody
  /\ at' = "check"

\* Mutant: any If-None-Match is answered with a 304.
ServeAnySince(c) ==
  /\ serving = Nobody /\ call[c] = "sent"
  /\ serving' = c
  /\ at' = IF since[c] # None THEN "unchanged" ELSE "cache"
  /\ call' = [call EXCEPT ![c] = "handled"]
  /\ UNCHANGED <<learnerVars, cache, label, since, reply, have, holds, asked>>

Serve(c) ==
  /\ serving = Nobody /\ call[c] = "sent"
  /\ serving' = c
  /\ at' = IF since[c] = version THEN "unchanged" ELSE "cache"
  /\ call' = [call EXCEPT ![c] = "handled"]
  /\ UNCHANGED <<learnerVars, cache, label, since, reply, have, holds, asked>>

\* A second read of the version labels the 304.
Unchanged ==
  /\ at = "unchanged"
  /\ Answer([params |-> None, version |-> version])
  /\ UNCHANGED <<learnerVars, cache, label, since, have, holds, asked>>

\* Mutant: what was serialized once is served for ever.
CacheHitAny ==
  /\ at = "cache" /\ cache.params # None
  /\ Answer(cache)
  /\ UNCHANGED <<learnerVars, cache, label, since, have, holds, asked>>

CacheHit ==
  /\ at = "cache" /\ cache.version = version
  /\ Answer(cache)
  /\ UNCHANGED <<learnerVars, cache, label, since, have, holds, asked>>

CacheMiss ==
  /\ at = "cache" /\ cache.version # version
  /\ at' = "label"
  /\ UNCHANGED <<learnerVars, cache, serving, label, clientVars>>

\* Mutant: the bytes are labelled with the version to come.
LabelNext ==
  /\ at = "label"
  /\ label' = version + 1
  /\ at' = "serialize"
  /\ UNCHANGED <<learnerVars, cache, serving, clientVars>>

\* v is read before the agent is.
Label ==
  /\ at = "label"
  /\ label' = version
  /\ at' = "serialize"
  /\ UNCHANGED <<learnerVars, cache, serving, clientVars>>

Serialize ==
  /\ at = "serialize"
  /\ cache' = [params |-> agent, version |-> label]
  /\ Answer(cache')
  /\ UNCHANGED <<learnerVars, label, since, have, holds, asked>>

ServerStep == Unchanged \/ CacheHit \/ CacheMiss \/ Label \/ Serialize

-----------------------------------------------------------------------------
(***************************************************************************)
(* The clients.                                                            *)
(***************************************************************************)
Ask(c) ==
  /\ call[c] = "idle"
  /\ call' = [call EXCEPT ![c] = "sent"]
  /\ since' = [since EXCEPT ![c] = holds[c]]
  /\ asked' = [asked EXCEPT ![c] = version]
  /\ UNCHANGED <<learnerVars, serverVars, reply, have, holds>>

\* Mutant: the (empty) body of a 304 is taken for parameters.
ReceiveAny(c) ==
  /\ call[c] = "answered"
  /\ have' = [have EXCEPT ![c] = reply[c].params]
  /\ holds' = [holds EXCEPT ![c] = reply[c].version]
  /\ call' = [call EXCEPT ![c] = "idle"]
  /\ reply' = [reply EXCEPT ![c] = Nothing]
  /\ UNCHANGED <<learnerVars, serverVars, since, asked>>

\* Of a 304 a client keeps nothing.
Receive(c) ==
  /\ call[c] = "answered"
  /\ IF reply[c].params = None
     THEN UNCHANGED <<have, holds>>
     ELSE /\ have' = [have EXCEPT ![c] = reply[c].params]
          /\ holds' = [holds EXCEPT ![c] = reply[c].version]
  /\ call' = [call EXCEPT ![c] = "idle"]
  /\ reply' = [reply EXCEPT ![c] = Nothing]
  /\ UNCHANGED <<learnerVars, serverVars, since, asked>>

\* A timeout, a broken connection: the answer is lost, late or unwanted.
GiveUp(c) ==
  /\ call[c] # "idle"
  /\ call' = [call EXCEPT ![c] = "idle"]
  /\ reply' = [reply EXCEPT ![c] = Nothing]
  /\ serving' = IF serving = c THEN Gone ELSE serving
  /\ UNCHANGED <<learnerVars, cache, at, label, since, have, holds, asked>>

-----------------------------------------------------------------------------
Next ==
  \/ Publish \/ CountVersion
  \/ ServerStep
  \/ \E c \in Clients : Serve(c) \/ Ask(c) \/ Receive(c) \/ GiveUp(c)

(***************************************************************************)
(* The learner finishes a publication it began and the server thread the   *)
(* handler it runs; no client is starved of the server thread, and one     *)
(* that polls and gets answer after answer does not lose them all.         *)
(***************************************************************************)
Fairness ==
  /\ WF_vars(CountVersion)
  /\ WF_vars(ServerStep)
  /\ \A c \in Clients : WF_vars(Ask(c)) /\ SF_vars(Serve(c)) /\ SF_vars(Receive(c))

Spec == Init /\ [][Next]_vars

FairSpec == Spec /\ Fairness

-----------------------------------------------------------------------------
TypeOK ==
  /\ agent \in Nat /\ version \in Nat
  /\ cache \in Answers
  /\ serving \in Clients \cup {Nobody, Gone}
  /\ at \in {"check", "unchanged", "cache", "label", "serialize"}
  /\ label \in Nat
  /\ call \in [Clients -> {"idle", "sent", "handled", "answered"}]
  /\ since \in [Clients -> Versions]
  /\ reply \in [Clients -> Answers]
  /\ have \in [Clients -> Nat]
  /\ holds \in [Clients -> Versions]
  /\ asked \in [Clients -> Nat]

(***************************************************************************)
(* Whichever answer a client gets, a body or a 304, and however the        *)
(* publications fell between the reads of the handler, it then acts with   *)
(* parameters no older than those that were current when it asked.         *)
(***************************************************************************)
AnswersAreFresh ==
  \A c \in Clients :
    call[c] = "answered" =>
      asked[c] <= IF reply[c].params = None THEN have[c] ELSE reply[c].params

(***************************************************************************)
(* Over retries, late answers and cached bytes the clients see a register: *)
(* see ParamsRegister.  In particular no client ever goes back to older    *)
(* parameters, though labels lag behind the parameters they stand for.     *)
(***************************************************************************)
Register == INSTANCE ParamsRegister WITH seen <- have

ServesRegister == Register!Spec

(***************************************************************************)
(* When the learner has stopped, every client that keeps asking ends up    *)
(* with its last parameters, if the clients' timeouts let the server       *)
(* answer from some time on: no stale cache entry carries the last version *)
(* and no 304 holds a client on older parameters for ever.                 *)
(***************************************************************************)
CatchesUp ==
  <>[][\A c \in Clients : ~(call[c] # "answered" /\ GiveUp(c))]_vars
    => <>[](\A c \in Clients : have[c] = agent)

(***************************************************************************)
(* "If since_version equals the current version, returns (None, version)"  *)
(* (session.py:402): the version of a 304 is the one the client sent, the  *)
(* one it holds the parameters of.                                         *)
(***************************************************************************)
NotModifiedIsSince ==
  \A c \in Clients :
    call[c] = "answered" /\ reply[c].params = None => reply[c].version = since[c]
==============================================================================
