------------------------- MODULE ParamsEndpoint_proofs -------------------------
(***************************************************************************)
(* Proofs about ParamsEndpoint, for any set of clients and any number of   *)
(* publications: types, freshness of every answer, and that the endpoint   *)
(* and its clients implement the register of ParamsRegister.               *)
(*                                                                         *)
(* The argument is a chain of inequalities that hold between any two reads *)
(* of a handler.  What a client acts with is at most what the cache holds, *)
(* that is at most the agent, and the agent is at most one ahead of the    *)
(* version; labels go the other way: the version a client or the cache     *)
(* knows parameters by is at most the number of those parameters.          *)
(***************************************************************************)
EXTENDS ParamsEndpoint, TLAPS

Bytes == IF cache.params = None THEN 0 ELSE cache.params

Publication == version <= agent /\ agent <= version + 1

CacheOrdered ==
  /\ cache.params = None <=> cache.version = None
  /\ cache.params # None => cache.version <= cache.params
  /\ Bytes <= agent

HandlerOrdered ==
  /\ at = "serialize" => label <= version
  /\ at = "check" <=> serving = Nobody
  /\ \A c \in Clients : call[c] = "handled" <=> serving = c

ClientOrdered(c) ==
  /\ asked[c] <= version
  /\ have[c] <= Bytes
  /\ holds[c] # None => holds[c] <= have[c]
  /\ call[c] # "idle" => since[c] = holds[c]
  /\ call[c] = "handled" /\ at = "unchanged" => asked[c] <= have[c]
  /\ call[c] = "answered" =>
       IF reply[c].params = None THEN asked[c] <= have[c]
       ELSE /\ reply[c].version # None
            /\ reply[c].version <= reply[c].params
            /\ asked[c] <= reply[c].params /\ have[c] <= reply[c].params
            /\ reply[c].params <= Bytes

IInv ==
  /\ TypeOK
  /\ Publication /\ CacheOrdered /\ HandlerOrdered
  /\ \A c \in Clients : ClientOrdered(c)

USE EndpointAssumption

(***************************************************************************)
(* Nothing is cached, asked or held at first.                              *)
(***************************************************************************)
LEMMA InitIInv == Init => IInv
  BY DEF Init, IInv, TypeOK, Publication, CacheOrdered, HandlerOrdered,
         ClientOrdered, Bytes, Versions, Answers, Nothing

(***************************************************************************)
(* The types hold through every step.                                      *)
(***************************************************************************)
LEMMA StepTypeOK == IInv /\ [Next]_vars => TypeOK'
<1> SUFFICES ASSUME IInv, [Next]_vars PROVE TypeOK'
  OBVIOUS
<1> USE DEF IInv, TypeOK, Versions, Answers
<1>1. CASE Publish
  BY <1>1 DEF Publish, serverVars, clientVars
<1>2. CASE CountVersion
  BY <1>2 DEF CountVersion, serverVars, clientVars
<1>3. CASE Unchanged
  BY <1>3 DEF Unchanged, Answer, learnerVars
<1>4. CASE CacheHit
  BY <1>4 DEF CacheHit, Answer, learnerVars
<1>5. CASE CacheMiss
  BY <1>5 DEF CacheMiss, learnerVars, clientVars
<1>6. CASE Label
  BY <1>6 DEF Label, learnerVars, clientVars
<1>7. CASE Serialize
  BY <1>7 DEF Serialize, Answer, learnerVars
<1>8. ASSUME NEW c \in Clients, Serve(c) PROVE TypeOK'
  BY <1>8 DEF Serve, learnerVars
<1>9. ASSUME NEW c \in Clients, Ask(c) PROVE TypeOK'
  BY <1>9 DEF Ask, learnerVars, serverVars
<1>10. ASSUME NEW c \in Clients, Receive(c) PROVE TypeOK'
  BY <1>10 DEF Receive, learnerVars, serverVars, Nothing
<1>11. ASSUME NEW c \in Clients, GiveUp(c) PROVE TypeOK'
  BY <1>11 DEF GiveUp, learnerVars, Nothing
<1>12. CASE UNCHANGED vars
  BY <1>12 DEF vars, learnerVars, serverVars, clientVars
<1> QED
  BY <1>1, <1>2, <1>3, <1>4, <1>5, <1>6, <1>7, <1>8, <1>9, <1>10, <1>11, <1>12
     DEF Next, ServerStep

(***************************************************************************)
(* _publish_agent is the only writer of both, and takes turns.             *)
(***************************************************************************)
LEMMA PublicationKept ==
  ASSUME IInv, [Next]_vars
  PROVE  Publication'
<1> USE DEF IInv, TypeOK, Versions, Answers, learnerVars, serverVars, clientVars,
            Publication
<1>1. CASE Publish
  BY <1>1 DEF Publish
<1>2. CASE CountVersion
  BY <1>2 DEF CountVersion
<1>3. CASE Unchanged
  BY <1>3 DEF Unchanged, Answer
<1>4. CASE CacheHit
  BY <1>4 DEF CacheHit, Answer
<1>5. CASE CacheMiss
  BY <1>5 DEF CacheMiss
<1>6. CASE Label
  BY <1>6 DEF Label
<1>7. CASE Serialize
  BY <1>7 DEF Serialize, Answer
<1>8. ASSUME NEW c \in Clients, Serve(c) PROVE Publication'
  BY <1>8 DEF Serve
<1>9. ASSUME NEW c \in Clients, Ask(c) PROVE Publication'
  BY <1>9 DEF Ask
<1>10. ASSUME NEW c \in Clients, Receive(c) PROVE Publication'
  BY <1>10 DEF Receive, Nothing
<1>11. ASSUME NEW c \in Clients, GiveUp(c) PROVE Publication'
  BY <1>11 DEF GiveUp, Nothing
<1>12. CASE UNCHANGED vars
  BY <1>12 DEF vars
<1> QED
  BY <1>1, <1>2, <1>3, <1>4, <1>5, <1>6, <1>7, <1>8, <1>9, <1>10, <1>11, <1>12
     DEF Next, ServerStep

(***************************************************************************)
(* v is read before the agent it labels.                                   *)
(***************************************************************************)
LEMMA CacheKept ==
  ASSUME IInv, [Next]_vars
  PROVE  CacheOrdered'
<1> USE DEF IInv, TypeOK, Versions, Answers, learnerVars, serverVars, clientVars,
            CacheOrdered, Publication, HandlerOrdered, Bytes
<1>1. CASE Publish
  BY <1>1 DEF Publish
<1>2. CASE CountVersion
  BY <1>2 DEF CountVersion
<1>3. CASE Unchanged
  BY <1>3 DEF Unchanged, Answer
<1>4. CASE CacheHit
  BY <1>4 DEF CacheHit, Answer
<1>5. CASE CacheMiss
  BY <1>5 DEF CacheMiss
<1>6. CASE Label
  BY <1>6 DEF Label
<1>7. CASE Serialize
  BY <1>7 DEF Serialize, Answer
<1>8. ASSUME NEW c \in Clients, Serve(c) PROVE CacheOrdered'
  BY <1>8 DEF Serve
<1>9. ASSUME NEW c \in Clients, Ask(c) PROVE CacheOrdered'
  BY <1>9 DEF Ask
<1>10. ASSUME NEW c \in Clients, Receive(c) PROVE CacheOrdered'
  BY <1>10 DEF Receive, Nothing
<1>11. ASSUME NEW c \in Clients, GiveUp(c) PROVE CacheOrdered'
  BY <1>11 DEF GiveUp, Nothing
<1>12. CASE UNCHANGED vars
  BY <1>12 DEF vars
<1> QED
  BY <1>1, <1>2, <1>3, <1>4, <1>5, <1>6, <1>7, <1>8, <1>9, <1>10, <1>11, <1>12
     DEF Next, ServerStep

(***************************************************************************)
(* One handler at a time, for one client or for none any more.             *)
(***************************************************************************)
LEMMA HandlerKept ==
  ASSUME IInv, [Next]_vars
  PROVE  HandlerOrdered'
<1> USE DEF IInv, TypeOK, Versions, Answers, learnerVars, serverVars, clientVars,
            HandlerOrdered, Publication
<1>1. CASE Publish
  BY <1>1 DEF Publish
<1>2. CASE CountVersion
  BY <1>2 DEF CountVersion
<1>3. CASE Unchanged
  BY <1>3 DEF Unchanged, Answer
<1>4. CASE CacheHit
  BY <1>4 DEF CacheHit, Answer
<1>5. CASE CacheMiss
  BY <1>5 DEF CacheMiss
<1>6. CASE Label
  BY <1>6 DEF Label
<1>7. CASE Serialize
  BY <1>7 DEF Serialize, Answer
<1>8. ASSUME NEW c \in Clients, Serve(c) PROVE HandlerOrdered'
  BY <1>8 DEF Serve
<1>9. ASSUME NEW c \in Clients, Ask(c) PROVE HandlerOrdered'
  BY <1>9 DEF Ask
<1>10. ASSUME NEW c \in Clients, Receive(c) PROVE HandlerOrdered'
  BY <1>10 DEF Receive, Nothing
<1>11. ASSUME NEW c \in Clients, GiveUp(c) PROVE HandlerOrdered'
  BY <1>11 DEF GiveUp, Nothing
<1>12. CASE UNCHANGED vars
  BY <1>12 DEF vars
<1> QED
  BY <1>1, <1>2, <1>3, <1>4, <1>5, <1>6, <1>7, <1>8, <1>9, <1>10, <1>11, <1>12
     DEF Next, ServerStep

(***************************************************************************)
(* What a client has, was sent or will be sent stays in order.             *)
(***************************************************************************)
LEMMA ClientKept ==
  ASSUME IInv, [Next]_vars, NEW d \in Clients
  PROVE  ClientOrdered(d)'
<1> USE DEF IInv, TypeOK, Versions, Answers, learnerVars, serverVars, clientVars,
            ClientOrdered, CacheOrdered, Publication, HandlerOrdered, Bytes
<1>1. CASE Publish
  BY <1>1 DEF Publish
<1>2. CASE CountVersion
  BY <1>2 DEF CountVersion
<1>3. CASE Unchanged
  BY <1>3 DEF Unchanged, Answer
<1>4. CASE CacheHit
  BY <1>4 DEF CacheHit, Answer
<1>5. CASE CacheMiss
  BY <1>5 DEF CacheMiss
<1>6. CASE Label
  BY <1>6 DEF Label
<1>7. CASE Serialize
  BY <1>7 DEF Serialize, Answer
<1>8. ASSUME NEW c \in Clients, Serve(c) PROVE ClientOrdered(d)'
  BY <1>8 DEF Serve
<1>9. ASSUME NEW c \in Clients, Ask(c) PROVE ClientOrdered(d)'
  BY <1>9 DEF Ask
<1>10. ASSUME NEW c \in Clients, Receive(c) PROVE ClientOrdered(d)'
  BY <1>10 DEF Receive, Nothing
<1>11. ASSUME NEW c \in Clients, GiveUp(c) PROVE ClientOrdered(d)'
  BY <1>11 DEF GiveUp, Nothing
<1>12. CASE UNCHANGED vars
  BY <1>12 DEF vars
<1> QED
  BY <1>1, <1>2, <1>3, <1>4, <1>5, <1>6, <1>7, <1>8, <1>9, <1>10, <1>11, <1>12
     DEF Next, ServerStep

(***************************************************************************)
(* The chain of inequalities is inductive.                                 *)
(***************************************************************************)
LEMMA NextIInv == IInv /\ [Next]_vars => IInv'
<1> SUFFICES ASSUME IInv, [Next]_vars PROVE IInv'
  OBVIOUS
<1>1. TypeOK'
  BY StepTypeOK
<1>2. Publication' /\ CacheOrdered' /\ HandlerOrdered'
  BY PublicationKept, CacheKept, HandlerKept
<1>3. \A c \in Clients : ClientOrdered(c)'
  BY ClientKept
<1> QED
  BY <1>1, <1>2, <1>3 DEF IInv

(***************************************************************************)
(* The inductive invariant holds in every behaviour of learner, server and *)
(* clients (session.py:156-161, 399-414, 510-520).                         *)
(***************************************************************************)
THEOREM Invariance == Spec => []IInv
<1>1. IInv /\ UNCHANGED vars => IInv'
  BY NextIInv
<1> QED
  BY InitIInv, NextIInv, PTL DEF Spec

(***************************************************************************)
(* Every variable keeps its type; the labels of cached bytes and of        *)
(* answers are versions.                                                   *)
(***************************************************************************)
THEOREM TypeCorrect == Spec => []TypeOK
<1>1. IInv => TypeOK
  BY DEF IInv
<1> QED
  BY <1>1, Invariance, PTL

(***************************************************************************)
(* Whatever GET /params answers, the client then acts with parameters no   *)
(* older than those current when it asked.                                 *)
(***************************************************************************)
THEOREM Freshness == Spec => []AnswersAreFresh
<1>1. IInv => AnswersAreFresh
  <2> SUFFICES ASSUME IInv, NEW c \in Clients, call[c] = "answered"
               PROVE  asked[c] <= IF reply[c].params = None
                                  THEN have[c] ELSE reply[c].params
    BY DEF AnswersAreFresh
  <2> QED
    BY DEF IInv, ClientOrdered
<1> QED
  BY <1>1, Invariance, PTL

(***************************************************************************)
(* What an answered client reads is something the register allows.         *)
(***************************************************************************)
LEMMA ReceiveReads ==
  ASSUME IInv, NEW c \in Clients, Receive(c)
  PROVE  Register!Read(c) \/ UNCHANGED <<version, asked, have>>
<1>1. CASE reply[c].params = None
  BY <1>1 DEF Receive, learnerVars
<1>2. CASE reply[c].params # None
  <2> DEFINE p == reply[c].params
  <2>1. p \in Nat /\ p >= asked[c] /\ p >= have[c] /\ p <= version + 1
    BY <1>2 DEF IInv, TypeOK, Answers, Versions, Receive, ClientOrdered,
                CacheOrdered, Publication, Bytes
  <2>2. p \in 0..(version + 1)
    BY <2>1 DEF IInv, TypeOK
  <2>3. have' = [have EXCEPT ![c] = p] /\ UNCHANGED <<version, asked>>
    BY <1>2 DEF Receive, learnerVars
  <2> QED
    BY <2>1, <2>2, <2>3 DEF Register!Read
<1> QED
  BY <1>1, <1>2

(***************************************************************************)
(* Every step of the endpoint is a step of the register or none.           *)
(***************************************************************************)
LEMMA StepRefines ==
  IInv /\ [Next]_vars => [Register!Next]_<<version, asked, have>>
<1> SUFFICES ASSUME IInv, [Next]_vars
             PROVE  Register!Next \/ UNCHANGED <<version, asked, have>>
  OBVIOUS
<1> USE DEF learnerVars, serverVars, clientVars
<1>1. CASE CountVersion
  BY <1>1 DEF CountVersion, Register!Next, Register!Publish
<1>2. ASSUME NEW c \in Clients, Ask(c) PROVE Register!Next
  BY <1>2 DEF Ask, Register!Next, Register!Ask
<1>3. ASSUME NEW c \in Clients, Receive(c)
      PROVE  Register!Next \/ UNCHANGED <<version, asked, have>>
  BY <1>3, ReceiveReads DEF Register!Next
<1>4. CASE Publish
  BY <1>4 DEF Publish
<1>5. CASE ServerStep
  BY <1>5 DEF ServerStep, Unchanged, CacheHit, CacheMiss, Label, Serialize
<1>6. ASSUME NEW c \in Clients, Serve(c) \/ GiveUp(c)
      PROVE  UNCHANGED <<version, asked, have>>
  BY <1>6 DEF Serve, GiveUp
<1>7. CASE UNCHANGED vars
  BY <1>7 DEF vars
<1> QED
  BY <1>1, <1>2, <1>3, <1>4, <1>5, <1>6, <1>7 DEF Next

(***************************************************************************)
(* The endpoint, its cache, its racing publications and its impatient      *)
(* clients implement the register: versions only grow, and every read is   *)
(* at least as new as the question and as the client's last read.          *)
(***************************************************************************)
THEOREM Refinement == Spec => ServesRegister
<1>1. Init => Register!Init
  BY DEF Init, Register!Init
<1> QED
  BY <1>1, StepRefines, Invariance, PTL DEF Spec, ServesRegister, Register!Spec
==============================================================================
