---------------------------- MODULE Ingest_proofs ----------------------------
(***************************************************************************)
(* The HTTP ingest for every set of clients, bodies and capacities, and    *)
(* every number of attempts: types, the counter, what a sample can return, *)
(* what a client may conclude from its answer, and the log the online ring *)
(* is.                                                                     *)
(***************************************************************************)
EXTENDS Ingest, FiniteSetTheorems, SequenceTheorems, TLAPS

-----------------------------------------------------------------------------
(***************************************************************************)
(* Types.  A bulk load in progress keeps the demo index below the          *)
(* capacity, and at the load's own start unless an insert ran into it.     *)
(***************************************************************************)
Requests == [by : Clients, try : Nat]

Servers ==
  [pc : {"off", "idle"}]
    \cup [pc : {"insert", "count"}, req : Requests, at : Nat \ {0}]
    \cup [pc : {"status"}, env : Nat] \cup [pc : {"report"}, env : Nat, stored : Nat]

Mains == [pc : {"idle", "count"}]
           \cup [pc : {"bulk head", "bulk tail"}, from : Nat, n : Nat \ {0}]

Records == [state : {"ready", "waiting", "ok", "error"},
            body : Bodies \cup {NoBody}, tries : 0..MaxTries]

OnlineTypes ==
  /\ online \in [Online!Slots -> Rows] /\ onlineIndex \in Online!Slots
  /\ onlineSize \in 0..OnlineCapacity

BulkPlaced ==
  InBulk => /\ demoIndex < DemoCapacity
            /\ ~overlapped => main.from = demoIndex /\ demoIndex + main.n <= DemoCapacity

DemoTypes ==
  /\ demo \in [Demo!Slots -> Rows] /\ demoSize \in 0..DemoCapacity
  /\ demoIndex \in Nat /\ overlapped \in BOOLEAN
  /\ overlapped \/ demoIndex \in 0..DemoCapacity
  /\ BulkPlaced

ClientTypes ==
  /\ client \in [Clients -> Records]
  /\ inbox \subseteq Requests
  /\ \A r \in inbox : r.try \in 1..client[r.by].tries
  /\ \A c \in Clients : client[c].state = "ready" => client[c].tries = 0

ThreadTypes ==
  /\ server \in Servers /\ main \in Mains
  /\ adds \in 0..AddBound /\ env_steps \in Nat /\ extra_fields \in BOOLEAN

CountTypes ==
  /\ copies \in [Clients -> [1..MaxLength -> Nat]]
  /\ inserted \in Nat

Types == OnlineTypes /\ DemoTypes /\ ClientTypes /\ ThreadTypes /\ CountTypes

-----------------------------------------------------------------------------
(***************************************************************************)
(* What a sample can return: a ring that is not full has never wrapped,    *)
(* and a slice half loaded holds the first columns of the arrays.          *)
(***************************************************************************)
OnlineWhole ==
  /\ onlineSize < OnlineCapacity => onlineIndex = onlineSize
  /\ \A i \in Online!Slots : i < onlineSize /\ Spoilt(online[i]) => i = onlineIndex

DemoWhole ==
  ~overlapped =>
    /\ demoSize < DemoCapacity => demoIndex = demoSize
    /\ \A i \in Demo!Slots : InBulkSlice(i) => demo[i].head = Loaded
    /\ \A i \in Demo!Slots :
         InBulkSlice(i) /\ main.pc = "bulk tail" /\ ~extra_fields => demo[i] = Row(Loaded)
    /\ \A i \in Demo!Slots : i < demoSize /\ Spoilt(demo[i]) =>
         i = demoIndex \/ InBulkSlice(i) \/ (extra_fields /\ i \in bulkLoaded)

-----------------------------------------------------------------------------
(***************************************************************************)
(* The counter is behind the insertions, and the insertions behind the     *)
(* sizes until a ring is full.                                             *)
(***************************************************************************)
Full == onlineSize = OnlineCapacity \/ demoSize = DemoCapacity

Sized ==
  /\ CountsStored
  /\ Full \/ inserted <= onlineSize + demoSize
  /\ server.pc = "status" => server.env <= inserted
  /\ server.pc = "report" => Full \/ server.env <= server.stored

-----------------------------------------------------------------------------
(***************************************************************************)
(* The posts.  An attempt of a client is in the inbox, or being handled,   *)
(* or over, and each stores a transition at most once: the copies of it    *)
(* and the attempts that may still store it are no more than the attempts  *)
(* made.                                                                   *)
(***************************************************************************)
Working(c) == server.pc \in {"insert", "count"} /\ server.req.by = c

\* The transitions the post being handled has stored.
Behind(c, j) == /\ Working(c)
                /\ j < server.at \/ (j = server.at /\ server.pc = "count")

Waiting(c) == {r \in inbox : r.by = c}

MayStore(c, j) ==
  Cardinality(Waiting(c)) + (IF Working(c) /\ ~Behind(c, j) THEN 1 ELSE 0)

\* The copies that attempts before the one being handled made.
Before(c, j) == copies[c][j] - (IF Behind(c, j) THEN 1 ELSE 0)

Sent(c) == client[c].state # "ready"

Post(c) ==
  /\ ~Sent(c) => ~Working(c) /\ Waiting(c) = {} /\ \A j \in 1..MaxLength : copies[c][j] = 0
  /\ Working(c) \/ client[c].state = "ok" => client[c].body.list

Trs(c) == client[c].body.trs

AtMostPerTry(c) ==
  \A j \in 1..MaxLength : copies[c][j] + MayStore(c, j) <= client[c].tries

InOrder(c) ==
  /\ \A j \in 1..MaxLength : Before(c, j) >= 0
  /\ \A j \in 2..MaxLength : Before(c, j) <= Before(c, j - 1)

AllThere(c) == client[c].state = "ok" => \A j \in DOMAIN Trs(c) : copies[c][j] >= 1

StopsAtRaise(c) ==
  /\ \A j \in DOMAIN Trs(c) : ~Trs(c)[j].whole =>
       \A k \in j..MaxLength : copies[c][k] = 0 /\ ~Behind(c, k)
  /\ Working(c) => \A j \in DOMAIN Trs(c) : j < server.at => Trs(c)[j].whole
  /\ Working(c) /\ server.pc = "count" => server.at <= Len(Trs(c))

Stored(c) == Post(c) /\ AtMostPerTry(c) /\ InOrder(c) /\ AllThere(c) /\ StopsAtRaise(c)

StoredInv == IsFiniteSet(inbox) /\ \A c \in Clients : Stored(c)

-----------------------------------------------------------------------------
(***************************************************************************)
(* What an insert, and one that raises, do to the rings.                   *)
(***************************************************************************)
Next1(i, n) == IF i + 1 < n THEN i + 1 ELSE 0

\* The index after a row goes back to the start at the capacity.
LEMMA Wraps ==
  ASSUME NEW n \in Nat \ {0}, NEW i \in 0..(n - 1)
  PROVE  (i + 1) % n = Next1(i, n) /\ Next1(i, n) \in 0..(n - 1)
  <1>1. CASE i + 1 < n
    BY <1>1, SMT DEF Next1
  <1>2. CASE i + 1 = n
    BY <1>2, SMT DEF Next1
  <1> QED
    BY <1>1, <1>2, SMT DEF Next1

\* The rows of the transitions posted, added or loaded.
LEMMA WholeRows ==
  ASSUME NEW o \in Origins
  PROVE  /\ Row(o) \in Rows /\ ~Spoilt(Row(o))
         /\ \A r \in Rows : [r EXCEPT !.head = o] \in Rows /\ [r EXCEPT !.tail = o] \in Rows
  BY GarbageAssumption DEF Row, Rows, Spoilt, Torn

\* _online_buffer.insert: one row, and the two counters.
LEMMA OnlineInsertIs ==
  ASSUME Types, NEW o \in Origins, InsertOnline(o)
  PROVE  /\ online' \in [Online!Slots -> Rows]
         /\ \A i \in Online!Slots :
              online'[i] = IF i = onlineIndex THEN Row(o) ELSE online[i]
         /\ onlineIndex' = Next1(onlineIndex, OnlineCapacity)
         /\ onlineIndex' \in Online!Slots
         /\ onlineSize' = IF onlineSize < OnlineCapacity THEN onlineSize + 1 ELSE onlineSize
         /\ onlineSize' \in 0..OnlineCapacity
         /\ UNCHANGED <<demoVars, bulkLoaded, overlapped>>
  <1> USE IngestAssumption
  <1>1. /\ online \in [Online!Slots -> Rows] /\ onlineIndex \in 0..(OnlineCapacity - 1)
        /\ onlineSize \in 0..OnlineCapacity
    BY DEF Types, OnlineTypes, Online!Slots
  <1>2. /\ online' = [online EXCEPT ![onlineIndex] = Row(o)]
        /\ onlineIndex' = (onlineIndex + 1) % OnlineCapacity
        /\ onlineSize' = IF onlineSize + 1 < OnlineCapacity THEN onlineSize + 1
                         ELSE OnlineCapacity
    BY DEF InsertOnline, Online!Insert, Online!AtMost
  <1>3. onlineIndex' = Next1(onlineIndex, OnlineCapacity) /\ onlineIndex' \in Online!Slots
    BY <1>1, <1>2, Wraps DEF Online!Slots
  <1>4. online' \in [Online!Slots -> Rows]
    BY <1>1, <1>2, WholeRows
  <1> QED
    BY <1>1, <1>2, <1>3, <1>4 DEF InsertOnline, Online!Slots

\* _demo_buffer.insert: the same, and a bulk load may be under way.
LEMMA DemoInsertIs ==
  ASSUME Types, NEW o \in Origins, InsertDemo(o)
  PROVE  /\ demo' \in [Demo!Slots -> Rows]
         /\ demoIndex \in Demo!Slots
         /\ \A i \in Demo!Slots : demo'[i] = IF i = demoIndex THEN Row(o) ELSE demo[i]
         /\ demoIndex' = Next1(demoIndex, DemoCapacity)
         /\ demoIndex' \in Demo!Slots
         /\ demoSize' = IF demoSize < DemoCapacity THEN demoSize + 1 ELSE demoSize
         /\ demoSize' \in 0..DemoCapacity
         /\ bulkLoaded' = bulkLoaded \ {demoIndex}
         /\ overlapped' \in BOOLEAN /\ (overlapped' <=> overlapped \/ InBulk)
         /\ UNCHANGED onlineVars
  <1> USE IngestAssumption
  <1>1. /\ demo \in [Demo!Slots -> Rows] /\ demoSize \in 0..DemoCapacity /\ demoIndex \in Nat
        /\ overlapped \in BOOLEAN
    BY DEF Types, DemoTypes
  <1>2. /\ demoIndex < DemoCapacity
        /\ demo' = [demo EXCEPT ![demoIndex] = Row(o)]
        /\ demoIndex' = (demoIndex + 1) % DemoCapacity
        /\ demoSize' = IF demoSize + 1 < DemoCapacity THEN demoSize + 1 ELSE DemoCapacity
    BY DEF InsertDemo, Demo!Insert, Demo!AtMost, Demo!InRange
  <1>3. demoIndex \in 0..(DemoCapacity - 1)
    BY <1>1, <1>2
  <1>4. demoIndex' = Next1(demoIndex, DemoCapacity) /\ demoIndex' \in Demo!Slots
    BY <1>2, <1>3, Wraps DEF Demo!Slots
  <1>5. demo' \in [Demo!Slots -> Rows]
    BY <1>1, <1>2, WholeRows
  <1>6. /\ bulkLoaded' = bulkLoaded \ {demoIndex}
        /\ overlapped' = (overlapped \/ InBulk)
        /\ UNCHANGED onlineVars
    BY DEF InsertDemo
  <1>7. overlapped' \in BOOLEAN /\ (overlapped' <=> overlapped \/ InBulk)
    BY <1>1, <1>6 DEF InBulk
  <1> QED
    BY <1>1, <1>2, <1>3, <1>4, <1>5, <1>6, <1>7 DEF Demo!Slots

\* An insert that raises: the first columns of the row at the index.
LEMMA TearIs ==
  ASSUME Types, NEW t, NEW o \in Origins, Tear(t, o)
  PROVE  \/ /\ online' \in [Online!Slots -> Rows]
            /\ \A i \in Online!Slots : i # onlineIndex => online'[i] = online[i]
            /\ UNCHANGED <<demoVars, onlineIndex, onlineSize, overlapped>>
         \/ /\ demo' \in [Demo!Slots -> Rows]
            /\ \A i \in Demo!Slots : i # demoIndex => demo'[i] = demo[i]
            /\ demoIndex >= DemoCapacity => demo' = demo
            /\ overlapped' \in BOOLEAN /\ (overlapped' <=> overlapped \/ InBulk)
            /\ UNCHANGED <<onlineVars, demoIndex, demoSize>>
  <1> USE IngestAssumption
  <1>1. CASE ToDemo(t)
    <2>1. /\ demo' = IF ~Demo!InRange THEN demo ELSE [demo EXCEPT ![demoIndex].head = o]
          /\ overlapped' = (overlapped \/ InBulk)
          /\ UNCHANGED <<onlineVars, demoIndex, demoSize>>
      BY <1>1 DEF Tear
    <2>2. demo \in [Demo!Slots -> Rows] /\ demoIndex \in Nat /\ overlapped \in BOOLEAN
      BY DEF Types, DemoTypes
    <2>3. CASE demoIndex < DemoCapacity
      <3>1. demoIndex \in Demo!Slots
        BY <2>2, <2>3 DEF Demo!Slots
      <3>2. demo' = [demo EXCEPT ![demoIndex] = [demo[demoIndex] EXCEPT !.head = o]]
        BY <2>1, <2>3 DEF Demo!InRange
      <3>3. [demo[demoIndex] EXCEPT !.head = o] \in Rows
        BY <2>2, <3>1, WholeRows
      <3>4. /\ demo' \in [Demo!Slots -> Rows]
            /\ \A i \in Demo!Slots : i # demoIndex => demo'[i] = demo[i]
            /\ demoIndex >= DemoCapacity => demo' = demo
        BY <2>2, <2>3, <3>1, <3>2, <3>3
      <3>5. overlapped' \in BOOLEAN /\ (overlapped' <=> overlapped \/ InBulk)
        BY <2>1, <2>2 DEF InBulk
      <3> QED
        BY <2>1, <3>4, <3>5
    <2>4. CASE ~(demoIndex < DemoCapacity)
      <3>1. demo' = demo
        BY <2>1, <2>4 DEF Demo!InRange
      <3>2. overlapped' \in BOOLEAN /\ (overlapped' <=> overlapped \/ InBulk)
        BY <2>1, <2>2 DEF InBulk
      <3> QED
        BY <2>1, <2>2, <3>1, <3>2
    <2> QED
      BY <2>3, <2>4
  <1>2. CASE ~ToDemo(t)
    <2>1. /\ online' = [online EXCEPT ![onlineIndex].head = o]
          /\ UNCHANGED <<demoVars, onlineIndex, onlineSize, overlapped>>
      BY <1>2 DEF Tear
    <2>2. online \in [Online!Slots -> Rows] /\ onlineIndex \in Online!Slots
      BY DEF Types, OnlineTypes
    <2>3. online' = [online EXCEPT ![onlineIndex] = [online[onlineIndex] EXCEPT !.head = o]]
      BY <2>1
    <2>4. [online[onlineIndex] EXCEPT !.head = o] \in Rows
      BY <2>2, WholeRows
    <2> QED
      BY <2>1, <2>2, <2>3, <2>4
  <1> QED
    BY <1>1, <1>2

-----------------------------------------------------------------------------
(***************************************************************************)
(* What a client and its requests go through.                              *)
(***************************************************************************)
\* An answer: the state of the client that still waits for it.
LEMMA AnsweredIs ==
  ASSUME Types, NEW r \in Requests, NEW code \in {"ok", "error"}, Answered(r, code)
  PROVE  /\ client' \in [Clients -> Records]
         /\ \A c \in Clients :
              /\ client'[c].body = client[c].body /\ client'[c].tries = client[c].tries
              /\ client'[c].state = IF /\ c = r.by /\ client[c].state = "waiting"
                                       /\ client[c].tries = r.try
                                    THEN code ELSE client[c].state
         /\ server' = Idle
  <1>1. client \in [Clients -> Records] /\ r.by \in Clients
    BY DEF Types, ClientTypes, Requests
  <1>2. /\ client' = IF client[r.by].state = "waiting" /\ client[r.by].tries = r.try
                     THEN [client EXCEPT ![r.by] = [client[r.by] EXCEPT !.state = code]]
                     ELSE client
        /\ server' = Idle
    BY DEF Answered
  <1>3. /\ [client[r.by] EXCEPT !.state = code] \in Records
        /\ [client[r.by] EXCEPT !.state = code].state = code
        /\ [client[r.by] EXCEPT !.state = code].body = client[r.by].body
        /\ [client[r.by] EXCEPT !.state = code].tries = client[r.by].tries
    BY <1>1 DEF Records
  <1> QED
    BY <1>1, <1>2, <1>3

\* The first attempt.
LEMMA SendIs ==
  ASSUME Types, NEW c \in Clients, NEW body \in Bodies, Send(c, body)
  PROVE  /\ client' \in [Clients -> Records]
         /\ \A d \in Clients \ {c} : client'[d] = client[d]
         /\ client[c].state = "ready"
         /\ client'[c] = [state |-> "waiting", body |-> body, tries |-> 1]
         /\ inbox' = inbox \cup {[by |-> c, try |-> 1]}
         /\ UNCHANGED unchangedByClient
  <1>1. client \in [Clients -> Records] /\ 1 \in 0..MaxTries
    BY IngestAssumption DEF Types, ClientTypes
  <1>2. [state |-> "waiting", body |-> body, tries |-> 1] \in Records
    BY <1>1 DEF Records
  <1> QED
    BY <1>1, <1>2 DEF Send

\* A further attempt with the same body.
LEMMA SendAgainIs ==
  ASSUME Types, NEW c \in Clients, SendAgain(c)
  PROVE  /\ client' \in [Clients -> Records]
         /\ \A d \in Clients \ {c} : client'[d] = client[d]
         /\ client[c].state \in {"waiting", "error"}
         /\ client'[c].state = "waiting" /\ client'[c].body = client[c].body
         /\ client'[c].tries = client[c].tries + 1
         /\ inbox' = inbox \cup {[by |-> c, try |-> client[c].tries + 1]}
         /\ UNCHANGED unchangedByClient
  <1>1. client \in [Clients -> Records] /\ client[c] \in Records
    BY DEF Types, ClientTypes
  <1> DEFINE new == [client[c] EXCEPT !.state = "waiting", !.tries = @ + 1]
  <1>2. client' = [client EXCEPT ![c] = new] /\ client[c].tries < MaxTries
    BY DEF SendAgain
  <1>3. client[c].tries + 1 \in 0..MaxTries
    BY <1>1, <1>2, IngestAssumption DEF Records
  <1>4. /\ new \in Records
        /\ new.state = "waiting" /\ new.body = client[c].body /\ new.tries = client[c].tries + 1
    BY <1>1, <1>3 DEF Records
  <1> HIDE DEF new
  <1> QED
    BY <1>1, <1>2, <1>4 DEF SendAgain

\* The transitions of a body, and of none.
LEMMA BodyTrs ==
  \A b \in Bodies \cup {NoBody} :
    Len(b.trs) \in 0..MaxLength /\ DOMAIN b.trs = 1..Len(b.trs)
  <1>1. \A b \in Bodies : Len(b.trs) \in 0..MaxLength /\ DOMAIN b.trs = 1..Len(b.trs)
    BY IngestAssumption
  <1>2. NoBody.trs = <<>>
    BY DEF NoBody
  <1> QED
    BY <1>1, <1>2, IngestAssumption

\* The post being handled, and the transition it is at.
LEMMA PostedIs ==
  ASSUME Types, server.pc \in {"insert", "count"}
  PROVE  /\ server \in [pc : {"insert", "count"}, req : Requests, at : Nat \ {0}]
         /\ server.req.by \in Clients
         /\ Len(Posted) \in 0..MaxLength /\ DOMAIN Posted = 1..Len(Posted)
         /\ server.at <= Len(Posted) =>
              /\ server.at \in 1..MaxLength
              /\ [from |-> server.req.by, at |-> server.at] \in Origins
  <1>1. server \in [pc : {"insert", "count"}, req : Requests, at : Nat \ {0}]
    BY DEF Types, ThreadTypes, Servers
  <1>2. server.req.by \in Clients /\ server.at \in Nat \ {0}
    BY <1>1 DEF Requests
  <1>3. client[server.req.by].body \in Bodies \cup {NoBody}
    BY <1>2 DEF Types, ClientTypes, Records
  <1>5. Len(Posted) \in 0..MaxLength /\ DOMAIN Posted = 1..Len(Posted)
    BY <1>3, BodyTrs DEF Posted
  <1>6. ASSUME server.at <= Len(Posted) PROVE server.at \in 1..MaxLength
    BY <1>2, <1>5, <1>6, IngestAssumption
  <1>7. ASSUME server.at \in 1..MaxLength
        PROVE  [from |-> server.req.by, at |-> server.at] \in Origins
    BY <1>2, <1>7 DEF Origins
  <1>8. server.at <= Len(Posted) =>
          server.at \in 1..MaxLength /\ [from |-> server.req.by, at |-> server.at] \in Origins
    BY <1>6, <1>7, Zenon
  <1> QED
    BY <1>1, <1>2, <1>5, <1>8, Zenon

-----------------------------------------------------------------------------
(***************************************************************************)
(* The types, action by action.                                            *)
(***************************************************************************)
LEMMA InitTypes == Init => Types
  <1> SUFFICES ASSUME Init PROVE Types
    OBVIOUS
  <1>1. Empty \in Rows
    BY DEF Empty, Rows
  <1>2. OnlineTypes
    BY <1>1, IngestAssumption DEF Init, Online!Init, Online!Slots, OnlineTypes
  <1>3. main = Idle /\ ~InBulk
    BY DEF Init, Idle, InBulk
  <1>4. DemoTypes
    <2>1. /\ demo \in [Demo!Slots -> Rows] /\ demoSize \in 0..DemoCapacity
          /\ demoIndex \in Nat /\ demoIndex \in 0..DemoCapacity
      BY <1>1, IngestAssumption DEF Init, Demo!Init, Demo!Slots
    <2> QED
      BY <1>3, <2>1 DEF Init, DemoTypes, BulkPlaced
  <1>5. ClientTypes
    BY IngestAssumption DEF Init, ClientTypes, Records
  <1>6. ThreadTypes
    BY <1>3, IngestAssumption DEF Init, ThreadTypes, Servers, Mains, Idle
  <1>7. CountTypes
    BY IngestAssumption DEF Init, CountTypes
  <1> QED
    BY <1>2, <1>4, <1>5, <1>6, <1>7 DEF Types

\* An insert, or one that raises, in either thread.
LEMMA RingTypesKept ==
  ASSUME Types, NEW t, NEW o \in Origins, InsertInto(t, o) \/ Tear(t, o),
         ~InBulk \/ main' = main, InBulk' <=> InBulk
  PROVE  OnlineTypes' /\ DemoTypes'
  <1> USE IngestAssumption
  <1>0. OnlineTypes /\ DemoTypes
    BY DEF Types
  <1>1. CASE InsertOnline(o)
    <2>1. OnlineTypes'
      BY <1>1, OnlineInsertIs DEF OnlineTypes, Online!Slots
    <2>2. UNCHANGED <<demo, demoIndex, demoSize, overlapped>>
      BY <1>1, OnlineInsertIs DEF demoVars
    <2>3. DemoTypes'
      BY <1>0, <2>2 DEF DemoTypes, BulkPlaced, Demo!Slots
    <2> QED
      BY <2>1, <2>3
  <1>2. CASE InsertDemo(o)
    <2>1. UNCHANGED <<online, onlineIndex, onlineSize>>
      BY <1>2, DemoInsertIs DEF onlineVars
    <2>2. OnlineTypes'
      BY <1>0, <2>1 DEF OnlineTypes, Online!Slots
    <2>3. /\ demo' \in [Demo!Slots -> Rows] /\ demoSize' \in 0..DemoCapacity
          /\ demoIndex' \in 0..(DemoCapacity - 1) /\ overlapped' \in BOOLEAN
          /\ InBulk => overlapped'
      BY <1>2, DemoInsertIs DEF Demo!Slots
    <2>4. BulkPlaced'
      BY <2>3 DEF BulkPlaced
    <2>5. demoIndex' \in Nat /\ demoIndex' \in 0..DemoCapacity
      BY <2>3
    <2>6. DemoTypes'
      BY <2>3, <2>4, <2>5 DEF DemoTypes, Demo!Slots
    <2> QED
      BY <2>2, <2>6
  <1>3. CASE Tear(t, o)
    <2>1. CASE /\ online' \in [Online!Slots -> Rows]
               /\ UNCHANGED <<demoVars, onlineIndex, onlineSize, overlapped>>
      BY <1>0, <2>1 DEF OnlineTypes, DemoTypes, BulkPlaced, Demo!Slots, Online!Slots, demoVars
    <2>2. CASE /\ demo' \in [Demo!Slots -> Rows]
               /\ overlapped' \in BOOLEAN /\ (overlapped' <=> overlapped \/ InBulk)
               /\ UNCHANGED <<onlineVars, demoIndex, demoSize>>
      <3>1. UNCHANGED <<online, onlineIndex, onlineSize, demoIndex, demoSize>>
        BY <2>2 DEF onlineVars
      <3>2. OnlineTypes'
        BY <1>0, <3>1 DEF OnlineTypes, Online!Slots
      <3>3. BulkPlaced'
        BY <1>0, <2>2, <3>1 DEF DemoTypes, BulkPlaced
      <3>4. overlapped' \/ demoIndex' \in 0..DemoCapacity
        BY <1>0, <2>2, <3>1 DEF DemoTypes
      <3>5. DemoTypes'
        BY <1>0, <2>2, <3>1, <3>3, <3>4 DEF DemoTypes, Demo!Slots
      <3> QED
        BY <3>2, <3>5
    <2> QED
      BY <1>3, <2>1, <2>2, TearIs
  <1> QED
    BY <1>1, <1>2, <1>3 DEF InsertInto

\* What a step leaves alone keeps its types.
LEMMA TypesAlone ==
  ASSUME Types
  PROVE  /\ UNCHANGED onlineVars => OnlineTypes'
         /\ UNCHANGED <<demoVars, overlapped>> /\ (~InBulk' \/ UNCHANGED main) => DemoTypes'
         /\ UNCHANGED clientVars => ClientTypes'
         /\ UNCHANGED <<copies, inserted>> => CountTypes'
  <1>1. UNCHANGED onlineVars => OnlineTypes'
    BY DEF Types, OnlineTypes, onlineVars, Online!Slots
  <1>2. ASSUME UNCHANGED <<demoVars, overlapped>>, ~InBulk' \/ UNCHANGED main
        PROVE  DemoTypes'
    <2>1. UNCHANGED <<demo, demoIndex, demoSize, overlapped>>
      BY <1>2 DEF demoVars
    <2>2. BulkPlaced'
      <3>1. CASE ~InBulk'
        BY <3>1 DEF BulkPlaced
      <3>2. CASE UNCHANGED main
        BY <2>1, <3>2 DEF Types, DemoTypes, BulkPlaced, InBulk
      <3> QED
        BY <1>2, <3>1, <3>2
    <2>3. DemoTypes
      BY DEF Types
    <2> QED
      BY <2>1, <2>2, <2>3, Zenon DEF DemoTypes, Demo!Slots
  <1>3. UNCHANGED clientVars => ClientTypes'
    BY DEF Types, ClientTypes, clientVars
  <1>4. UNCHANGED <<copies, inserted>> => CountTypes'
    BY DEF Types, CountTypes
  <1> QED
    BY <1>1, <1>2, <1>3, <1>4

\* The main thread and the sets of what a thread does.
LEMMA Threads ==
  ASSUME Types
  PROVE  /\ Idle \in Servers /\ Idle \in Mains /\ [pc |-> "count"] \in Mains
         /\ main = Idle => ~InBulk
         /\ main.pc = "count" => ~InBulk
         /\ InBulk => main \in [pc : {"bulk head", "bulk tail"}, from : Nat, n : Nat \ {0}]
         /\ [from |-> "main", at |-> 0] \in Origins /\ Loaded \in Origins
  <1>1. Idle \in Servers /\ Idle \in Mains /\ [pc |-> "count"] \in Mains
    BY DEF Idle, Servers, Mains
  <1>2. (main = Idle => ~InBulk) /\ (main.pc = "count" => ~InBulk)
    <2>1. main = Idle => main.pc = "idle"
      BY DEF Idle
    <2> QED
      BY <2>1 DEF InBulk
  <1>3. InBulk => main \in [pc : {"bulk head", "bulk tail"}, from : Nat, n : Nat \ {0}]
    BY DEF Types, ThreadTypes, Mains, InBulk
  <1>4. [from |-> "main", at |-> 0] \in Origins /\ Loaded \in Origins
    BY DEF Origins, Loaded
  <1> QED
    BY <1>1, <1>2, <1>3, <1>4

\* A whole transition raises for want of room alone, and then writes nothing.
LEMMA AddRaisesIs ==
  ASSUME Types, NEW t \in Transitions, AddRaises(t)
  PROVE  UNCHANGED vars
  <1>1. t.whole /\ ToDemo(t) /\ ~Demo!InRange /\ ~InBulk
    BY DEF AddRaises, Raises, Transitions, InBulk, Idle
  <1>2. /\ demo' = demo /\ overlapped' = (overlapped \/ InBulk)
        /\ UNCHANGED <<onlineVars, demoIndex, demoSize>>
    BY <1>1 DEF AddRaises, Tear
  <1>3. overlapped \in BOOLEAN /\ InBulk \in BOOLEAN
    BY DEF Types, DemoTypes, InBulk
  <1>4. overlapped' = overlapped
    BY <1>1, <1>2, <1>3
  <1> QED
    BY <1>2, <1>4 DEF AddRaises, vars, demoVars, history

\* The steps of the main thread.
LEMMA MainTypesKept ==
  ASSUME Types,
         \/ \E t \in Transitions : Add(t)
         \/ CountAdd
         \/ \E n \in BulkSizes : BulkHead(n)
         \/ BulkTail \/ BulkDone
         \/ StartServer
  PROVE  Types'
  <1> USE IngestAssumption
  <1>0. /\ adds \in 0..AddBound /\ env_steps \in Nat /\ inserted \in Nat
        /\ extra_fields \in BOOLEAN /\ server \in Servers /\ main \in Mains
        /\ copies \in [Clients -> [1..MaxLength -> Nat]]
        /\ env_steps + 1 \in Nat /\ inserted + 1 \in Nat
        /\ adds < AddBound => adds + 1 \in 0..AddBound
    BY DEF Types, ThreadTypes, CountTypes
  <1>1. ASSUME NEW t \in Transitions, Add(t) PROVE Types'
    <2> DEFINE o == [from |-> "main", at |-> 0]
    <2>1. /\ InsertInto(t, o) /\ o \in Origins
          /\ main = Idle /\ main' = [pc |-> "count"] /\ adds < AddBound
          /\ adds' = adds + 1 /\ inserted' = inserted + 1
          /\ UNCHANGED <<extra_fields, env_steps, server, clientVars, copies>>
      BY <1>1, Threads DEF Add
    <2>2. ~InBulk /\ ~InBulk'
      BY <2>1 DEF InBulk, Idle
    <2>3. OnlineTypes' /\ DemoTypes'
      BY <2>1, <2>2, RingTypesKept
    <2>4. ThreadTypes'
      BY <1>0, <2>1, Threads, Zenon DEF ThreadTypes
    <2>5. CountTypes' /\ ClientTypes'
      BY <1>0, <2>1, TypesAlone DEF CountTypes
    <2> QED
      BY <2>3, <2>4, <2>5 DEF Types
  <1>2. CASE CountAdd
    <2>1. /\ env_steps' = env_steps + 1 /\ main' = Idle /\ ~InBulk'
          /\ UNCHANGED <<extra_fields, onlineVars, demoVars, server, clientVars, adds>>
          /\ UNCHANGED <<copies, inserted, overlapped>>
      BY <1>2 DEF CountAdd, history, Idle, InBulk
    <2>2. ThreadTypes'
      BY <1>0, <2>1, Threads, Zenon DEF ThreadTypes
    <2> QED
      BY <2>1, <2>2, TypesAlone DEF Types
  <1>3. ASSUME NEW n \in BulkSizes, BulkHead(n) PROVE Types'
    <2>1. /\ demo' = [i \in Demo!Slots |-> IF i \in demoIndex..(demoIndex + n - 1)
                                           THEN [demo[i] EXCEPT !.head = Loaded] ELSE demo[i]]
          /\ demoIndex + n <= DemoCapacity /\ n \in Nat \ {0}
          /\ main' = [pc |-> "bulk head", from |-> demoIndex, n |-> n]
          /\ adds < AddBound /\ adds' = adds + 1
          /\ UNCHANGED <<extra_fields, onlineVars, demoIndex, demoSize, env_steps, server,
                         clientVars, copies, inserted, overlapped>>
      BY <1>3 DEF BulkHead, Demo!Fits, history
    <2>2. demo \in [Demo!Slots -> Rows] /\ demoIndex \in Nat /\ demoSize \in 0..DemoCapacity
      BY DEF Types, DemoTypes
    <2>3. demo' \in [Demo!Slots -> Rows]
      <3>1. \A i \in Demo!Slots : [demo[i] EXCEPT !.head = Loaded] \in Rows
        BY <2>2, Threads, WholeRows
      <3> QED
        BY <2>1, <2>2, <3>1
    <2>4. main'.from = demoIndex /\ main'.n = n
      BY <2>1
    <2>5. DemoTypes'
      <3>0. /\ demoIndex + n <= DemoCapacity /\ n \in Nat \ {0}
            /\ UNCHANGED <<demoIndex, demoSize, overlapped>>
        BY <2>1, Zenon
      <3>1. demoIndex' = demoIndex /\ demoIndex < DemoCapacity
        BY <2>2, <3>0
      <3>2. BulkPlaced'
        BY <2>1, <2>4, <3>1 DEF BulkPlaced
      <3>3. demoIndex \in 0..DemoCapacity /\ UNCHANGED <<overlapped, demoSize>>
        BY <2>2, <3>0, <3>1
      <3>4. overlapped' \in BOOLEAN
        BY <3>3 DEF Types, DemoTypes
      <3>5. demoIndex' \in Nat /\ demoIndex' \in 0..DemoCapacity /\ demoSize' \in 0..DemoCapacity
        BY <2>2, <3>1, <3>3
      <3> QED
        BY <2>3, <3>2, <3>4, <3>5 DEF DemoTypes, Demo!Slots
    <2>6. main' \in Mains
      BY <2>1, <2>2 DEF Mains
    <2>7. ThreadTypes'
      BY <1>0, <2>1, <2>6, Zenon DEF ThreadTypes
    <2> QED
      BY <2>1, <2>5, <2>7, TypesAlone DEF Types
  <1>4. CASE BulkTail
    <2>1. /\ InBulk /\ main.pc = "bulk head" /\ main' = [main EXCEPT !.pc = "bulk tail"]
          /\ demo' = [i \in Demo!Slots |->
                        IF i \in main.from..(main.from + main.n - 1) /\ ~extra_fields
                        THEN [demo[i] EXCEPT !.tail = Loaded] ELSE demo[i]]
          /\ UNCHANGED <<extra_fields, onlineVars, demoIndex, demoSize, env_steps, server,
                         clientVars, adds, copies, inserted, overlapped>>
      BY <1>4 DEF BulkTail, history, InBulk
    <2>2. demo \in [Demo!Slots -> Rows]
      BY DEF Types, DemoTypes
    <2>3. demo' \in [Demo!Slots -> Rows]
      <3>1. \A i \in Demo!Slots : [demo[i] EXCEPT !.tail = Loaded] \in Rows
        BY <2>2, Threads, WholeRows
      <3> QED
        BY <2>1, <2>2, <3>1
    <2>4. main' \in Mains /\ main'.from = main.from /\ main'.n = main.n
      BY <2>1, Threads DEF Mains
    <2>5. DemoTypes'
      BY <2>1, <2>3, <2>4 DEF Types, DemoTypes, BulkPlaced, InBulk, Demo!Slots
    <2>6. ThreadTypes'
      BY <1>0, <2>1, <2>4, Zenon DEF ThreadTypes
    <2> QED
      BY <2>1, <2>5, <2>6, TypesAlone DEF Types
  <1>5. CASE BulkDone
    <2>1. /\ InBulk /\ main' = Idle /\ ~InBulk'
          /\ demoIndex' = demoIndex + main.n
          /\ demoSize' = IF demoSize + main.n < DemoCapacity THEN demoSize + main.n
                         ELSE DemoCapacity
          /\ UNCHANGED <<extra_fields, onlineVars, demo, env_steps, server,
                         clientVars, adds, copies, inserted, overlapped>>
      BY <1>5 DEF BulkDone, Demo!BulkAdvance, Demo!AtMost, InBulk, Idle
    <2>2. main.n \in Nat \ {0}
      BY <2>1, Threads
    <2>3. DemoTypes'
      <3>1. demoIndex \in Nat /\ demoSize \in 0..DemoCapacity
        BY DEF Types, DemoTypes
      <3>2. demoSize' \in 0..DemoCapacity /\ demoIndex' \in Nat
        BY <2>1, <2>2, <3>1
      <3>3. ~overlapped => demoIndex + main.n <= DemoCapacity
        BY <2>1 DEF Types, DemoTypes, BulkPlaced
      <3>4. ~overlapped => demoIndex' \in 0..DemoCapacity
        BY <2>1, <2>2, <3>1, <3>3
      <3> QED
        BY <2>1, <3>2, <3>4 DEF Types, DemoTypes, BulkPlaced, Demo!Slots
    <2>4. ThreadTypes'
      BY <1>0, <2>1, Threads, Zenon DEF ThreadTypes
    <2> QED
      BY <2>1, <2>3, <2>4, TypesAlone DEF Types
  <1>6. CASE StartServer
    <2>1. /\ server' = Idle
          /\ UNCHANGED <<extra_fields, onlineVars, demoVars, env_steps, clientVars, main, adds,
                         copies, inserted, overlapped>>
      BY <1>6 DEF StartServer, history
    <2>2. ThreadTypes'
      BY <1>0, <2>1, Threads, Zenon DEF ThreadTypes
    <2> QED
      BY <2>1, <2>2, TypesAlone DEF Types
  <1> QED
    BY <1>1, <1>2, <1>3, <1>4, <1>5, <1>6

\* The steps of the clients.
LEMMA SendTypesKept ==
  ASSUME Types,
         NEW c \in Clients, SendAgain(c) \/ \E body \in Bodies : Send(c, body)
  PROVE  Types'
  <1>0. /\ client \in [Clients -> Records] /\ inbox \subseteq Requests
        /\ \A r \in inbox : r.try \in 1..client[r.by].tries
        /\ \A d \in Clients : client[d].state = "ready" => client[d].tries = 0
    BY DEF Types, ClientTypes
  <1>1. /\ client' \in [Clients -> Records]
        /\ \A d \in Clients \ {c} : client'[d] = client[d]
        /\ client'[c].tries = client[c].tries + 1
        /\ client'[c].state = "waiting"
        /\ inbox' = inbox \cup {[by |-> c, try |-> client[c].tries + 1]}
        /\ UNCHANGED unchangedByClient
    <2>1. CASE SendAgain(c)
      BY <2>1, SendAgainIs
    <2>2. ASSUME NEW body \in Bodies, Send(c, body)
          PROVE  /\ client' \in [Clients -> Records]
                 /\ \A d \in Clients \ {c} : client'[d] = client[d]
                 /\ client'[c].tries = client[c].tries + 1
                 /\ client'[c].state = "waiting"
                 /\ inbox' = inbox \cup {[by |-> c, try |-> client[c].tries + 1]}
                 /\ UNCHANGED unchangedByClient
      <3>1. /\ client' \in [Clients -> Records]
            /\ \A d \in Clients \ {c} : client'[d] = client[d]
            /\ client[c].state = "ready"
            /\ client'[c] = [state |-> "waiting", body |-> body, tries |-> 1]
            /\ inbox' = inbox \cup {[by |-> c, try |-> 1]}
            /\ UNCHANGED unchangedByClient
        BY <2>2, SendIs
      <3>2. client[c].tries = 0 /\ client[c].tries + 1 = 1
        BY <1>0, <3>1
      <3>3. client'[c].tries = 1 /\ client'[c].state = "waiting"
        BY <3>1
      <3> QED
        BY <3>1, <3>2, <3>3
    <2> QED
      BY <2>1, <2>2
  <1>2. client[c].tries \in Nat
    BY <1>0, IngestAssumption DEF Records
  <1>3. ClientTypes'
    <2>1. [by |-> c, try |-> client[c].tries + 1] \in Requests
      BY <1>2 DEF Requests
    <2>2. inbox' \subseteq Requests
      BY <1>0, <1>1, <2>1
    <2>3. ASSUME NEW r \in inbox' PROVE r.try \in 1..client'[r.by].tries
      <3>1. CASE r = [by |-> c, try |-> client[c].tries + 1]
        BY <1>1, <1>2, <3>1
      <3>2. CASE r \in inbox /\ r.by = c
        BY <1>0, <1>1, <1>2, <3>2
      <3>3. CASE r \in inbox /\ r.by # c
        <4>1. r.by \in Clients \ {c}
          BY <1>0, <3>3 DEF Requests
        <4> QED
          BY <1>0, <1>1, <3>3, <4>1
      <3> QED
        BY <1>1, <2>3, <3>1, <3>2, <3>3
    <2>4. ASSUME NEW d \in Clients, client'[d].state = "ready" PROVE client'[d].tries = 0
      BY <1>0, <1>1, <2>4
    <2> QED
      BY <1>1, <2>2, <2>3, <2>4 DEF ClientTypes
  <1>4. ThreadTypes'
    BY <1>1, Zenon DEF Types, ThreadTypes, unchangedByClient
  <1>5. UNCHANGED <<onlineVars, demoVars, main, overlapped, copies, inserted>>
    BY <1>1 DEF unchangedByClient, history
  <1> QED
    BY <1>3, <1>4, <1>5, TypesAlone DEF Types

\* An answer that takes no request from the inbox, and one that does.
LEMMA AnswerTypes ==
  ASSUME Types, NEW r \in Requests, NEW code \in {"ok", "error"}, Answered(r, code),
         inbox' \subseteq inbox
  PROVE  ClientTypes' /\ server' \in Servers
  <1>0. /\ client \in [Clients -> Records] /\ inbox \subseteq Requests
        /\ \A q \in inbox : q.try \in 1..client[q.by].tries
        /\ \A d \in Clients : client[d].state = "ready" => client[d].tries = 0
    BY DEF Types, ClientTypes
  <1>1. /\ client' \in [Clients -> Records]
        /\ \A d \in Clients : /\ client'[d].tries = client[d].tries
                              /\ client'[d].state \in {client[d].state, "ok", "error"}
        /\ server' = Idle
    BY AnsweredIs
  <1>2. \A q \in inbox' : q.try \in 1..client'[q.by].tries
    BY <1>0, <1>1 DEF Requests
  <1>3. \A d \in Clients : client'[d].state = "ready" => client'[d].tries = 0
    BY <1>0, <1>1
  <1> QED
    BY <1>0, <1>1, <1>2, <1>3, Threads DEF ClientTypes

\* A transition stored: one copy more, and the handler goes on to count it.
LEMMA CopiesIs ==
  ASSUME Types, HandlerInsert
  PROVE  /\ copies' \in [Clients -> [1..MaxLength -> Nat]]
         /\ \A c \in Clients : \A j \in 1..MaxLength :
              copies'[c][j] = IF c = server.req.by /\ j = server.at
                              THEN copies[c][j] + 1 ELSE copies[c][j]
         /\ server'.pc = "count" /\ server'.req = server.req /\ server'.at = server.at
  <1>1. /\ server.pc = "insert" /\ server.at <= Len(Posted)
        /\ copies' = [copies EXCEPT ![server.req.by] =
                        [copies[server.req.by] EXCEPT ![server.at] = @ + 1]]
        /\ server' = [server EXCEPT !.pc = "count"]
    BY DEF HandlerInsert
  <1>2. /\ server.at \in 1..MaxLength /\ server.req.by \in Clients
        /\ server \in [pc : {"insert", "count"}, req : Requests, at : Nat \ {0}]
    BY <1>1, PostedIs
  <1>3. copies \in [Clients -> [1..MaxLength -> Nat]]
    BY DEF Types, CountTypes
  <1>5. server'.pc = "count" /\ server'.req = server.req /\ server'.at = server.at
    BY <1>1, <1>2
  <1> DEFINE f   == copies[server.req.by]
             new == [f EXCEPT ![server.at] = f[server.at] + 1]
  <1>6. copies' = [copies EXCEPT ![server.req.by] = new]
    BY <1>1
  <1>7. f \in [1..MaxLength -> Nat]
    BY <1>2, <1>3
  <1> HIDE DEF f
  <1>8. /\ new \in [1..MaxLength -> Nat]
        /\ \A j \in 1..MaxLength : new[j] = IF j = server.at THEN f[j] + 1 ELSE f[j]
    BY <1>2, <1>7
  <1> HIDE DEF new
  <1>9. copies' \in [Clients -> [1..MaxLength -> Nat]]
    BY <1>3, <1>6, <1>8
  <1>10. ASSUME NEW c \in Clients, NEW j \in 1..MaxLength
         PROVE  copies'[c][j] = IF c = server.req.by /\ j = server.at
                                THEN copies[c][j] + 1 ELSE copies[c][j]
    BY <1>2, <1>3, <1>6, <1>8 DEF f
  <1> QED
    BY <1>5, <1>9, <1>10

\* A transition counted: the handler goes on to the next.
LEMMA CountedIs ==
  ASSUME Types, HandlerCount
  PROVE  /\ server' \in [pc : {"insert", "count"}, req : Requests, at : Nat \ {0}]
         /\ server'.pc = "insert" /\ server'.req = server.req /\ server'.at = server.at + 1
  <1>1. /\ server.pc = "count"
        /\ server' = [server EXCEPT !.pc = "insert", !.at = server.at + 1]
    BY DEF HandlerCount
  <1>2. server \in [pc : {"insert", "count"}, req : Requests, at : Nat \ {0}]
    BY <1>1, PostedIs
  <1>3. server.at + 1 \in Nat \ {0}
    BY <1>2
  <1> QED
    BY <1>1, <1>2, <1>3

\* The steps of the server thread.
LEMMA ServerTypesKept ==
  ASSUME Types, ServerStep \/ StatusEnv \/ \E c \in Clients : HandlePost(c)
  PROVE  Types'
  <1>0. /\ adds \in 0..AddBound /\ env_steps \in Nat /\ inserted \in Nat
        /\ extra_fields \in BOOLEAN /\ server \in Servers /\ main \in Mains
        /\ copies \in [Clients -> [1..MaxLength -> Nat]]
        /\ env_steps + 1 \in Nat /\ inserted + 1 \in Nat
        /\ inbox \subseteq Requests
    BY DEF Types, ThreadTypes, CountTypes, ClientTypes
  <1> DEFINE o == [from |-> server.req.by, at |-> server.at]
             t == Posted[server.at]
  <1>1. ASSUME NEW r \in inbox, Handle(r) PROVE Types'
    <2>1. /\ inbox' = inbox \ {r} /\ r \in Requests
          /\ UNCHANGED <<extra_fields, main, adds, onlineVars, demoVars, env_steps,
                         copies, inserted, overlapped>>
      BY <1>0, <1>1 DEF Handle, unchangedByServer, history
    <2>2. ClientTypes' /\ server' \in Servers
      <3>1. CASE client[r.by].body.list
        <4>1. server' = [pc |-> "insert", req |-> r, at |-> 1] /\ UNCHANGED client
          BY <1>1, <3>1 DEF Handle
        <4>2. server' \in Servers
          BY <2>1, <4>1 DEF Servers
        <4>3. ClientTypes'
          BY <2>1, <4>1 DEF Types, ClientTypes
        <4> QED
          BY <4>2, <4>3
      <3>2. CASE ~client[r.by].body.list
        <4>1. Answered(r, "error")
          BY <1>1, <3>2 DEF Handle
        <4> QED
          BY <2>1, <4>1, AnswerTypes
      <3> QED
        BY <3>1, <3>2
    <2>3. ThreadTypes'
      BY <1>0, <2>1, <2>2, Zenon DEF ThreadTypes
    <2> QED
      BY <2>1, <2>2, <2>3, TypesAlone DEF Types
  <1>2. CASE HandlerRaises
    <2>1. /\ server.pc = "insert" /\ server.at <= Len(Posted) /\ Tear(t, o)
          /\ Answered(server.req, "error")
          /\ UNCHANGED <<extra_fields, main, adds, inbox, env_steps, copies, inserted>>
      BY <1>2 DEF HandlerRaises, unchangedByServer
    <2>2. o \in Origins /\ server.req \in Requests
      BY <2>1, PostedIs
    <2>3. ClientTypes' /\ server' \in Servers
      BY <2>1, <2>2, AnswerTypes
    <2>4. OnlineTypes' /\ DemoTypes'
      BY <2>1, <2>2, RingTypesKept DEF InBulk
    <2>5. ThreadTypes'
      BY <1>0, <2>1, <2>3, Zenon DEF ThreadTypes
    <2> QED
      BY <2>1, <2>3, <2>4, <2>5, TypesAlone DEF Types
  <1>3. CASE HandlerInsert
    <2>1. /\ server.pc = "insert" /\ server.at <= Len(Posted) /\ InsertInto(t, o)
          /\ server' = [server EXCEPT !.pc = "count"]
          /\ copies' = [copies EXCEPT ![server.req.by][server.at] = @ + 1]
          /\ inserted' = inserted + 1
          /\ UNCHANGED <<extra_fields, main, adds, clientVars, env_steps>>
      BY <1>3 DEF HandlerInsert, unchangedByServer
    <2>2. /\ o \in Origins /\ server.at \in 1..MaxLength /\ server.req.by \in Clients
          /\ server \in [pc : {"insert", "count"}, req : Requests, at : Nat \ {0}]
      BY <2>1, PostedIs
    <2>3. OnlineTypes' /\ DemoTypes'
      BY <2>1, <2>2, RingTypesKept DEF InBulk
    <2>4. server' \in Servers
      BY <2>1, <2>2 DEF Servers
    <2>5. ThreadTypes'
      BY <1>0, <2>1, <2>4, Zenon DEF ThreadTypes
    <2>6. CountTypes'
      <3>1. copies' \in [Clients -> [1..MaxLength -> Nat]]
        BY <1>3, CopiesIs
      <3> QED
        BY <1>0, <2>1, <3>1 DEF CountTypes
    <2> QED
      BY <2>1, <2>3, <2>5, <2>6, TypesAlone DEF Types
  <1>4. CASE HandlerCount
    <2>1. /\ server.pc = "count" /\ env_steps' = env_steps + 1
          /\ server' = [server EXCEPT !.pc = "insert", !.at = @ + 1]
          /\ UNCHANGED <<extra_fields, main, adds, clientVars, onlineVars, demoVars, overlapped,
                         copies, inserted>>
      BY <1>4 DEF HandlerCount, unchangedByServer, history
    <2>2. server \in [pc : {"insert", "count"}, req : Requests, at : Nat \ {0}]
      BY <2>1, PostedIs
    <2>3. server' \in Servers
      BY <1>4, CountedIs DEF Servers
    <2>4. ThreadTypes'
      BY <1>0, <2>1, <2>3, Zenon DEF ThreadTypes
    <2> QED
      BY <2>1, <2>4, TypesAlone DEF Types
  <1>5. CASE HandlerEnds
    <2>1. /\ server.pc = "insert" /\ Answered(server.req, "ok")
          /\ UNCHANGED <<extra_fields, main, adds, inbox, env_steps, onlineVars, demoVars,
                         overlapped, copies, inserted>>
      BY <1>5 DEF HandlerEnds, unchangedByServer, history
    <2>2. server.req \in Requests
      BY <2>1, PostedIs
    <2>3. ClientTypes' /\ server' \in Servers
      BY <2>1, <2>2, AnswerTypes
    <2>4. ThreadTypes'
      BY <1>0, <2>1, <2>3, Zenon DEF ThreadTypes
    <2> QED
      BY <2>1, <2>3, <2>4, TypesAlone DEF Types
  <1>6. CASE StatusEnv \/ StatusSizes \/ StatusEnds
    <2>1. UNCHANGED unchangedByStatus
      BY <1>6 DEF StatusEnv, StatusSizes, StatusEnds
    <2>2. UNCHANGED <<extra_fields, main, adds, clientVars, env_steps, onlineVars, demoVars,
                      overlapped, copies, inserted>>
      BY <2>1 DEF unchangedByStatus, unchangedByServer, history
    <2>3. server' \in Servers
      <3>1. CASE StatusEnv
        BY <1>0, <3>1 DEF StatusEnv, Servers
      <3>2. CASE StatusSizes
        <4>1. server.pc = "status"
              /\ server' = [pc |-> "report", env |-> server.env, stored |-> onlineSize + demoSize]
          BY <3>2 DEF StatusSizes
        <4>2. server \in [pc : {"status"}, env : Nat]
          BY <1>0, <4>1 DEF Servers
        <4>3. onlineSize + demoSize \in Nat
          BY IngestAssumption DEF Types, OnlineTypes, DemoTypes
        <4> QED
          BY <4>1, <4>2, <4>3 DEF Servers
      <3>3. CASE StatusEnds
        BY <3>3, Threads DEF StatusEnds
      <3> QED
        BY <1>6, <3>1, <3>2, <3>3
    <2>4. ThreadTypes'
      BY <1>0, <2>2, <2>3, Zenon DEF ThreadTypes
    <2> QED
      BY <2>2, <2>4, TypesAlone DEF Types
  <1> QED
    BY <1>1, <1>2, <1>3, <1>4, <1>5, <1>6 DEF ServerStep, HandlePost

\* Every step of every thread keeps the types.
LEMMA TypesKept == Types /\ [Next]_vars => Types'
  <1> SUFFICES ASSUME Types, [Next]_vars PROVE Types'
    OBVIOUS
  <1>1. CASE UNCHANGED vars
    <2>1. UNCHANGED <<onlineVars, demoVars, clientVars, server, main, adds, env_steps,
                      extra_fields, overlapped, copies, inserted>>
      BY <1>1 DEF vars, history
    <2>2. ThreadTypes'
      BY <2>1, Zenon DEF Types, ThreadTypes
    <2> QED
      BY <2>1, <2>2, TypesAlone DEF Types
  <1> QED
    BY <1>1, AddRaisesIs, MainTypesKept, SendTypesKept, ServerTypesKept DEF Next

(***************************************************************************)
(* The inductive types, which the other results start from.                *)
(***************************************************************************)
THEOREM TypesInvariant == Spec => []Types
  BY InitTypes, TypesKept, PTL DEF Spec

(***************************************************************************)
(* The types the run checks.                                               *)
(***************************************************************************)
THEOREM TypeCorrect == Spec => []TypeOK
  <1>1. ASSUME Types PROVE TypeOK
    <2>1. /\ server.pc \in {"off", "idle", "insert", "count", "status", "report"}
          /\ main.pc \in {"idle", "count", "bulk head", "bulk tail"}
      BY <1>1 DEF Types, ThreadTypes, Servers, Mains
    <2>2. /\ online \in [Online!Slots -> Rows] /\ onlineIndex \in Online!Slots
          /\ onlineSize \in 0..OnlineCapacity
      BY <1>1, Zenon DEF Types, OnlineTypes
    <2>3. /\ demo \in [Demo!Slots -> Rows] /\ demoSize \in 0..DemoCapacity
          /\ overlapped \/ demoIndex \in 0..DemoCapacity
      BY <1>1, Zenon DEF Types, DemoTypes
    <2>4. client \in [Clients -> Records] /\ env_steps \in Nat /\ adds \in 0..AddBound
      BY <1>1, Zenon DEF Types, ClientTypes, ThreadTypes
    <2>5. \A r \in inbox : r.by \in Clients /\ r.try \in 1..client[r.by].tries
      BY <1>1 DEF Types, ClientTypes, Requests
    <2> QED
      BY <2>1, <2>2, <2>3, <2>4, <2>5, Zenon DEF TypeOK, Records
  <1> QED
    BY <1>1, TypesInvariant, PTL

-----------------------------------------------------------------------------
(***************************************************************************)
(* The counter.  Insert goes before count, and a size grows with every     *)
(* insert until its ring is full.                                          *)
(***************************************************************************)
SizesGrow == onlineSize' >= onlineSize /\ demoSize' >= demoSize

\* What is stored and counted is one more on both sides.
LEMMA SumGrows ==
  \A a, b, c, d, n \in Nat : n <= a + b /\ a <= c /\ b <= d => n <= c + d
  OBVIOUS

\* The arithmetic of a ring that takes one more row.
LEMMA SumOneMore ==
  \A a, b, c, d, n \in Nat : n <= a + b /\ c + d = a + b + 1 => n + 1 <= c + d
  OBVIOUS

\* The arithmetic of a count that follows its insert.
LEMMA OneCounted ==
  \A e, p, q, n \in Nat : e + p = n /\ p = q + 1 => (e + 1) + q = n
  OBVIOUS

\* The sizes of the two rings are natural numbers.
LEMMA SizesOf ==
  ASSUME Types
  PROVE  /\ onlineSize \in 0..OnlineCapacity /\ demoSize \in 0..DemoCapacity
         /\ OnlineCapacity \in Nat /\ DemoCapacity \in Nat
         /\ inserted \in Nat /\ env_steps \in Nat
  BY IngestAssumption DEF Types, OnlineTypes, DemoTypes, CountTypes, ThreadTypes

\* An insert makes one ring grow by one row, unless that ring is full.
LEMMA InsertSizes ==
  ASSUME Types, Types', NEW t, NEW o \in Origins, InsertInto(t, o)
  PROVE  /\ SizesGrow
         /\ Full' \/ onlineSize' + demoSize' = onlineSize + demoSize + 1
  <1>1. CASE InsertOnline(o)
    <2>1. /\ onlineSize' = IF onlineSize < OnlineCapacity THEN onlineSize + 1 ELSE onlineSize
          /\ demoSize' = demoSize
      BY <1>1, OnlineInsertIs DEF demoVars
    <2> QED
      BY <2>1, SizesOf DEF SizesGrow, Full
  <1>2. CASE InsertDemo(o)
    <2>1. /\ demoSize' = IF demoSize < DemoCapacity THEN demoSize + 1 ELSE demoSize
          /\ onlineSize' = onlineSize
      BY <1>2, DemoInsertIs DEF onlineVars
    <2> QED
      BY <2>1, SizesOf DEF SizesGrow, Full
  <1> QED
    BY <1>1, <1>2 DEF InsertInto

\* An insert that raises leaves both sizes alone.
LEMMA TearSizes ==
  ASSUME Types, NEW t, NEW o \in Origins, Tear(t, o)
  PROVE  SizesGrow /\ UNCHANGED <<onlineSize, demoSize>>
  <1>1. UNCHANGED <<onlineSize, demoSize>>
    BY TearIs DEF onlineVars, demoVars
  <1> QED
    BY <1>1, SizesOf DEF SizesGrow

\* Nothing is stored and nothing is counted at the start.
LEMMA InitSized == Init => Sized
  <1> SUFFICES ASSUME Init PROVE Sized
    OBVIOUS
  <1>1. main.pc = "idle" /\ server.pc = "off" /\ env_steps = 0 /\ inserted = 0
        /\ onlineSize = 0 /\ demoSize = 0
    BY DEF Init, Idle, Online!Init, Demo!Init
  <1> QED
    BY <1>1 DEF Sized, CountsStored, Pending

\* A step that inserts nothing and counts nothing.
LEMMA SizedAlone ==
  ASSUME Types, Types', Sized, SizesGrow, UNCHANGED <<env_steps, inserted>>, Pending' = Pending,
         server'.pc = "status" => server'.env = env_steps \/ server' = server,
         server'.pc = "report" => \/ server' = server
                                  \/ /\ server.pc = "status" /\ server'.env = server.env
                                     /\ server'.stored = onlineSize + demoSize
  PROVE  Sized'
  <1>1. /\ onlineSize \in 0..OnlineCapacity /\ demoSize \in 0..DemoCapacity
        /\ onlineSize' \in 0..OnlineCapacity /\ demoSize' \in 0..DemoCapacity
        /\ OnlineCapacity \in Nat /\ DemoCapacity \in Nat
        /\ inserted \in Nat /\ env_steps \in Nat
    BY SizesOf DEF Types, OnlineTypes, DemoTypes
  <1>2. Pending \in {0, 1, 2}
    BY DEF Pending
  <1>3. /\ env_steps + Pending = inserted
        /\ Full \/ inserted <= onlineSize + demoSize
        /\ server.pc = "status" => server.env <= inserted
        /\ server.pc = "report" => Full \/ server.env <= server.stored
    BY DEF Sized, CountsStored
  <1>4. Full => Full'
    BY <1>1 DEF Full, SizesGrow
  <1>5. CountsStored'
    BY <1>3 DEF CountsStored
  <1>6. Full' \/ inserted' <= onlineSize' + demoSize'
    <2>1. ASSUME ~Full PROVE inserted' <= onlineSize' + demoSize'
      <3>1. inserted <= onlineSize + demoSize
        BY <1>3, <2>1
      <3>2. /\ onlineSize \in Nat /\ demoSize \in Nat /\ inserted \in Nat
            /\ onlineSize' \in Nat /\ demoSize' \in Nat /\ inserted' = inserted
        BY <1>1
      <3>3. onlineSize <= onlineSize' /\ demoSize <= demoSize'
        BY <3>2 DEF SizesGrow
      <3> QED
        BY <3>1, <3>2, <3>3, SumGrows
    <2> QED
      BY <1>4, <2>1
  <1>7. server'.pc = "status" => server'.env <= inserted'
    BY <1>1, <1>2, <1>3
  <1>8. server'.pc = "report" => Full' \/ server'.env <= server'.stored
    <2>1. CASE server' = server
      BY <1>3, <1>4, <2>1
    <2>2. CASE /\ server.pc = "status" /\ server'.env = server.env
               /\ server'.stored = onlineSize + demoSize
      <3>1. server.env \in Nat
        BY <2>2 DEF Types, ThreadTypes, Servers
      <3> QED
        BY <1>1, <1>3, <1>4, <2>2, <3>1
    <2> QED
      BY <2>1, <2>2
  <1> QED
    BY <1>5, <1>6, <1>7, <1>8 DEF Sized

\* Every step keeps the counters and the sizes related.
LEMMA SizedKept == Types /\ Types' /\ Sized /\ [Next]_vars => Sized'
  <1> SUFFICES ASSUME Types, Types', Sized, [Next]_vars PROVE Sized'
    OBVIOUS
  <1>0. /\ onlineSize \in 0..OnlineCapacity /\ demoSize \in 0..DemoCapacity
        /\ OnlineCapacity \in Nat /\ DemoCapacity \in Nat
        /\ inserted \in Nat /\ env_steps \in Nat
        /\ onlineSize' \in 0..OnlineCapacity /\ demoSize' \in 0..DemoCapacity
    BY SizesOf DEF Types, OnlineTypes, DemoTypes
  <1>a. /\ CountsStored
        /\ Full \/ inserted <= onlineSize + demoSize
        /\ server.pc = "status" => server.env <= inserted
        /\ server.pc = "report" => Full \/ server.env <= server.stored
    BY DEF Sized
  <1>e. env_steps + Pending = inserted
    BY DEF Sized, CountsStored
  <1>f. Full \/ inserted <= onlineSize + demoSize
    BY DEF Sized
  <1>b. Idle.pc = "idle"
    BY DEF Idle
  <1>c. SizesGrow => (Full => Full')
    BY <1>0 DEF Full, SizesGrow
  <1>d. UNCHANGED <<onlineSize, demoSize>> => SizesGrow
    BY <1>0 DEF SizesGrow
  <1>1. ASSUME NEW t \in Transitions, Add(t) PROVE Sized'
    <2> DEFINE o == [from |-> "main", at |-> 0]
    <2>1. /\ InsertInto(t, o) /\ o \in Origins
          /\ main = Idle /\ main'.pc = "count" /\ inserted' = inserted + 1
          /\ UNCHANGED <<env_steps, server>>
      BY <1>1, Threads DEF Add
    <2>2. Pending' = Pending + 1
      BY <1>b, <2>1 DEF Pending
    <2>3. CountsStored'
      BY <1>0, <1>a, <2>1, <2>2 DEF CountsStored, Pending
    <2>4. SizesGrow /\ (Full' \/ onlineSize' + demoSize' = onlineSize + demoSize + 1)
      BY <2>1, InsertSizes
    <2>5. Full' \/ inserted' <= onlineSize' + demoSize'
      <3>1. CASE Full
        BY <1>c, <2>4, <3>1
      <3>2. CASE ~Full /\ ~Full'
        <4>1. inserted <= onlineSize + demoSize
          BY <1>f, <3>2
        <4>2. onlineSize' + demoSize' = onlineSize + demoSize + 1
          BY <2>4, <3>2
        <4>3. /\ onlineSize \in Nat /\ demoSize \in Nat /\ inserted \in Nat
              /\ onlineSize' \in Nat /\ demoSize' \in Nat /\ inserted' = inserted + 1
          BY <1>0, <2>1
        <4> QED
          BY <4>1, <4>2, <4>3, SumOneMore
      <3> QED
        BY <3>1, <3>2
    <2>6. server.pc = "status" => server.env \in Nat
      BY DEF Types, ThreadTypes, Servers
    <2>7. server'.pc = "status" => server'.env <= inserted'
      BY <1>0, <1>a, <2>1, <2>6
    <2>8. server'.pc = "report" => Full' \/ server'.env <= server'.stored
      BY <1>a, <1>c, <2>1, <2>4
    <2> QED
      BY <2>3, <2>5, <2>7, <2>8 DEF Sized
  <1>2. CASE CountAdd
    <2>1. /\ main.pc = "count" /\ main' = Idle /\ env_steps' = env_steps + 1
          /\ UNCHANGED <<server, inserted, onlineSize, demoSize>>
      BY <1>2 DEF CountAdd, history, onlineVars, demoVars
    <2>2. Pending = Pending' + 1 /\ Pending \in Nat /\ Pending' \in Nat
      BY <1>b, <2>1 DEF Pending
    <2>3. CountsStored'
      BY <1>0, <1>e, <2>1, <2>2, OneCounted DEF CountsStored
    <2>4. Full' <=> Full
      BY <2>1 DEF Full
    <2> QED
      BY <1>a, <2>1, <2>3, <2>4 DEF Sized
  <1>3. CASE (\E n \in BulkSizes : BulkHead(n)) \/ BulkTail \/ BulkDone
    <2>1. /\ main.pc # "count" /\ main'.pc # "count"
          /\ UNCHANGED <<server, env_steps, inserted>>
      <3>1. ASSUME NEW n \in BulkSizes, BulkHead(n)
            PROVE  /\ main.pc # "count" /\ main'.pc # "count"
                   /\ UNCHANGED <<server, env_steps, inserted>>
        BY <1>b, <3>1 DEF BulkHead, history
      <3>2. CASE BulkTail
        <4>1. InBulk /\ main.pc = "bulk head" /\ main' = [main EXCEPT !.pc = "bulk tail"]
              /\ UNCHANGED <<server, env_steps, inserted>>
          BY <3>2 DEF BulkTail, history, InBulk
        <4>2. main'.pc = "bulk tail"
          BY <4>1, Threads
        <4> QED
          BY <4>1, <4>2
      <3>3. CASE BulkDone
        BY <1>b, <3>3 DEF BulkDone
      <3> QED
        BY <1>3, <3>1, <3>2, <3>3
    <2>2. SizesGrow
      <3>1. CASE BulkDone
        <4>1. /\ demoSize' = IF demoSize + main.n < DemoCapacity THEN demoSize + main.n
                             ELSE DemoCapacity
              /\ UNCHANGED onlineSize /\ main.n \in Nat
          BY <3>1, Threads DEF BulkDone, Demo!BulkAdvance, Demo!AtMost, InBulk, onlineVars
        <4> QED
          BY <1>0, <4>1 DEF SizesGrow
      <3>2. CASE ~BulkDone
        <4>1. UNCHANGED <<onlineSize, demoSize>>
          BY <1>3, <3>2 DEF BulkHead, BulkTail, onlineVars
        <4> QED
          BY <1>d, <4>1
      <3> QED
        BY <3>1, <3>2
    <2>3. Pending' = Pending
      BY <2>1 DEF Pending
    <2> QED
      BY <2>1, <2>2, <2>3, SizedAlone
  <1>4. CASE StartServer \/ \E c \in Clients : SendAgain(c) \/ \E body \in Bodies : Send(c, body)
    <2>1. /\ UNCHANGED <<main, env_steps, inserted, onlineSize, demoSize>>
          /\ server' = server \/ (server.pc = "off" /\ server' = Idle)
      BY <1>4 DEF StartServer, Send, SendAgain, unchangedByClient, history, onlineVars, demoVars
    <2>2. Pending' = Pending
      BY <1>b, <2>1 DEF Pending
    <2> QED
      BY <1>b, <1>d, <2>1, <2>2, SizedAlone
  <1>5. ASSUME NEW c \in Clients, HandlePost(c) PROVE Sized'
    <2>1. /\ UNCHANGED <<main, env_steps, inserted, onlineSize, demoSize>>
          /\ server = Idle
          /\ server' = Idle \/ server'.pc = "insert"
      BY <1>5 DEF HandlePost, Handle, Answered, unchangedByServer, history, onlineVars, demoVars
    <2>2. Pending' = Pending
      BY <1>b, <2>1 DEF Pending
    <2> QED
      BY <1>b, <1>d, <2>1, <2>2, SizedAlone
  <1>6. CASE HandlerRaises
    <2> DEFINE o == [from |-> server.req.by, at |-> server.at]
               t == Posted[server.at]
    <2>1. /\ server.pc = "insert" /\ server.at <= Len(Posted) /\ Tear(t, o) /\ server' = Idle
          /\ UNCHANGED <<main, env_steps, inserted>>
      BY <1>6 DEF HandlerRaises, unchangedByServer, Answered
    <2>2. o \in Origins
      BY <2>1, PostedIs
    <2>3. SizesGrow
      BY <2>1, <2>2, TearSizes
    <2>4. Pending' = Pending
      BY <1>b, <2>1 DEF Pending
    <2> QED
      BY <1>b, <2>1, <2>3, <2>4, SizedAlone
  <1>7. CASE HandlerInsert
    <2> DEFINE o == [from |-> server.req.by, at |-> server.at]
               t == Posted[server.at]
    <2>1. /\ server.pc = "insert" /\ server.at <= Len(Posted) /\ InsertInto(t, o)
          /\ server'.pc = "count"
          /\ inserted' = inserted + 1
          /\ UNCHANGED <<main, env_steps>>
      BY <1>7, CopiesIs DEF HandlerInsert, unchangedByServer
    <2>2. o \in Origins
      BY <2>1, PostedIs
    <2>3. Pending' = Pending + 1
      BY <2>1 DEF Pending
    <2>4. CountsStored'
      BY <1>0, <1>a, <2>1, <2>3 DEF CountsStored, Pending
    <2>5. SizesGrow /\ (Full' \/ onlineSize' + demoSize' = onlineSize + demoSize + 1)
      BY <2>1, <2>2, InsertSizes
    <2>6. Full' \/ inserted' <= onlineSize' + demoSize'
      <3>1. CASE Full
        BY <1>c, <2>5, <3>1
      <3>2. CASE ~Full /\ ~Full'
        <4>1. inserted <= onlineSize + demoSize
          BY <1>f, <3>2
        <4>2. onlineSize' + demoSize' = onlineSize + demoSize + 1
          BY <2>5, <3>2
        <4>3. /\ onlineSize \in Nat /\ demoSize \in Nat /\ inserted \in Nat
              /\ onlineSize' \in Nat /\ demoSize' \in Nat /\ inserted' = inserted + 1
          BY <1>0, <2>1
        <4> QED
          BY <4>1, <4>2, <4>3, SumOneMore
      <3> QED
        BY <3>1, <3>2
    <2> QED
      BY <2>1, <2>4, <2>6 DEF Sized
  <1>8. CASE HandlerCount
    <2>1. /\ server.pc = "count" /\ server'.pc = "insert" /\ env_steps' = env_steps + 1
          /\ UNCHANGED <<main, inserted, onlineSize, demoSize>>
      BY <1>8, CountedIs DEF HandlerCount, unchangedByServer, history, onlineVars, demoVars
    <2>2. Pending = Pending' + 1 /\ Pending \in Nat /\ Pending' \in Nat
      BY <2>1 DEF Pending
    <2>3. CountsStored'
      BY <1>0, <1>e, <2>1, <2>2, OneCounted DEF CountsStored
    <2>4. Full' <=> Full
      BY <2>1 DEF Full
    <2> QED
      BY <1>a, <2>1, <2>3, <2>4 DEF Sized
  <1>9. CASE HandlerEnds \/ StatusEnv \/ StatusSizes \/ StatusEnds
    <2>1. /\ UNCHANGED <<main, env_steps, inserted, onlineSize, demoSize>>
          /\ server.pc # "count" /\ server'.pc # "count"
          /\ server'.pc = "status" => server'.env = env_steps
          /\ server'.pc = "report" => /\ server.pc = "status" /\ server'.env = server.env
                                      /\ server'.stored = onlineSize + demoSize
      BY <1>9, <1>b DEF HandlerEnds, StatusEnv, StatusSizes, StatusEnds, Answered,
         unchangedByServer, unchangedByStatus, history, onlineVars, demoVars
    <2>2. Pending' = Pending
      BY <2>1 DEF Pending
    <2> QED
      BY <1>d, <2>1, <2>2, SizedAlone
  <1>10. CASE UNCHANGED vars
    <2>1. UNCHANGED <<server, main, env_steps, inserted, onlineSize, demoSize>>
      BY <1>10 DEF vars, history, onlineVars, demoVars
    <2>2. Pending' = Pending
      BY <2>1 DEF Pending
    <2> QED
      BY <1>d, <2>1, <2>2, SizedAlone
  <1> QED
    BY <1>1, <1>2, <1>3, <1>4, <1>5, <1>6, <1>7, <1>8, <1>9, <1>10, AddRaisesIs
    DEF Next, ServerStep

\* The relation of counters and sizes holds throughout.
LEMMA SizedInvariant == Spec => []Sized
  BY InitSized, SizedKept, TypesInvariant, PTL DEF Spec

(***************************************************************************)
(* The counter is the number of insertions, but for the threads between    *)
(* their insert and their count.                                           *)
(***************************************************************************)
THEOREM CountsStoredCorrect == Spec => []CountsStored
  <1>1. Sized => CountsStored
    BY DEF Sized
  <1> QED
    BY <1>1, SizedInvariant, PTL

(***************************************************************************)
(* A status report that shows more steps than transitions comes from full  *)
(* rings.                                                                  *)
(***************************************************************************)
THEOREM StatusPlausibleCorrect == Spec => []StatusPlausible
  <1>1. Sized => StatusPlausible
    BY DEF Sized, StatusPlausible, Full
  <1> QED
    BY <1>1, SizedInvariant, PTL

-----------------------------------------------------------------------------
(***************************************************************************)
(* What becomes of the rings in a step, whichever thread takes it.         *)
(***************************************************************************)
\* The online ring: an insert, one that raised, or nothing.
OnlineStep ==
  \/ \E o \in Origins : InsertOnline(o)
  \/ /\ online' \in [Online!Slots -> Rows]
     /\ \A i \in Online!Slots : i # onlineIndex => online'[i] = online[i]
     /\ UNCHANGED <<onlineIndex, onlineSize>>

\* The demo ring: the same, and the three steps of a bulk load.
DemoTorn ==
  /\ demo' \in [Demo!Slots -> Rows]
  /\ \A i \in Demo!Slots : i # demoIndex => demo'[i] = demo[i]
  /\ demoIndex >= DemoCapacity => demo' = demo
  /\ overlapped' \in BOOLEAN /\ (overlapped' <=> overlapped \/ InBulk)
  /\ UNCHANGED <<demoIndex, demoSize, main, extra_fields, bulkLoaded>>

DemoAlone ==
  /\ UNCHANGED <<demoVars, overlapped, extra_fields, bulkLoaded>>
  /\ (~InBulk /\ ~InBulk') \/ main' = main

DemoStep ==
  \/ \E o \in Origins : InsertDemo(o) /\ UNCHANGED extra_fields
                        /\ ((~InBulk /\ ~InBulk') \/ main' = main)
  \/ DemoTorn
  \/ \E n \in BulkSizes : BulkHead(n)
  \/ BulkTail \/ BulkDone
  \/ DemoAlone

\* Every step is one of these for either ring.
LEMMA RingSteps ==
  ASSUME Types, [Next]_vars
  PROVE  OnlineStep /\ DemoStep
  <1>a. UNCHANGED onlineVars => OnlineStep
    BY DEF onlineVars, OnlineStep, Types, OnlineTypes
  <1>1. ASSUME NEW t \in Transitions, Add(t) PROVE OnlineStep /\ DemoStep
    <2> DEFINE o == [from |-> "main", at |-> 0]
    <2>1. /\ InsertInto(t, o) /\ o \in Origins
          /\ main = Idle /\ main' = [pc |-> "count"] /\ UNCHANGED extra_fields
      BY <1>1, Threads DEF Add
    <2>2. ~InBulk /\ ~InBulk'
      BY <2>1 DEF InBulk, Idle
    <2>3. CASE InsertOnline(o)
      BY <2>1, <2>2, <2>3, OnlineInsertIs DEF OnlineStep, DemoStep, DemoAlone
    <2>4. CASE InsertDemo(o)
      BY <2>1, <2>2, <2>4, <1>a, DemoInsertIs DEF DemoStep
    <2> QED
      BY <2>1, <2>3, <2>4 DEF InsertInto
  <1>2. CASE (\E n \in BulkSizes : BulkHead(n)) \/ BulkTail \/ BulkDone
    BY <1>2, <1>a DEF BulkHead, BulkTail, BulkDone, DemoStep
  <1>3. CASE HandlerInsert
    <2> DEFINE o == [from |-> server.req.by, at |-> server.at]
               t == Posted[server.at]
    <2>1. /\ server.pc = "insert" /\ server.at <= Len(Posted) /\ InsertInto(t, o)
          /\ UNCHANGED <<main, extra_fields>>
      BY <1>3 DEF HandlerInsert, unchangedByServer
    <2>2. o \in Origins
      BY <2>1, PostedIs
    <2>3. CASE InsertOnline(o)
      BY <2>1, <2>2, <2>3, OnlineInsertIs DEF OnlineStep, DemoStep, DemoAlone
    <2>4. CASE InsertDemo(o)
      BY <2>1, <2>2, <2>4, <1>a, DemoInsertIs DEF DemoStep
    <2> QED
      BY <2>1, <2>3, <2>4 DEF InsertInto
  <1>4. CASE HandlerRaises
    <2> DEFINE o == [from |-> server.req.by, at |-> server.at]
               t == Posted[server.at]
    <2>1. /\ server.pc = "insert" /\ server.at <= Len(Posted) /\ Tear(t, o)
          /\ UNCHANGED <<main, extra_fields, bulkLoaded>>
      BY <1>4 DEF HandlerRaises, unchangedByServer
    <2>2. o \in Origins
      BY <2>1, PostedIs
    <2>3. CASE /\ online' \in [Online!Slots -> Rows]
               /\ \A i \in Online!Slots : i # onlineIndex => online'[i] = online[i]
               /\ UNCHANGED <<demoVars, onlineIndex, onlineSize, overlapped>>
      BY <2>1, <2>3 DEF OnlineStep, DemoStep, DemoAlone
    <2>4. CASE /\ demo' \in [Demo!Slots -> Rows]
               /\ \A i \in Demo!Slots : i # demoIndex => demo'[i] = demo[i]
               /\ demoIndex >= DemoCapacity => demo' = demo
               /\ overlapped' \in BOOLEAN /\ (overlapped' <=> overlapped \/ InBulk)
               /\ UNCHANGED <<onlineVars, demoIndex, demoSize>>
      BY <2>1, <2>4, <1>a DEF DemoStep, DemoTorn
    <2> QED
      BY <2>1, <2>2, <2>3, <2>4, TearIs
  <1>5. CASE \/ CountAdd \/ StartServer
             \/ \E c \in Clients : SendAgain(c) \/ HandlePost(c) \/ \E b \in Bodies : Send(c, b)
             \/ HandlerCount \/ HandlerEnds \/ StatusEnv \/ StatusSizes \/ StatusEnds
             \/ UNCHANGED vars
    <2>1. UNCHANGED <<onlineVars, demoVars, overlapped, extra_fields, bulkLoaded>>
      BY <1>5 DEF CountAdd, StartServer, SendAgain, Send, HandlePost, Handle, HandlerCount,
         HandlerEnds, StatusEnv, StatusSizes, StatusEnds, unchangedByClient, unchangedByServer,
         unchangedByStatus, history, vars
    <2>2. (~InBulk /\ ~InBulk') \/ main' = main
      <3>1. CASE CountAdd
        BY <3>1 DEF CountAdd, InBulk, Idle
      <3>2. CASE ~CountAdd
        BY <1>5, <3>2 DEF StartServer, SendAgain, Send, HandlePost, Handle, HandlerCount,
           HandlerEnds, StatusEnv, StatusSizes, StatusEnds, unchangedByClient,
           unchangedByServer, unchangedByStatus, vars
      <3> QED
        BY <3>1, <3>2
    <2> QED
      BY <1>a, <2>1, <2>2 DEF DemoStep, DemoAlone
  <1> QED
    BY <1>1, <1>2, <1>3, <1>4, <1>5, AddRaisesIs DEF Next, ServerStep

(***************************************************************************)
(* A demo ring whose index stands at its end does not change any more.     *)
(***************************************************************************)
THEOREM FullDemoIsFinalCorrect == Spec => FullDemoIsFinal
  <1>1. ASSUME Types, [Next]_vars, demoIndex >= DemoCapacity PROVE UNCHANGED demoVars
    <2> USE IngestAssumption
    <2>0. demoIndex \in Nat /\ DemoCapacity \in Nat /\ ~(demoIndex < DemoCapacity) /\ ~InBulk
      BY <1>1 DEF Types, DemoTypes, BulkPlaced
    <2>1. ASSUME NEW o \in Origins, InsertDemo(o) PROVE FALSE
      <3>1. demoIndex \in Demo!Slots
        BY <1>1, <2>1, DemoInsertIs
      <3> QED
        BY <2>0, <3>1 DEF Demo!Slots
    <2>2. ASSUME NEW n \in BulkSizes, BulkHead(n) PROVE FALSE
      <3>1. demoIndex + n <= DemoCapacity
        BY <2>2 DEF BulkHead, Demo!Fits
      <3>2. n \in Nat \ {0}
        BY IngestAssumption
      <3> QED
        BY <2>0, <3>1, <3>2
    <2>3. ~BulkTail /\ ~BulkDone
      BY <2>0 DEF BulkTail, BulkDone, InBulk
    <2>4. DemoTorn => UNCHANGED demoVars
      BY <1>1 DEF DemoTorn, demoVars
    <2>5. DemoStep
      BY <1>1, RingSteps
    <2> QED
      BY <2>1, <2>2, <2>3, <2>4, <2>5 DEF DemoStep, DemoAlone
  <1>2. Types /\ [Next]_vars => [demoIndex >= DemoCapacity => UNCHANGED demoVars]_vars
    BY <1>1
  <1> QED
    BY <1>2, TypesInvariant, PTL DEF Spec, FullDemoIsFinal

-----------------------------------------------------------------------------
(***************************************************************************)
(* What a sample can return.                                               *)
(***************************************************************************)
LEMMA OnlineWholeKept == Types /\ OnlineWhole /\ [Next]_vars => OnlineWhole'
  <1> SUFFICES ASSUME Types, OnlineWhole, [Next]_vars PROVE OnlineWhole'
    OBVIOUS
  <1> USE IngestAssumption
  <1>0. /\ onlineIndex \in 0..(OnlineCapacity - 1) /\ onlineSize \in 0..OnlineCapacity
        /\ onlineSize < OnlineCapacity => onlineIndex = onlineSize
        /\ \A i \in Online!Slots : i < onlineSize /\ Spoilt(online[i]) => i = onlineIndex
        /\ Online!Slots = 0..(OnlineCapacity - 1)
    BY DEF Types, OnlineTypes, OnlineWhole, Online!Slots
  <1>1. ASSUME NEW o \in Origins, InsertOnline(o) PROVE OnlineWhole'
    <2>1. /\ \A i \in Online!Slots :
               online'[i] = IF i = onlineIndex THEN Row(o) ELSE online[i]
          /\ onlineIndex' = Next1(onlineIndex, OnlineCapacity)
          /\ onlineSize' = IF onlineSize < OnlineCapacity THEN onlineSize + 1 ELSE onlineSize
      BY <1>1, OnlineInsertIs
    <2>2. onlineSize' < OnlineCapacity => onlineIndex' = onlineSize'
      BY <1>0, <2>1 DEF Next1
    <2>3. ASSUME NEW i \in Online!Slots, i < onlineSize', Spoilt(online'[i]) PROVE FALSE
      <3>1. i # onlineIndex
        BY <2>1, <2>3, WholeRows
      <3>2. Spoilt(online[i])
        BY <2>1, <2>3, <3>1
      <3>3. i < onlineSize
        BY <1>0, <2>1, <2>3, <3>1
      <3> QED
        BY <1>0, <3>1, <3>2, <3>3
    <2> QED
      BY <2>2, <2>3 DEF OnlineWhole, Online!Slots
  <1>2. CASE /\ \A i \in Online!Slots : i # onlineIndex => online'[i] = online[i]
             /\ UNCHANGED <<onlineIndex, onlineSize>>
    BY <1>0, <1>2 DEF OnlineWhole, Online!Slots
  <1> QED
    BY <1>1, <1>2, RingSteps DEF OnlineStep

\* No step spoils a row of the demo ring but in the three ways allowed.
LEMMA DemoWholeKept == Types /\ Types' /\ DemoWhole /\ [Next]_vars => DemoWhole'
  <1> SUFFICES ASSUME Types, Types', DemoWhole, [Next]_vars, ~overlapped' PROVE DemoWhole'
    BY DEF DemoWhole
  <1> USE IngestAssumption
  <1> DEFINE S == 0..(DemoCapacity - 1)
  <1>a. Demo!Slots = S
    BY DEF Demo!Slots
  <1>b. demoIndex \in Nat /\ demoSize \in 0..DemoCapacity /\ DemoCapacity \in Nat \ {0}
    BY DEF Types, DemoTypes
  <1>c. InBulk => main \in [pc : {"bulk head", "bulk tail"}, from : Nat, n : Nat \ {0}]
    BY Threads
  <1>d. ASSUME ~overlapped
        PROVE  /\ demoSize < DemoCapacity => demoIndex = demoSize
               /\ \A i \in S : InBulkSlice(i) => demo[i].head = Loaded
               /\ \A i \in S : InBulkSlice(i) /\ main.pc = "bulk tail" /\ ~extra_fields =>
                    demo[i] = Row(Loaded)
               /\ \A i \in S : i < demoSize /\ Spoilt(demo[i]) =>
                    i = demoIndex \/ InBulkSlice(i) \/ (extra_fields /\ i \in bulkLoaded)
    BY <1>a, <1>d DEF DemoWhole
  <1>e. ASSUME /\ demoSize' < DemoCapacity => demoIndex' = demoSize'
               /\ \A i \in S : InBulkSlice(i)' => demo'[i].head = Loaded
               /\ \A i \in S : InBulkSlice(i)' /\ main'.pc = "bulk tail" /\ ~extra_fields' =>
                    demo'[i] = Row(Loaded)
               /\ \A i \in S : i < demoSize' /\ Spoilt(demo'[i]) =>
                    i = demoIndex' \/ InBulkSlice(i)' \/ (extra_fields' /\ i \in bulkLoaded')
        PROVE  DemoWhole'
    BY <1>e, <1>a DEF DemoWhole
  <1>1. ASSUME NEW o \in Origins, InsertDemo(o), (~InBulk /\ ~InBulk') \/ main' = main,
               UNCHANGED extra_fields
        PROVE  DemoWhole'
    <2>1. /\ demoIndex \in S
          /\ \A i \in S : demo'[i] = IF i = demoIndex THEN Row(o) ELSE demo[i]
          /\ demoIndex' = Next1(demoIndex, DemoCapacity)
          /\ demoSize' = IF demoSize < DemoCapacity THEN demoSize + 1 ELSE demoSize
          /\ bulkLoaded' = bulkLoaded \ {demoIndex}
          /\ ~overlapped /\ ~InBulk
      BY <1>1, <1>a, DemoInsertIs
    <2>2. ~InBulk'
      BY <1>1, <2>1 DEF InBulk
    <2>3. demoSize' < DemoCapacity => demoIndex' = demoSize'
      BY <1>b, <1>d, <2>1 DEF Next1
    <2>4. ASSUME NEW i \in S, i < demoSize', Spoilt(demo'[i])
          PROVE  extra_fields' /\ i \in bulkLoaded'
      <3>1. i # demoIndex
        BY <2>1, <2>4, WholeRows
      <3>2. Spoilt(demo[i])
        BY <2>1, <2>4, <3>1
      <3>3. i < demoSize
        <4>1. demoSize < DemoCapacity => demoIndex = demoSize
          BY <1>d, <2>1
        <4>2. demoSize' = IF demoSize < DemoCapacity THEN demoSize + 1 ELSE demoSize
          BY <2>1
        <4> QED
          BY <1>b, <2>4, <3>1, <4>1, <4>2
      <3> QED
        BY <1>1, <1>d, <2>1, <3>1, <3>2, <3>3 DEF InBulkSlice
    <2> QED
      BY <1>e, <2>2, <2>3, <2>4 DEF InBulkSlice
  <1>2. CASE DemoTorn
    <2>1. /\ \A i \in S : i # demoIndex => demo'[i] = demo[i]
          /\ ~overlapped /\ ~InBulk
          /\ UNCHANGED <<demoIndex, demoSize, main, extra_fields, bulkLoaded>>
      BY <1>2, <1>a DEF DemoTorn
    <2>2. ~InBulk'
      BY <2>1 DEF InBulk
    <2> QED
      BY <1>d, <1>e, <2>1, <2>2 DEF InBulkSlice
  <1>3. ASSUME NEW n \in BulkSizes, BulkHead(n) PROVE DemoWhole'
    <2>1. /\ demo' = [i \in S |-> IF i \in demoIndex..(demoIndex + n - 1)
                                  THEN [demo[i] EXCEPT !.head = Loaded] ELSE demo[i]]
          /\ main = Idle /\ main' = [pc |-> "bulk head", from |-> demoIndex, n |-> n]
          /\ UNCHANGED <<demoIndex, demoSize, extra_fields, overlapped, bulkLoaded>>
      BY <1>3, <1>a DEF BulkHead, history
    <2>2. /\ InBulk' /\ main'.pc = "bulk head" /\ ~InBulk
          /\ \A i \in S : InBulkSlice(i)' <=> i \in demoIndex..(demoIndex + n - 1)
      BY <2>1, Threads DEF InBulk, InBulkSlice
    <2>3. \A i \in S : demo[i] \in Rows
      BY <1>a DEF Types, DemoTypes
    <2>4. \A i \in S : InBulkSlice(i)' => demo'[i].head = Loaded
      BY <2>1, <2>2, <2>3 DEF Rows
    <2>5. \A i \in S : ~InBulkSlice(i)' => demo'[i] = demo[i]
      BY <2>1, <2>2
    <2>6. ~overlapped
      BY <2>1
    <2>7. demoSize' < DemoCapacity => demoIndex' = demoSize'
      BY <1>d, <2>1, <2>6
    <2>8. ASSUME NEW i \in S, i < demoSize', Spoilt(demo'[i]), ~InBulkSlice(i)'
          PROVE  i = demoIndex' \/ (extra_fields' /\ i \in bulkLoaded')
      <3>1. i < demoSize /\ Spoilt(demo[i]) /\ ~InBulkSlice(i)
        BY <2>1, <2>2, <2>5, <2>8 DEF InBulkSlice
      <3> QED
        BY <1>d, <2>1, <2>6, <3>1
    <2>9. \A i \in S : ~(InBulkSlice(i)' /\ main'.pc = "bulk tail" /\ ~extra_fields')
      BY <2>2
    <2> QED
      BY <1>e, <2>4, <2>7, <2>8, <2>9
  <1>4. CASE BulkTail
    <2>1. /\ InBulk /\ main.pc = "bulk head" /\ main' = [main EXCEPT !.pc = "bulk tail"]
          /\ demo' = [i \in S |->
                        IF i \in main.from..(main.from + main.n - 1) /\ ~extra_fields
                        THEN [demo[i] EXCEPT !.tail = Loaded] ELSE demo[i]]
          /\ UNCHANGED <<demoIndex, demoSize, extra_fields, overlapped, bulkLoaded>>
      BY <1>4, <1>a DEF BulkTail, history, InBulk
    <2>2. InBulk' /\ main'.from = main.from /\ main'.n = main.n
      BY <1>c, <2>1 DEF InBulk
    <2>3. \A i \in S : InBulkSlice(i)' <=> InBulkSlice(i)
      BY <2>1, <2>2 DEF InBulkSlice
    <2>4. \A i \in S : demo[i] \in Rows
      BY <1>a DEF Types, DemoTypes
    <2>5. ASSUME NEW i \in S, InBulkSlice(i)
          PROVE  demo'[i].head = Loaded /\ (~extra_fields => demo'[i] = Row(Loaded))
      <3>1. demo[i].head = Loaded /\ i \in main.from..(main.from + main.n - 1)
        BY <1>d, <2>1, <2>5 DEF InBulkSlice
      <3>2. CASE extra_fields
        BY <2>1, <3>1, <3>2
      <3>3. CASE ~extra_fields
        <4>1. demo'[i] = [demo[i] EXCEPT !.tail = Loaded]
          BY <2>1, <3>1, <3>3
        <4> QED
          BY <2>4, <3>1, <4>1 DEF Rows, Row
      <3> QED
        BY <3>2, <3>3
    <2>6. \A i \in S : ~InBulkSlice(i) => demo'[i] = demo[i]
      BY <2>1 DEF InBulkSlice
    <2>7. ASSUME NEW i \in S, i < demoSize', Spoilt(demo'[i]), ~InBulkSlice(i)'
          PROVE  i = demoIndex' \/ (extra_fields' /\ i \in bulkLoaded')
      <3>1. i < demoSize /\ Spoilt(demo[i]) /\ ~InBulkSlice(i)
        BY <2>1, <2>3, <2>6, <2>7
      <3> QED
        BY <1>d, <2>1, <3>1
    <2> QED
      BY <1>d, <1>e, <2>1, <2>3, <2>5, <2>7
  <1>5. CASE BulkDone
    <2>1. /\ InBulk /\ main.pc = "bulk tail" /\ main' = Idle /\ ~InBulk'
          /\ demoIndex' = demoIndex + main.n
          /\ demoSize' = IF demoSize + main.n < DemoCapacity THEN demoSize + main.n
                         ELSE DemoCapacity
          /\ bulkLoaded' = bulkLoaded \cup (main.from..(main.from + main.n - 1))
          /\ UNCHANGED <<demo, extra_fields, overlapped>>
      BY <1>5 DEF BulkDone, Demo!BulkAdvance, Demo!AtMost, InBulk, Idle
    <2>2. main.n \in Nat \ {0} /\ main.from \in Nat
      BY <1>c, <2>1
    <2>3. main.from = demoIndex /\ demoIndex + main.n <= DemoCapacity /\ ~overlapped
      BY <2>1 DEF Types, DemoTypes, BulkPlaced
    <2>6. demoSize < DemoCapacity => demoIndex = demoSize
      BY <1>d, <2>3
    <2>7. /\ demoIndex' = demoIndex + main.n
          /\ demoSize' = IF demoSize + main.n < DemoCapacity THEN demoSize + main.n
                         ELSE DemoCapacity
      BY <2>1
    <2>4. demoSize' < DemoCapacity => demoIndex' = demoSize'
      BY <1>b, <2>2, <2>3, <2>6, <2>7
    <2>5. ASSUME NEW i \in S, i < demoSize', Spoilt(demo'[i])
          PROVE  extra_fields' /\ i \in bulkLoaded'
      <3>1. CASE i \in main.from..(main.from + main.n - 1)
        <4>1. InBulkSlice(i) /\ Spoilt(demo[i])
          BY <2>1, <2>5, <3>1 DEF InBulkSlice
        <4>2. ~extra_fields => demo[i] = Row(Loaded)
          BY <1>d, <2>1, <2>3, <4>1
        <4>3. ~Spoilt(Row(Loaded))
          BY Threads, WholeRows
        <4> QED
          BY <2>1, <3>1, <4>1, <4>2, <4>3
      <3>2. CASE i \notin main.from..(main.from + main.n - 1)
        <4>1. ~InBulkSlice(i)
          BY <3>2 DEF InBulkSlice
        <4>2. i < demoSize /\ i # demoIndex
          BY <1>b, <2>2, <2>3, <2>5, <2>6, <2>7, <3>2
        <4> QED
          BY <1>d, <2>1, <2>3, <2>5, <4>1, <4>2
      <3> QED
        BY <3>1, <3>2
    <2> QED
      BY <1>e, <2>1, <2>4, <2>5 DEF InBulkSlice
  <1>6. CASE DemoAlone
    <2>1. UNCHANGED <<demo, demoIndex, demoSize, overlapped, extra_fields, bulkLoaded>>
      BY <1>6 DEF DemoAlone, demoVars
    <2>2. \A i \in S : InBulkSlice(i)' <=> InBulkSlice(i)
      BY <1>6 DEF DemoAlone, InBulkSlice, InBulk
    <2>3. \A i \in S : InBulkSlice(i)' => main' = main
      BY <1>6 DEF DemoAlone, InBulkSlice
    <2> QED
      BY <1>d, <1>e, <2>1, <2>2, <2>3
  <1> QED
    BY <1>1, <1>2, <1>3, <1>4, <1>5, <1>6, RingSteps DEF DemoStep

(***************************************************************************)
(* Half rows are only where the next insert will overwrite them, and in    *)
(* the demo ring where a bulk load left or is leaving them.                *)
(***************************************************************************)
THEOREM SpoiltOnlyAtIndexCorrect == Spec => []SpoiltOnlyAtIndex
  <1>1. Init => OnlineWhole /\ DemoWhole
    <2> SUFFICES ASSUME Init PROVE OnlineWhole /\ DemoWhole
      OBVIOUS
    <2>1. /\ onlineSize = 0 /\ onlineIndex = 0 /\ demoSize = 0 /\ demoIndex = 0
          /\ main = Idle /\ ~InBulk
      BY DEF Init, Idle, InBulk, Online!Init, Demo!Init
    <2>2. OnlineWhole
      BY <2>1 DEF OnlineWhole, Online!Slots
    <2>3. DemoWhole
      <3>1. \A i \in Demo!Slots : ~(i < demoSize) /\ ~InBulkSlice(i)
        BY <2>1, IngestAssumption DEF Demo!Slots, InBulkSlice
      <3> QED
        BY <2>1, <3>1 DEF DemoWhole
    <2> QED
      BY <2>2, <2>3
  <1>2. Spec => [](OnlineWhole /\ DemoWhole)
    BY <1>1, OnlineWholeKept, DemoWholeKept, TypesInvariant, PTL DEF Spec
  <1>3. Types /\ OnlineWhole /\ DemoWhole => SpoiltOnlyAtIndex
    <2> SUFFICES ASSUME Types, OnlineWhole, DemoWhole PROVE SpoiltOnlyAtIndex
      OBVIOUS
    <2>1. /\ onlineSize \in 0..OnlineCapacity /\ OnlineCapacity \in Nat
          /\ demoSize \in 0..DemoCapacity /\ DemoCapacity \in Nat
      BY IngestAssumption DEF Types, OnlineTypes, DemoTypes
    <2>2. ASSUME NEW i \in Online!Sampleable PROVE i \in Online!Slots /\ i < onlineSize
      BY <2>1, <2>2 DEF Online!Sampleable, Online!Slots
    <2>3. ASSUME NEW i \in Demo!Sampleable PROVE i \in Demo!Slots /\ i < demoSize
      BY <2>1, <2>3 DEF Demo!Sampleable, Demo!Slots
    <2> QED
      BY <2>2, <2>3 DEF SpoiltOnlyAtIndex, OnlineWhole, DemoWhole
  <1> QED
    BY <1>2, <1>3, TypesInvariant, PTL

-----------------------------------------------------------------------------
(***************************************************************************)
(* The posts.                                                              *)
(***************************************************************************)
LEMMA PostTypes ==
  ASSUME Types, NEW c \in Clients
  PROVE  /\ \A j \in 1..MaxLength : copies[c][j] \in Nat
         /\ client[c].tries \in Nat
         /\ Len(Trs(c)) \in 0..MaxLength /\ DOMAIN Trs(c) = 1..Len(Trs(c))
         /\ Working(c) => /\ server \in [pc : {"insert", "count"}, req : Requests, at : Nat \ {0}]
                          /\ server.at \in Nat \ {0} /\ Posted = Trs(c)
  <1>1. \A j \in 1..MaxLength : copies[c][j] \in Nat
    BY DEF Types, CountTypes
  <1>2. client[c] \in Records
    BY DEF Types, ClientTypes
  <1>3. client[c].tries \in Nat /\ client[c].body \in Bodies \cup {NoBody}
    BY <1>2, IngestAssumption DEF Records
  <1>4. Len(Trs(c)) \in 0..MaxLength /\ DOMAIN Trs(c) = 1..Len(Trs(c))
    BY <1>3, BodyTrs DEF Trs
  <1>5. Working(c) => /\ server \in [pc : {"insert", "count"}, req : Requests, at : Nat \ {0}]
                      /\ server.at \in Nat \ {0} /\ Posted = Trs(c)
    BY PostedIs DEF Working, Posted, Trs
  <1> QED
    BY <1>1, <1>3, <1>4, <1>5

\* The requests of a client that wait are finitely many.
LEMMA WaitingFinite ==
  ASSUME IsFiniteSet(inbox), NEW c
  PROVE  IsFiniteSet(Waiting(c)) /\ Cardinality(Waiting(c)) \in Nat
  <1>1. Waiting(c) \subseteq inbox
    BY DEF Waiting
  <1> QED
    BY <1>1, FS_Subset, FS_CardinalityType

\* The transitions behind are the first ones.
LEMMA BehindFirst ==
  ASSUME Types, NEW c \in Clients, NEW j \in 2..MaxLength, Behind(c, j)
  PROVE  Behind(c, j - 1)
  <1>1. Working(c) /\ server.at \in Nat
    BY PostTypes DEF Behind
  <1> QED
    BY <1>1, IngestAssumption DEF Behind

\* No client has posted anything at the start.
LEMMA InitStored == Init => StoredInv
  <1> SUFFICES ASSUME Init PROVE StoredInv
    OBVIOUS
  <1>1. IsFiniteSet(inbox)
    BY FS_EmptySet DEF Init
  <1>2. ASSUME NEW c \in Clients PROVE Stored(c)
    <2>1. /\ client[c].state = "ready" /\ client[c].tries = 0 /\ client[c].body = NoBody
          /\ server.pc = "off" /\ inbox = {}
          /\ \A j \in 1..MaxLength : copies[c][j] = 0
      BY DEF Init
    <2>2. ~Working(c) /\ Waiting(c) = {} /\ \A j : ~Behind(c, j)
      BY <2>1 DEF Working, Waiting, Behind
    <2>3. Post(c)
      BY <2>1, <2>2 DEF Post, Sent
    <2>4. AtMostPerTry(c)
      BY <2>1, <2>2, FS_EmptySet DEF AtMostPerTry, MayStore
    <2>5. InOrder(c)
      <3>1. \A j \in 2..MaxLength : j - 1 \in 1..MaxLength
        BY IngestAssumption
      <3> QED
        BY <2>1, <2>2, <3>1, IngestAssumption DEF InOrder, Before
    <2>6. AllThere(c)
      BY <2>1 DEF AllThere
    <2>7. StopsAtRaise(c)
      <3>1. Trs(c) = <<>> /\ DOMAIN Trs(c) = {}
        BY <2>1 DEF Trs, NoBody
      <3> QED
        BY <2>2, <3>1 DEF StopsAtRaise
    <2> QED
      BY <2>3, <2>4, <2>5, <2>6, <2>7 DEF Stored
  <1> QED
    BY <1>1, <1>2 DEF StoredInv

\* A client the step does not concern.
LEMMA StoredAlone ==
  ASSUME NEW c \in Clients, Stored(c),
         /\ client'[c].body = client[c].body /\ client'[c].tries = client[c].tries
         /\ client'[c].state = client[c].state,
         copies'[c] = copies[c], Waiting(c)' = Waiting(c),
         Working(c)' <=> Working(c), Working(c) => server' = server
  PROVE  Stored(c)'
  <1>1. \A j : Behind(c, j)' <=> Behind(c, j)
    BY DEF Behind
  <1>2. \A j : MayStore(c, j)' = MayStore(c, j) /\ Before(c, j)' = Before(c, j)
    BY <1>1 DEF MayStore, Before
  <1>3. Trs(c)' = Trs(c)
    BY DEF Trs
  <1>4. Post(c)'
    BY DEF Stored, Post, Sent
  <1>5. AtMostPerTry(c)'
    BY <1>2 DEF Stored, AtMostPerTry
  <1>6. InOrder(c)'
    BY <1>2 DEF Stored, InOrder
  <1>7. AllThere(c)'
    BY <1>3 DEF Stored, AllThere
  <1>8. StopsAtRaise(c)'
    BY <1>1, <1>3 DEF Stored, StopsAtRaise
  <1> QED
    BY <1>4, <1>5, <1>6, <1>7, <1>8 DEF Stored

\* An attempt: one request more, and one try more.
LEMMA StoredSend ==
  ASSUME Types, StoredInv, NEW c \in Clients,
         SendAgain(c) \/ \E body \in Bodies : Send(c, body)
  PROVE  StoredInv'
  <1> DEFINE r == [by |-> c, try |-> client[c].tries + 1]
  <1>0. /\ \A d \in Clients \ {c} : client'[d] = client[d]
        /\ client'[c].state = "waiting" /\ client'[c].tries = client[c].tries + 1
        /\ Sent(c) => client'[c].body = client[c].body
        /\ client[c].state # "ok"
        /\ inbox' = inbox \cup {r}
        /\ UNCHANGED unchangedByClient
    <2>1. CASE SendAgain(c)
      BY <2>1, SendAgainIs
    <2>2. ASSUME NEW body \in Bodies, Send(c, body)
          PROVE  /\ \A d \in Clients \ {c} : client'[d] = client[d]
                 /\ client'[c].state = "waiting" /\ client'[c].tries = client[c].tries + 1
                 /\ ~Sent(c) /\ client[c].state # "ok"
                 /\ inbox' = inbox \cup {r}
                 /\ UNCHANGED unchangedByClient
      <3>1. /\ \A d \in Clients \ {c} : client'[d] = client[d]
            /\ client[c].state = "ready"
            /\ client'[c] = [state |-> "waiting", body |-> body, tries |-> 1]
            /\ inbox' = inbox \cup {[by |-> c, try |-> 1]}
            /\ UNCHANGED unchangedByClient
        BY <2>2, SendIs
      <3>2. client[c].tries = 0
        BY <3>1 DEF Types, ClientTypes
      <3>3. client[c].tries + 1 = 1
        BY <3>2
      <3>4. client'[c].tries = 1 /\ client'[c].state = "waiting"
        BY <3>1
      <3> QED
        BY <3>1, <3>3, <3>4 DEF Sent
    <2> QED
      BY <2>1, <2>2
  <1>1. UNCHANGED <<server, copies>>
    BY <1>0 DEF unchangedByClient, history
  <1>2. IsFiniteSet(inbox) /\ \A d \in Clients : Stored(d)
    BY DEF StoredInv
  <1>3. IsFiniteSet(inbox')
    BY <1>0, <1>2, FS_AddElement
  <1>4. \A d : /\ Working(d)' <=> Working(d)
               /\ \A j : Behind(d, j)' <=> Behind(d, j)
    BY <1>1 DEF Working, Behind
  <1>5. ASSUME NEW d \in Clients, d # c PROVE Stored(d)'
    <2>1. Waiting(d)' = Waiting(d)
      BY <1>0, <1>5 DEF Waiting
    <2>2. client'[d] = client[d]
      BY <1>0, <1>5
    <2> QED
      BY <1>1, <1>2, <1>4, <2>1, <2>2, StoredAlone
  <1>6. Stored(c)'
    <2>0. Stored(c) /\ client[c].tries \in Nat /\ \A j \in 1..MaxLength : copies[c][j] \in Nat
      BY <1>2, PostTypes
    <2>1. r \notin Waiting(c)
      <3>1. \A q \in inbox : q.by = c => q.try <= client[c].tries
        BY <2>0 DEF Types, ClientTypes
      <3>2. r.by = c /\ r.try = client[c].tries + 1
        OBVIOUS
      <3> QED
        BY <2>0, <3>1, <3>2 DEF Waiting
    <2>2. Waiting(c)' = Waiting(c) \cup {r}
      BY <1>0 DEF Waiting
    <2>3. /\ Cardinality(Waiting(c)) \in Nat
          /\ Cardinality(Waiting(c)') = Cardinality(Waiting(c)) + 1
      BY <1>2, <2>1, <2>2, WaitingFinite, FS_AddElement
    <2>4. Post(c)'
      BY <1>0, <1>4, <2>0 DEF Stored, Post, Sent, Working
    <2>5. AtMostPerTry(c)'
      <3>1. ASSUME NEW j \in 1..MaxLength
            PROVE  copies'[c][j] + MayStore(c, j)' <= client'[c].tries
        <4>1. copies[c][j] + MayStore(c, j) <= client[c].tries
          BY <2>0 DEF Stored, AtMostPerTry
        <4>2. MayStore(c, j)' = MayStore(c, j) + 1 /\ MayStore(c, j) \in Nat
          BY <1>4, <2>3 DEF MayStore
        <4> QED
          BY <1>0, <1>1, <2>0, <4>1, <4>2
      <3> QED
        BY <3>1 DEF AtMostPerTry
    <2>6. InOrder(c)'
      BY <1>1, <1>4, <2>0 DEF Stored, InOrder, Before
    <2>7. AllThere(c)'
      BY <1>0 DEF AllThere
    <2>8. StopsAtRaise(c)'
      <3>1. CASE Sent(c)
        BY <1>0, <1>1, <1>4, <2>0, <3>1 DEF Stored, StopsAtRaise, Trs
      <3>2. CASE ~Sent(c)
        <4>1. /\ \A k \in 1..MaxLength : copies'[c][k] = 0
              /\ ~Working(c)' /\ \A k : ~Behind(c, k)'
          BY <1>1, <1>4, <2>0, <3>2 DEF Stored, Post, Behind
        <4>2. \A j \in DOMAIN Trs(c)' : j \in Nat \ {0}
          <5>1. client'[c].body \in Bodies \cup {NoBody}
            BY <1>0, SendTypesKept DEF Types, ClientTypes, Records
          <5> QED
            BY <5>1, BodyTrs DEF Trs
        <4>3. \A j \in DOMAIN Trs(c)' : \A k \in j..MaxLength : k \in 1..MaxLength
          BY <4>2, IngestAssumption
        <4> QED
          BY <4>1, <4>3 DEF StopsAtRaise
      <3> QED
        BY <3>1, <3>2
    <2> QED
      BY <2>4, <2>5, <2>6, <2>7, <2>8 DEF Stored
  <1> QED
    BY <1>3, <1>5, <1>6 DEF StoredInv

\* A request leaves the inbox: its handling begins, or it is refused.
LEMMA StoredHandle ==
  ASSUME Types, StoredInv, NEW r \in inbox, Handle(r)
  PROVE  StoredInv'
  <1>0. /\ r \in Requests /\ r.by \in Clients
        /\ server = Idle /\ inbox' = inbox \ {r} /\ copies' = copies
    BY DEF Types, ClientTypes, Handle, Requests, history
  <1>1. IsFiniteSet(inbox) /\ \A d \in Clients : Stored(d)
    BY DEF StoredInv
  <1>2. IsFiniteSet(inbox')
    BY <1>0, <1>1, FS_RemoveElement
  <1>3. \A d : ~Working(d) /\ \A j : ~Behind(d, j)
    BY <1>0 DEF Working, Behind, Idle
  <1>4. \/ /\ client[r.by].body.list /\ client' = client
           /\ server' = [pc |-> "insert", req |-> r, at |-> 1]
        \/ ~client[r.by].body.list /\ Answered(r, "error")
    BY DEF Handle
  <1>5. /\ \A d \in Clients : /\ client'[d].body = client[d].body
                              /\ client'[d].tries = client[d].tries
                              /\ client'[d].state \in {client[d].state, "error"}
                              /\ d # r.by => client'[d].state = client[d].state
                              /\ client[d].state = "ready" => client'[d].state = "ready"
        /\ server' = Idle \/ server' = [pc |-> "insert", req |-> r, at |-> 1]
        /\ server' # Idle => client[r.by].body.list
    <2>1. CASE Answered(r, "error")
      BY <1>0, <2>1, AnsweredIs
    <2> QED
      BY <1>4, <2>1
  <1>6. \A d : /\ Working(d)' => d = r.by /\ server'.at = 1 /\ server'.pc = "insert"
               /\ Working(d)' => server' # Idle
               /\ \A j \in 1..MaxLength : ~Behind(d, j)'
    <2>1. CASE server' = Idle
      BY <2>1 DEF Working, Behind, Idle
    <2>2. CASE server' = [pc |-> "insert", req |-> r, at |-> 1]
      <3>1. server'.pc = "insert" /\ server'.req = r /\ server'.at = 1
        BY <2>2
      <3>2. \A j \in 1..MaxLength : ~(j < 1)
        BY IngestAssumption
      <3>3. server' # Idle
        BY <3>1 DEF Idle
      <3> QED
        BY <3>1, <3>2, <3>3 DEF Working, Behind
    <2> QED
      BY <1>5, <2>1, <2>2
  <1>7. ASSUME NEW d \in Clients, d # r.by PROVE Stored(d)'
    <2>1. Waiting(d)' = Waiting(d)
      BY <1>0, <1>7 DEF Waiting
    <2>2. ~Working(d)'
      BY <1>6, <1>7
    <2> QED
      BY <1>0, <1>1, <1>3, <1>5, <1>7, <2>1, <2>2, StoredAlone
  <1> DEFINE c == r.by
  <1>8. Stored(c)'
    <2>0. /\ Stored(c) /\ client[c].tries \in Nat
          /\ \A j \in 1..MaxLength : copies[c][j] \in Nat
          /\ DOMAIN Trs(c) = 1..Len(Trs(c)) /\ Len(Trs(c)) \in 0..MaxLength
      BY <1>0, <1>1, PostTypes
    <2>1. r \in Waiting(c) /\ Waiting(c)' = Waiting(c) \ {r}
      BY <1>0 DEF Waiting
    <2>2. /\ Cardinality(Waiting(c)) \in Nat \ {0}
          /\ Cardinality(Waiting(c)') = Cardinality(Waiting(c)) - 1
      <3>1. IsFiniteSet(Waiting(c)) /\ Cardinality(Waiting(c)) \in Nat
        BY <1>1, WaitingFinite
      <3>2. Cardinality(Waiting(c) \ {r}) = Cardinality(Waiting(c)) - 1
        BY <2>1, <3>1, FS_RemoveElement
      <3>3. Cardinality(Waiting(c)) # 0
        BY <2>1, <3>1, FS_EmptySet
      <3> QED
        BY <2>1, <3>1, <3>2, <3>3
    <2>3. Sent(c)'
      <3>1. Sent(c)
        BY <2>0, <2>1 DEF Stored, Post
      <3> QED
        BY <1>0, <1>5, <3>1 DEF Sent
    <2>4. Post(c)'
      <3>1. client'[c].state = "ok" => client[c].body.list
        BY <1>0, <1>5, <2>0 DEF Stored, Post
      <3>2. Working(c)' => client[c].body.list
        BY <1>5, <1>6
      <3> QED
        BY <1>0, <1>5, <2>3, <3>1, <3>2 DEF Post
    <2>5. AtMostPerTry(c)'
      <3>1. ASSUME NEW j \in 1..MaxLength
            PROVE  copies'[c][j] + MayStore(c, j)' <= client'[c].tries
        <4>1. copies[c][j] + MayStore(c, j) <= client[c].tries
          BY <2>0 DEF Stored, AtMostPerTry
        <4>2. MayStore(c, j) = Cardinality(Waiting(c))
          BY <1>3, <2>2 DEF MayStore
        <4>3. MayStore(c, j)' \in Nat /\ MayStore(c, j)' <= Cardinality(Waiting(c))
          BY <1>6, <2>2 DEF MayStore
        <4> QED
          BY <1>0, <1>5, <2>0, <2>2, <4>1, <4>2, <4>3
      <3> QED
        BY <3>1 DEF AtMostPerTry
    <2>6. InOrder(c)'
      <3>1. \A j \in 1..MaxLength : Before(c, j)' = Before(c, j)
        BY <1>0, <1>3, <1>6 DEF Before
      <3>2. \A j \in 2..MaxLength : j - 1 \in 1..MaxLength /\ j \in 1..MaxLength
        BY IngestAssumption
      <3> QED
        BY <2>0, <3>1, <3>2 DEF Stored, InOrder
    <2>7. AllThere(c)'
      BY <1>0, <1>5, <2>0 DEF Stored, AllThere, Trs
    <2>8. StopsAtRaise(c)'
      <3>1. Trs(c)' = Trs(c)
        BY <1>0, <1>5 DEF Trs
      <3>2. \A j \in DOMAIN Trs(c) : \A k \in j..MaxLength : k \in 1..MaxLength
        BY <2>0, IngestAssumption
      <3>3. \A j \in DOMAIN Trs(c) : ~(j < 1)
        BY <2>0
      <3> QED
        BY <1>0, <1>6, <2>0, <3>1, <3>2, <3>3 DEF Stored, StopsAtRaise
    <2> QED
      BY <2>4, <2>5, <2>6, <2>7, <2>8 DEF Stored
  <1> QED
    BY <1>2, <1>7, <1>8 DEF StoredInv

\* The end of a request: all of it is stored, or the one at hand raised.
LEMMA StoredAnswer ==
  ASSUME Types, StoredInv, HandlerEnds \/ HandlerRaises
  PROVE  StoredInv'
  <1>0. /\ server.pc = "insert" /\ UNCHANGED <<inbox, copies>>
        /\ \/ Answered(server.req, "ok") /\ server.at > Len(Posted)
           \/ Answered(server.req, "error")
    BY DEF HandlerEnds, HandlerRaises, history
  <1>a. server.req \in Requests /\ server.req.by \in Clients
    BY <1>0, PostedIs
  <1>b. PICK c \in Clients : c = server.req.by
    BY <1>a
  <1>1. server.req \in Requests /\ c \in Clients /\ server.req.by = c
    BY <1>a, <1>b
  <1>2. IsFiniteSet(inbox) /\ \A d \in Clients : Stored(d)
    BY DEF StoredInv
  <1>3. /\ \A d \in Clients : /\ client'[d].body = client[d].body
                              /\ client'[d].tries = client[d].tries
                              /\ client'[d].state \in {client[d].state, "ok", "error"}
                              /\ d # c => client'[d].state = client[d].state
                              /\ client[d].state = "ready" => client'[d].state = "ready"
        /\ server' = Idle
        /\ \/ client'[c].state # "ok"
           \/ client[c].state = "ok"
           \/ server.at > Len(Posted)
    <2>1. CASE Answered(server.req, "ok") /\ server.at > Len(Posted)
      BY <1>1, <2>1, AnsweredIs
    <2>2. CASE Answered(server.req, "error")
      BY <1>1, <2>2, AnsweredIs
    <2> QED
      BY <1>0, <2>1, <2>2
  <1>4. /\ Working(c) /\ \A d : d # c => ~Working(d)
        /\ \A d : ~Working(d)' /\ \A j : ~Behind(d, j)'
    BY <1>0, <1>1, <1>3 DEF Working, Behind, Idle
  <1>5. \A d : Waiting(d)' = Waiting(d)
    BY <1>0 DEF Waiting
  <1>6. ASSUME NEW d \in Clients, d # c PROVE Stored(d)'
    BY <1>0, <1>2, <1>3, <1>4, <1>5, <1>6, StoredAlone
  <1>7. Stored(c)'
    <2>0. /\ Stored(c) /\ client[c].tries \in Nat
          /\ \A j \in 1..MaxLength : copies[c][j] \in Nat
          /\ DOMAIN Trs(c) = 1..Len(Trs(c)) /\ Len(Trs(c)) \in 0..MaxLength
          /\ Posted = Trs(c) /\ server.at \in Nat \ {0}
      BY <1>1, <1>2, <1>4, PostTypes
    <2>1. Cardinality(Waiting(c)) \in Nat
      BY <1>2, WaitingFinite
    <2>2. client[c].state # "ready" /\ client[c].body.list
      BY <1>4, <2>0 DEF Stored, Post, Sent
    <2>3. Post(c)'
      BY <1>1, <1>3, <2>2 DEF Post, Sent
    <2>4. AtMostPerTry(c)'
      <3>1. ASSUME NEW j \in 1..MaxLength
            PROVE  copies'[c][j] + MayStore(c, j)' <= client'[c].tries
        <4>1. copies[c][j] + MayStore(c, j) <= client[c].tries
          BY <2>0 DEF Stored, AtMostPerTry
        <4>2. MayStore(c, j) \in Nat /\ Cardinality(Waiting(c)) <= MayStore(c, j)
          BY <2>1 DEF MayStore
        <4>3. MayStore(c, j)' = Cardinality(Waiting(c))
          BY <1>4, <1>5, <2>1 DEF MayStore
        <4> QED
          BY <1>0, <1>1, <1>3, <2>0, <2>1, <4>1, <4>2, <4>3
      <3> QED
        BY <3>1 DEF AtMostPerTry
    <2>5. InOrder(c)'
      <3>1. ASSUME NEW j \in 1..MaxLength PROVE Before(c, j)' = copies[c][j]
        <4>1. Before(c, j)' = copies[c][j] - 0
          BY <1>0, <1>4 DEF Before
        <4> QED
          BY <2>0, <4>1
      <3>2. ASSUME NEW j \in 2..MaxLength PROVE copies[c][j] <= copies[c][j - 1]
        <4>1. j \in 1..MaxLength /\ j - 1 \in 1..MaxLength
          BY IngestAssumption
        <4>2. Before(c, j) <= Before(c, j - 1)
          BY <2>0 DEF Stored, InOrder
        <4>3. Behind(c, j) => Behind(c, j - 1)
          BY <1>1, BehindFirst
        <4> QED
          BY <2>0, <4>1, <4>2, <4>3 DEF Before
      <3>3. \A j \in 2..MaxLength : j \in 1..MaxLength /\ j - 1 \in 1..MaxLength
        BY IngestAssumption
      <3>4. \A j \in 1..MaxLength : Before(c, j)' >= 0
        BY <2>0, <3>1
      <3>5. \A j \in 2..MaxLength : Before(c, j)' <= Before(c, j - 1)'
        BY <3>1, <3>2, <3>3
      <3> QED
        BY <3>4, <3>5 DEF InOrder
    <2>6. AllThere(c)'
      <3> SUFFICES ASSUME client'[c].state = "ok", NEW j \in DOMAIN Trs(c)
                   PROVE  copies[c][j] >= 1
        BY <1>0, <1>1, <1>3 DEF AllThere, Trs
      <3>1. CASE client[c].state = "ok"
        BY <2>0, <3>1 DEF Stored, AllThere
      <3>2. CASE server.at > Len(Trs(c))
        <4>1. j \in 1..MaxLength /\ j < server.at
          BY <2>0, <3>2, IngestAssumption
        <4>2. Behind(c, j)
          BY <1>4, <4>1 DEF Behind
        <4>3. Before(c, j) >= 0
          BY <2>0, <4>1 DEF Stored, InOrder
        <4> QED
          BY <2>0, <4>1, <4>2, <4>3 DEF Before
      <3> QED
        BY <1>3, <2>0, <3>1, <3>2
    <2>7. StopsAtRaise(c)'
      <3>1. Trs(c)' = Trs(c)
        BY <1>1, <1>3 DEF Trs
      <3> QED
        BY <1>0, <1>4, <2>0, <3>1 DEF Stored, StopsAtRaise
    <2> QED
      BY <2>3, <2>4, <2>5, <2>6, <2>7 DEF Stored
  <1> QED
    BY <1>0, <1>1, <1>2, <1>6, <1>7 DEF StoredInv

\* A transition is stored.
LEMMA StoredInsert ==
  ASSUME Types, StoredInv, HandlerInsert
  PROVE  StoredInv'
  <1>0. /\ server.pc = "insert" /\ server.at <= Len(Posted) /\ ~Raises(Posted[server.at])
        /\ UNCHANGED <<inbox, client>>
        /\ \A d \in Clients : \A j \in 1..MaxLength :
             copies'[d][j] = IF d = server.req.by /\ j = server.at
                             THEN copies[d][j] + 1 ELSE copies[d][j]
        /\ server'.pc = "count" /\ server'.req = server.req /\ server'.at = server.at
        /\ copies' \in [Clients -> [1..MaxLength -> Nat]]
    BY CopiesIs DEF HandlerInsert, clientVars
  <1>a. server.at \in 1..MaxLength /\ server.req.by \in Clients
    BY <1>0, PostedIs
  <1>b. PICK c \in Clients : c = server.req.by
    BY <1>a
  <1>c. PICK a \in 1..MaxLength : a = server.at
    BY <1>a
  <1>d. MaxLength \in Nat /\ a \in Nat \ {0}
    BY IngestAssumption
  <1>1. IsFiniteSet(inbox) /\ \A d \in Clients : Stored(d)
    BY DEF StoredInv
  <1>2. /\ Working(c) /\ Working(c)'
        /\ \A d : d # c => ~Working(d) /\ ~Working(d)'
        /\ \A d : Waiting(d)' = Waiting(d)
    BY <1>0, <1>b DEF Working, Waiting
  <1>3. /\ \A j \in Nat : Behind(c, j) <=> j < a
        /\ \A j \in Nat : Behind(c, j)' <=> j < a \/ j = a
    BY <1>0, <1>2, <1>c DEF Behind
  <1>4. ASSUME NEW d \in Clients, d # c PROVE Stored(d)'
    <2>1. copies'[d] = copies[d]
      <3>1. copies[d] \in [1..MaxLength -> Nat] /\ copies'[d] \in [1..MaxLength -> Nat]
        BY <1>0 DEF Types, CountTypes
      <3>2. \A j \in 1..MaxLength : copies'[d][j] = copies[d][j]
        BY <1>0, <1>4, <1>b
      <3>3. /\ copies[d] = [j \in 1..MaxLength |-> copies[d][j]]
            /\ copies'[d] = [j \in 1..MaxLength |-> copies'[d][j]]
        BY <3>1
      <3> QED
        BY <3>2, <3>3, Zenon
    <2> QED
      BY <1>0, <1>1, <1>2, <1>4, <2>1, StoredAlone
  <1>5. Stored(c)'
    <2>0. /\ Stored(c) /\ client[c].tries \in Nat
          /\ \A j \in 1..MaxLength : copies[c][j] \in Nat
          /\ DOMAIN Trs(c) = 1..Len(Trs(c)) /\ Len(Trs(c)) \in 0..MaxLength
          /\ Posted = Trs(c)
      BY <1>1, <1>2, PostTypes
    <2>1. \A j \in 1..MaxLength :
            copies'[c][j] = IF j = a THEN copies[c][j] + 1 ELSE copies[c][j]
      BY <1>0, <1>b, <1>c
    <2>2. Trs(c)' = Trs(c) /\ client' = client /\ Sent(c)
      BY <1>0, <1>2, <2>0 DEF Trs, Stored, Post
    <2>3. Cardinality(Waiting(c)) \in Nat
      BY <1>1, WaitingFinite
    <2>4. Post(c)'
      BY <1>2, <2>0, <2>2 DEF Stored, Post, Sent
    <2>5. AtMostPerTry(c)'
      <3>1. ASSUME NEW j \in 1..MaxLength
            PROVE  copies'[c][j] + MayStore(c, j)' <= client'[c].tries
        <4>0. j \in Nat
          BY <1>d
        <4>1. copies[c][j] + MayStore(c, j) <= client[c].tries
          BY <2>0 DEF Stored, AtMostPerTry
        <4>2. CASE j = a
          <5>1. ~Behind(c, j) /\ Behind(c, j)'
            BY <1>3, <4>0, <4>2, <1>d
          <5>2. MayStore(c, j) = Cardinality(Waiting(c)) + 1
            BY <1>2, <5>1 DEF MayStore
          <5>3. MayStore(c, j)' = Cardinality(Waiting(c)) + 0
            BY <1>2, <5>1 DEF MayStore
          <5> QED
            BY <2>0, <2>1, <2>2, <2>3, <4>1, <4>2, <5>2, <5>3
        <4>3. CASE j # a
          <5>1. Behind(c, j)' <=> Behind(c, j)
            BY <1>3, <4>0, <4>3
          <5>2. MayStore(c, j)' = MayStore(c, j)
            BY <1>2, <5>1 DEF MayStore
          <5> QED
            BY <2>1, <2>2, <4>1, <4>3, <5>2
        <4> QED
          BY <4>2, <4>3
      <3> QED
        BY <3>1 DEF AtMostPerTry
    <2>6. InOrder(c)'
      <3>1. ASSUME NEW j \in 1..MaxLength PROVE Before(c, j)' = Before(c, j)
        <4>0. j \in Nat
          BY <1>d
        <4>1. CASE j = a
          <5>1. ~Behind(c, j) /\ Behind(c, j)'
            BY <1>3, <4>0, <4>1, <1>d
          <5>2. Before(c, j)' = copies'[c][j] - 1 /\ Before(c, j) = copies[c][j] - 0
            BY <5>1 DEF Before
          <5>3. copies'[c][j] = copies[c][j] + 1 /\ copies[c][j] \in Nat
            BY <2>0, <2>1, <4>1
          <5> QED
            BY <5>2, <5>3
        <4>2. CASE j # a
          <5>1. Behind(c, j)' <=> Behind(c, j)
            BY <1>3, <4>0, <4>2
          <5> QED
            BY <2>1, <4>2, <5>1 DEF Before
        <4> QED
          BY <4>1, <4>2
      <3>2. \A j \in 2..MaxLength : j \in 1..MaxLength /\ j - 1 \in 1..MaxLength
        BY <1>d
      <3> QED
        BY <2>0, <3>1, <3>2 DEF Stored, InOrder
    <2>7. AllThere(c)'
      <3>1. ASSUME NEW j \in DOMAIN Trs(c), client[c].state = "ok" PROVE copies'[c][j] >= 1
        <4>1. j \in 1..MaxLength
          BY <1>d, <2>0
        <4>2. copies[c][j] >= 1
          BY <2>0, <3>1 DEF Stored, AllThere
        <4> QED
          BY <2>0, <2>1, <4>1, <4>2
      <3> QED
        BY <2>2, <3>1 DEF AllThere
    <2>8. StopsAtRaise(c)'
      <3>1. /\ \A j \in DOMAIN Trs(c) : ~Trs(c)[j].whole =>
                 \A k \in j..MaxLength : copies[c][k] = 0 /\ ~Behind(c, k)
            /\ \A j \in DOMAIN Trs(c) : j < a => Trs(c)[j].whole
        BY <1>2, <1>c, <2>0 DEF Stored, StopsAtRaise
      <3>2. a \in DOMAIN Trs(c) /\ Trs(c)[a].whole
        <4>1. a \in DOMAIN Trs(c)
          BY <1>0, <1>c, <1>d, <2>0
        <4> QED
          BY <1>0, <1>c, <2>0, <4>1 DEF Raises
      <3>3. ASSUME NEW j \in DOMAIN Trs(c), ~Trs(c)[j].whole, NEW k \in j..MaxLength
            PROVE  copies'[c][k] = 0 /\ ~Behind(c, k)'
        <4>0. j \in Nat \ {0} /\ k \in 1..MaxLength /\ k \in Nat
          BY <1>d, <2>0
        <4>1. copies[c][k] = 0 /\ j # a /\ ~(j < a)
          BY <3>1, <3>2, <3>3
        <4>2. a < k
          BY <1>d, <4>0, <4>1
        <4> QED
          BY <1>3, <1>d, <2>1, <4>0, <4>1, <4>2
      <3>4. server'.at = a /\ a <= Len(Trs(c))
        BY <1>0, <1>c, <2>0
      <3> QED
        BY <2>2, <3>1, <3>3, <3>4 DEF StopsAtRaise
    <2> QED
      BY <2>4, <2>5, <2>6, <2>7, <2>8 DEF Stored
  <1> QED
    BY <1>0, <1>1, <1>4, <1>5 DEF StoredInv

\* It is counted, and the next one is at hand.
LEMMA StoredCount ==
  ASSUME Types, StoredInv, HandlerCount
  PROVE  StoredInv'
  <1>0. /\ server.pc = "count" /\ UNCHANGED <<inbox, client, copies>>
        /\ server'.pc = "insert" /\ server'.req = server.req /\ server'.at = server.at + 1
    BY CountedIs DEF HandlerCount, clientVars, history
  <1>a. server.at \in Nat \ {0} /\ server.req.by \in Clients
    BY <1>0, PostedIs
  <1>b. PICK c \in Clients : c = server.req.by
    BY <1>a
  <1>c. PICK a \in Nat \ {0} : a = server.at
    BY <1>a
  <1>d. MaxLength \in Nat
    BY IngestAssumption
  <1>1. IsFiniteSet(inbox) /\ \A d \in Clients : Stored(d)
    BY DEF StoredInv
  <1>2. /\ Working(c) /\ Working(c)'
        /\ \A d : d # c => ~Working(d) /\ ~Working(d)'
        /\ \A d : Waiting(d)' = Waiting(d)
    BY <1>0, <1>b DEF Working, Waiting
  <1>3. /\ \A j \in Nat : Behind(c, j) <=> j < a \/ j = a
        /\ \A j \in Nat : Behind(c, j)' <=> Behind(c, j)
    BY <1>0, <1>2, <1>c DEF Behind
  <1>4. ASSUME NEW d \in Clients, d # c PROVE Stored(d)'
    BY <1>0, <1>1, <1>2, <1>4, StoredAlone
  <1>5. Stored(c)'
    <2>0. /\ Stored(c) /\ DOMAIN Trs(c) = 1..Len(Trs(c)) /\ Len(Trs(c)) \in 0..MaxLength
          /\ \A j \in 1..MaxLength : copies[c][j] \in Nat
      BY <1>1, PostTypes
    <2>1. Trs(c)' = Trs(c)
      BY <1>0 DEF Trs
    <2>2. \A j \in 1..MaxLength : MayStore(c, j)' = MayStore(c, j) /\ Before(c, j)' = Before(c, j)
      BY <1>0, <1>2, <1>3, <1>d DEF MayStore, Before
    <2>3. Post(c)'
      BY <1>0, <1>2, <2>0 DEF Stored, Post, Sent
    <2>4. AtMostPerTry(c)'
      BY <1>0, <2>0, <2>2 DEF Stored, AtMostPerTry
    <2>5. InOrder(c)'
      <3>1. \A j \in 2..MaxLength : j \in 1..MaxLength /\ j - 1 \in 1..MaxLength
        BY <1>d
      <3> QED
        BY <2>0, <2>2, <3>1 DEF Stored, InOrder
    <2>6. AllThere(c)'
      BY <1>0, <2>0, <2>1 DEF Stored, AllThere
    <2>7. StopsAtRaise(c)'
      <3>1. /\ \A j \in DOMAIN Trs(c) : ~Trs(c)[j].whole =>
                 \A k \in j..MaxLength : copies[c][k] = 0 /\ ~Behind(c, k)
            /\ \A j \in DOMAIN Trs(c) : j < a => Trs(c)[j].whole
            /\ a <= Len(Trs(c))
        BY <1>0, <1>2, <1>c, <2>0 DEF Stored, StopsAtRaise
      <3>2. \A j \in DOMAIN Trs(c) : \A k \in j..MaxLength : k \in Nat
        BY <1>d, <2>0
      <3>3. Trs(c)[a].whole
        <4>1. a \in DOMAIN Trs(c) /\ a \in a..MaxLength /\ Behind(c, a)
          BY <1>3, <1>d, <2>0, <3>1
        <4> QED
          BY <3>1, <4>1
      <3>4. \A j \in DOMAIN Trs(c) : j < a + 1 => Trs(c)[j].whole
        <4>1. \A j \in DOMAIN Trs(c) : j < a + 1 => j < a \/ j = a
          BY <1>d, <2>0
        <4> QED
          BY <3>1, <3>3, <4>1
      <3>5. \A j \in DOMAIN Trs(c) : ~Trs(c)[j].whole =>
              \A k \in j..MaxLength : copies'[c][k] = 0 /\ ~Behind(c, k)'
        BY <1>0, <1>3, <3>1, <3>2
      <3> QED
        BY <1>0, <1>c, <2>1, <3>4, <3>5 DEF StopsAtRaise
    <2> QED
      BY <2>3, <2>4, <2>5, <2>6, <2>7 DEF Stored
  <1> QED
    BY <1>0, <1>1, <1>4, <1>5 DEF StoredInv

\* Every step keeps what is known of every client and its copies.
LEMMA StoredKept == Types /\ StoredInv /\ [Next]_vars => StoredInv'
  <1> SUFFICES ASSUME Types, StoredInv, [Next]_vars PROVE StoredInv'
    OBVIOUS
  <1>1. CASE \E c \in Clients : SendAgain(c) \/ \E body \in Bodies : Send(c, body)
    BY <1>1, StoredSend
  <1>2. CASE \E c \in Clients : HandlePost(c)
    BY <1>2, StoredHandle DEF HandlePost
  <1>3. CASE HandlerRaises \/ HandlerEnds
    BY <1>3, StoredAnswer
  <1>4. CASE HandlerInsert
    BY <1>4, StoredInsert
  <1>5. CASE HandlerCount
    BY <1>5, StoredCount
  <1>6. CASE \/ \E t \in Transitions : Add(t)
             \/ CountAdd \/ \E n \in BulkSizes : BulkHead(n)
             \/ BulkTail \/ BulkDone \/ StartServer
             \/ StatusEnv \/ StatusSizes \/ StatusEnds \/ UNCHANGED vars
    <2>1. UNCHANGED <<client, inbox, copies>>
      BY <1>6 DEF Add, CountAdd, BulkHead, BulkTail, BulkDone, StartServer, StatusEnv,
         StatusSizes, StatusEnds, unchangedByStatus, clientVars, history, vars
    <2>2. \/ server' = server
          \/ /\ server.pc \notin {"insert", "count"}
             /\ server'.pc \notin {"insert", "count"}
      <3>1. CASE StartServer \/ StatusEnv \/ StatusSizes \/ StatusEnds
        BY <3>1 DEF StartServer, StatusEnv, StatusSizes, StatusEnds, Idle
      <3>2. CASE ~(StartServer \/ StatusEnv \/ StatusSizes \/ StatusEnds)
        BY <1>6, <3>2 DEF Add, CountAdd, BulkHead, BulkTail, BulkDone, vars
      <3> QED
        BY <3>1, <3>2
    <2>3. \A d : (Working(d)' <=> Working(d)) /\ (Working(d) => server' = server)
      BY <2>2 DEF Working
    <2>4. \A d : Waiting(d)' = Waiting(d)
      BY <2>1 DEF Waiting
    <2>5. ASSUME NEW d \in Clients PROVE Stored(d)'
      BY <2>1, <2>3, <2>4, StoredAlone DEF StoredInv
    <2> QED
      BY <2>1, <2>5 DEF StoredInv
  <1> QED
    BY <1>1, <1>2, <1>3, <1>4, <1>5, <1>6, AddRaisesIs DEF Next, ServerStep

(***************************************************************************)
(* What a client may conclude from its answer, for every batch, however    *)
(* often it was posted and whatever else the server was doing.             *)
(***************************************************************************)
THEOREM StoredInOrderCorrect == Spec => []StoredInOrder
  <1>1. Types /\ StoredInv => StoredInOrder
    <2> SUFFICES ASSUME Types, StoredInv, NEW c \in Clients
                 PROVE  LET trs == client[c].body.trs IN
                        /\ client[c].state = "ok" =>
                             /\ client[c].body.list
                             /\ \A j \in DOMAIN trs : copies[c][j] >= 1
                        /\ \A j \in 1..MaxLength : copies[c][j] <= client[c].tries
                        /\ \A j \in 2..MaxLength : copies[c][j] <= copies[c][j - 1]
                        /\ \A j \in DOMAIN trs : ~trs[j].whole =>
                             \A k \in j..MaxLength : copies[c][k] = 0
      BY DEF StoredInOrder
    <2>0. /\ Stored(c) /\ IsFiniteSet(inbox) /\ client[c].tries \in Nat
          /\ \A j \in 1..MaxLength : copies[c][j] \in Nat
          /\ MaxLength \in Nat
      BY PostTypes, IngestAssumption DEF StoredInv
    <2>1. ASSUME NEW j \in 1..MaxLength PROVE copies[c][j] <= client[c].tries
      <3>1. copies[c][j] + MayStore(c, j) <= client[c].tries
        BY <2>0 DEF Stored, AtMostPerTry
      <3>2. Cardinality(Waiting(c)) \in Nat
        BY <2>0, WaitingFinite
      <3>3. MayStore(c, j) \in Nat
        BY <3>2 DEF MayStore
      <3> QED
        BY <2>0, <3>1, <3>3
    <2>2. ASSUME NEW j \in 2..MaxLength PROVE copies[c][j] <= copies[c][j - 1]
      <3>1. j \in 1..MaxLength /\ j - 1 \in 1..MaxLength
        BY <2>0
      <3>2. Before(c, j) <= Before(c, j - 1)
        BY <2>0 DEF Stored, InOrder
      <3>3. Behind(c, j) => Behind(c, j - 1)
        BY BehindFirst
      <3> QED
        BY <2>0, <3>1, <3>2, <3>3 DEF Before
    <2>3. client[c].state = "ok" => /\ client[c].body.list
                                    /\ \A j \in DOMAIN Trs(c) : copies[c][j] >= 1
      BY <2>0 DEF Stored, Post, AllThere
    <2>4. \A j \in DOMAIN Trs(c) : ~Trs(c)[j].whole =>
            \A k \in j..MaxLength : copies[c][k] = 0
      BY <2>0 DEF Stored, StopsAtRaise
    <2> QED
      BY <2>1, <2>2, <2>3, <2>4 DEF Trs
  <1>2. Spec => []StoredInv
    BY InitStored, StoredKept, TypesInvariant, PTL DEF Spec
  <1> QED
    BY <1>1, <1>2, TypesInvariant, PTL

-----------------------------------------------------------------------------
(***************************************************************************)
(* The online ring as a log, slot arithmetic apart: what Live and its tail *)
(* are for any rows on, index i and size n of a ring of OnlineCapacity.    *)
(***************************************************************************)
Wrap(p) == IF p < OnlineCapacity THEN p ELSE p - OnlineCapacity

LiveOf(on, i, n) == [k \in 1..n |-> on[Wrap(i + OnlineCapacity - n + k - 1)]]

LogOf(on, i, n) == IF n = OnlineCapacity THEN Tail(LiveOf(on, i, n)) ELSE LiveOf(on, i, n)

LogLen(n) == IF n = OnlineCapacity THEN OnlineCapacity - 1 ELSE n

LogAt(on, i, n, k) == IF n = OnlineCapacity THEN on[Wrap(i + k)] ELSE on[k - 1]

\* The log of a ring, entry by entry.
LEMMA LogIs ==
  ASSUME NEW on \in [0..(OnlineCapacity - 1) -> Rows], NEW i \in 0..(OnlineCapacity - 1),
         NEW n \in 0..OnlineCapacity, n < OnlineCapacity => i = n
  PROVE  /\ LogOf(on, i, n) \in Seq(Rows) /\ Len(LogOf(on, i, n)) = LogLen(n)
         /\ \A k \in 1..LogLen(n) : LogOf(on, i, n)[k] = LogAt(on, i, n, k)
  <1> DEFINE s == LiveOf(on, i, n)
  <1>0. OnlineCapacity \in Nat \ {0} /\ n \in Nat
    BY IngestAssumption
  <1>1. \A k \in 1..n : Wrap(i + OnlineCapacity - n + k - 1) \in 0..(OnlineCapacity - 1)
    BY <1>0 DEF Wrap
  <1>2. s \in [1..n -> Rows] /\ \A k \in 1..n : s[k] = on[Wrap(i + OnlineCapacity - n + k - 1)]
    BY <1>1 DEF LiveOf
  <1> HIDE DEF s
  <1>3. s \in Seq(Rows) /\ Len(s) = n
    BY <1>0, <1>2, IsASeq, LenProperties
  <1>4. CASE n = OnlineCapacity
    <2>1. s # <<>> /\ LogOf(on, i, n) = Tail(s) /\ LogLen(n) = n - 1
      BY <1>0, <1>3, <1>4 DEF LogOf, LogLen, s
    <2>2. /\ Tail(s) \in Seq(Rows) /\ Len(Tail(s)) = n - 1
          /\ \A k \in 1..(n - 1) : Tail(s)[k] = s[k + 1]
      BY <1>3, <2>1, HeadTailProperties
    <2>3. ASSUME NEW k \in 1..(n - 1) PROVE s[k + 1] = on[Wrap(i + k)]
      <3>1. k + 1 \in 1..n /\ i + OnlineCapacity - n + (k + 1) - 1 = i + k
        BY <1>0, <1>4
      <3> QED
        BY <1>2, <3>1
    <2> QED
      BY <1>4, <2>1, <2>2, <2>3 DEF LogAt
  <1>5. CASE n < OnlineCapacity
    <2>1. LogOf(on, i, n) = s /\ LogLen(n) = n
      BY <1>0, <1>5 DEF LogOf, LogLen, s
    <2>2. ASSUME NEW k \in 1..n PROVE s[k] = on[k - 1]
      <3>1. Wrap(i + OnlineCapacity - n + k - 1) = k - 1
        BY <1>0, <1>5 DEF Wrap
      <3> QED
        BY <1>2, <3>1
    <2>3. n # OnlineCapacity
      BY <1>0, <1>5
    <2> QED
      BY <1>3, <2>1, <2>2, <2>3 DEF LogAt
  <1> QED
    BY <1>0, <1>4, <1>5

\* A log that loses at most its oldest row and gains one.
LEMMA SlideIs ==
  ASSUME NEW S, NEW L \in Seq(S), NEW M \in Seq(S), NEW n \in 0..1, n <= Len(L),
         NEW r \in S, Len(M) = Len(L) - n + 1,
         \A k \in 1..Len(M) : M[k] = IF k <= Len(L) - n THEN L[k + n] ELSE r
  PROVE  M = SubSeq(L, n + 1, Len(L)) \o [j \in 1..1 |-> r]
  <1> DEFINE T == SubSeq(L, n + 1, Len(L))
             R == [j \in 1..1 |-> r]
  <1>0. Len(L) \in Nat /\ Len(M) \in Nat /\ n + 1 \in Int /\ Len(L) \in Int
    BY LenProperties
  <1>1. \A k \in (n + 1)..Len(L) : L[k] \in S
    BY <1>0, ElementOfSeq
  <1>2. /\ T \in Seq(S) /\ Len(T) = Len(L) - n
        /\ \A k \in 1..(Len(L) - n) : T[k] = L[k + n]
    <2>1. /\ T \in Seq(S) /\ Len(T) = IF n + 1 <= Len(L) THEN Len(L) - (n + 1) + 1 ELSE 0
          /\ \A k \in 1..(Len(L) - (n + 1) + 1) : T[k] = L[n + 1 + k - 1]
      BY <1>0, <1>1, SubSeqProperties
    <2>2. \A k \in 1..(Len(L) - n) : n + 1 + k - 1 = k + n
      BY <1>0
    <2>3. Len(L) - (n + 1) + 1 = Len(L) - n
      BY <1>0
    <2>4. Len(T) = Len(L) - n
      BY <1>0, <2>1
    <2> QED
      BY <2>1, <2>2, <2>3, <2>4
  <1>3. R \in Seq(S) /\ Len(R) = 1 /\ R[1] = r
    <2>1. R \in [1..1 -> S] /\ R[1] = r
      OBVIOUS
    <2>2. R = <<r>>
      OBVIOUS
    <2>3. <<r>> \in Seq(S) /\ Len(<<r>>) = 1 /\ <<r>>[1] = r
      OBVIOUS
    <2> HIDE DEF R
    <2> QED
      BY <2>2, <2>3
  <1> HIDE DEF T, R
  <1>4. /\ T \o R \in Seq(S) /\ Len(T \o R) = Len(T) + Len(R)
        /\ \A k \in 1..(Len(T) + Len(R)) :
             (T \o R)[k] = IF k <= Len(T) THEN T[k] ELSE R[k - Len(T)]
    BY <1>2, <1>3, ConcatProperties
  <1>5. Len(T \o R) = Len(M)
    BY <1>0, <1>2, <1>3, <1>4
  <1>6. ASSUME NEW k \in 1..Len(M) PROVE M[k] = (T \o R)[k]
    <2>1. CASE k <= Len(L) - n
      <3>1. k \in 1..(Len(T) + Len(R)) /\ k <= Len(T) /\ k \in 1..(Len(L) - n)
        BY <1>0, <1>2, <1>3, <2>1
      <3> QED
        BY <1>2, <1>4, <2>1, <3>1
    <2>2. CASE ~(k <= Len(L) - n)
      <3>1. k \in 1..(Len(T) + Len(R)) /\ ~(k <= Len(T)) /\ k - Len(T) = 1
        BY <1>0, <1>2, <1>3, <2>2
      <3> QED
        BY <1>3, <1>4, <2>2, <3>1
    <2> QED
      BY <2>1, <2>2
  <1>7. M = T \o R
    BY <1>4, <1>5, <1>6, SeqEqual
  <1> QED
    BY <1>7 DEF T, R

\* At most the oldest row gives way to r.
Slides(L, M, r) ==
  \/ M = L
  \/ \E m \in 0..1 : m <= Len(L) /\ M = SubSeq(L, m + 1, Len(L)) \o [j \in 1..1 |-> r]

\* An insert slides the log, which in a ring of one slot is always empty.
LEMMA InsertSlides ==
  ASSUME NEW on \in [0..(OnlineCapacity - 1) -> Rows], NEW i \in 0..(OnlineCapacity - 1),
         NEW n \in 0..OnlineCapacity, n < OnlineCapacity => i = n, NEW r \in Rows,
         NEW on2 \in [0..(OnlineCapacity - 1) -> Rows], NEW i2, NEW n2,
         \A k \in 0..(OnlineCapacity - 1) : on2[k] = IF k = i THEN r ELSE on[k],
         i2 = Next1(i, OnlineCapacity),
         n2 = IF n < OnlineCapacity THEN n + 1 ELSE n
  PROVE  Slides(LogOf(on, i, n), LogOf(on2, i2, n2), r)
  <1> DEFINE L == LogOf(on, i, n)
             M == LogOf(on2, i2, n2)
             C == OnlineCapacity
  <1>0. C \in Nat \ {0}
    BY IngestAssumption
  <1>1. i2 \in 0..(C - 1) /\ n2 \in 0..C /\ (n2 < C => i2 = n2)
    BY <1>0 DEF Next1
  <1>2. /\ L \in Seq(Rows) /\ Len(L) = LogLen(n)
        /\ \A k \in 1..LogLen(n) : L[k] = LogAt(on, i, n, k)
    BY LogIs
  <1>3. /\ M \in Seq(Rows) /\ Len(M) = LogLen(n2)
        /\ \A k \in 1..LogLen(n2) : M[k] = LogAt(on2, i2, n2, k)
    BY <1>1, LogIs
  <1> HIDE DEF L, M, Slides
  <1>4. CASE C = 1
    <2>1. LogLen(n) = 0 /\ LogLen(n2) = 0
      BY <1>0, <1>4 DEF LogLen
    <2>2. M = L
      BY <1>2, <1>3, <2>1, EmptySeq
    <2> QED
      BY <2>2 DEF L, M, Slides
  <1>5. CASE C # 1 /\ n + 1 < C
    <2>1. LogLen(n) = n /\ LogLen(n2) = n + 1 /\ n2 = n + 1 /\ n # C /\ n2 # C /\ i = n
      BY <1>0, <1>5 DEF LogLen
    <2>2. ASSUME NEW k \in 1..Len(M) PROVE M[k] = IF k <= Len(L) - 0 THEN L[k + 0] ELSE r
      <3>1. k \in 1..(n + 1) /\ k - 1 \in 0..(C - 1) /\ (k - 1 = i <=> ~(k <= n)) /\ k + 0 = k
        BY <1>0, <1>3, <1>5, <2>1
      <3>2. M[k] = on2[k - 1]
        BY <1>3, <2>1, <3>1 DEF LogAt
      <3>3. k <= n => L[k] = on[k - 1]
        <4>1. k <= n => k \in 1..n
          BY <3>1
        <4> QED
          BY <1>2, <2>1, <4>1 DEF LogAt
      <3>4. Len(L) - 0 = n
        BY <1>2, <2>1
      <3> QED
        BY <3>1, <3>2, <3>3, <3>4
    <2>3. Len(M) = Len(L) - 0 + 1 /\ 0 <= Len(L)
      BY <1>2, <1>3, <2>1
    <2>4. PICK m \in 0..1 : m = 0
      OBVIOUS
    <2>5. /\ m <= Len(L) /\ Len(M) = Len(L) - m + 1
          /\ \A k \in 1..Len(M) : M[k] = IF k <= Len(L) - m THEN L[k + m] ELSE r
      BY <2>2, <2>3, <2>4
    <2>6. M = SubSeq(L, m + 1, Len(L)) \o [j \in 1..1 |-> r]
      <3> HIDE <2>4
      <3> QED
        BY <1>2, <1>3, <2>5, SlideIs
    <2> QED
      BY <2>5, <2>6 DEF L, M, Slides
  <1>6. CASE C # 1 /\ ~(n + 1 < C)
    <2>1. LogLen(n) = C - 1 /\ LogLen(n2) = C - 1 /\ n2 = C
      BY <1>0, <1>6 DEF LogLen
    <2>2. ASSUME NEW k \in 1..(C - 1) PROVE M[k] = on2[Wrap(i2 + k)]
      BY <1>3, <2>1, <2>2 DEF LogAt
    <2>3. ASSUME NEW k \in 1..(C - 2) PROVE L[k + 1] = on[Wrap(i2 + k)]
      <3>0. k + 1 \in 1..LogLen(n)
        BY <1>0, <2>1
      <3>1. CASE n = C
        <4>1. Wrap(i + (k + 1)) = Wrap(i2 + k)
          BY <1>0 DEF Wrap, Next1
        <4> QED
          BY <1>2, <3>0, <3>1, <4>1 DEF LogAt
      <3>2. CASE n # C
        <4>1. Wrap(i2 + k) = k /\ (k + 1) - 1 = k
          BY <1>0, <1>6, <3>2 DEF Wrap, Next1
        <4> QED
          BY <1>2, <3>0, <3>2, <4>1 DEF LogAt
      <3> QED
        BY <3>1, <3>2
    <2>4. ASSUME NEW k \in 1..(C - 1)
          PROVE  Wrap(i2 + k) \in 0..(C - 1) /\ (Wrap(i2 + k) = i <=> k = C - 1)
      BY <1>0, <1>6 DEF Wrap, Next1
    <2>5. ASSUME NEW k \in 1..Len(M) PROVE M[k] = IF k <= Len(L) - 1 THEN L[k + 1] ELSE r
      <3>0. k \in 1..(C - 1) /\ Len(L) - 1 = C - 2
        BY <1>0, <1>2, <1>3, <2>1
      <3>1. CASE k <= C - 2
        <4>1. k \in 1..(C - 2) /\ k # C - 1
          BY <1>0, <3>0, <3>1
        <4> QED
          BY <2>2, <2>3, <2>4, <3>0, <3>1, <4>1
      <3>2. CASE ~(k <= C - 2)
        <4>1. k = C - 1
          BY <1>0, <3>0, <3>2
        <4> QED
          BY <2>2, <2>4, <3>0, <3>2, <4>1
      <3> QED
        BY <3>1, <3>2
    <2>6. Len(M) = Len(L) - 1 + 1 /\ 1 <= Len(L)
      BY <1>0, <1>2, <1>3, <1>6, <2>1
    <2>7. PICK m \in 0..1 : m = 1
      OBVIOUS
    <2>8. /\ m <= Len(L) /\ Len(M) = Len(L) - m + 1
          /\ \A k \in 1..Len(M) : M[k] = IF k <= Len(L) - m THEN L[k + m] ELSE r
      BY <2>5, <2>6, <2>7
    <2>9. M = SubSeq(L, m + 1, Len(L)) \o [j \in 1..1 |-> r]
      <3> HIDE <2>7
      <3> QED
        BY <1>2, <1>3, <2>8, SlideIs
    <2> QED
      BY <2>8, <2>9 DEF L, M, Slides
  <1> QED
    BY <1>4, <1>5, <1>6

\* The row an insert that raised has left half written is outside the log.
LEMMA TornSlides ==
  ASSUME NEW on \in [0..(OnlineCapacity - 1) -> Rows], NEW i \in 0..(OnlineCapacity - 1),
         NEW n \in 0..OnlineCapacity, n < OnlineCapacity => i = n,
         NEW on2 \in [0..(OnlineCapacity - 1) -> Rows],
         \A k \in 0..(OnlineCapacity - 1) : k # i => on2[k] = on[k]
  PROVE  LogOf(on2, i, n) = LogOf(on, i, n)
  <1> DEFINE L == LogOf(on, i, n)
             M == LogOf(on2, i, n)
  <1>0. OnlineCapacity \in Nat \ {0}
    BY IngestAssumption
  <1>1. /\ L \in Seq(Rows) /\ Len(L) = LogLen(n)
        /\ \A k \in 1..LogLen(n) : L[k] = LogAt(on, i, n, k)
    BY LogIs
  <1>2. /\ M \in Seq(Rows) /\ Len(M) = LogLen(n)
        /\ \A k \in 1..LogLen(n) : M[k] = LogAt(on2, i, n, k)
    BY LogIs
  <1> HIDE DEF L, M
  <1>3. ASSUME NEW k \in 1..LogLen(n) PROVE LogAt(on2, i, n, k) = LogAt(on, i, n, k)
    <2>1. CASE n = OnlineCapacity
      <3>1. Wrap(i + k) \in 0..(OnlineCapacity - 1) /\ Wrap(i + k) # i
        BY <1>0, <2>1 DEF LogLen, Wrap
      <3> QED
        BY <2>1, <3>1 DEF LogAt
    <2>2. CASE n # OnlineCapacity
      <3>1. k - 1 \in 0..(OnlineCapacity - 1) /\ k - 1 # i
        BY <1>0, <2>2 DEF LogLen
      <3> QED
        BY <2>2, <3>1 DEF LogAt
    <2> QED
      BY <2>1, <2>2
  <1>4. M = L
    BY <1>1, <1>2, <1>3, SeqEqual
  <1> QED
    BY <1>4 DEF L, M

\* A step slides the log by one whole row at most, whatever thread takes it.
LEMMA LogKept == Types /\ Types' /\ OnlineWhole /\ [Next]_vars => [Log!Next]_OnlineLog
  <1> SUFFICES ASSUME Types, Types', OnlineWhole, [Next]_vars
               PROVE  OnlineLog' = OnlineLog \/ Log!Next
    BY DEF OnlineLog
  <1> DEFINE S == 0..(OnlineCapacity - 1)
  <1>1. /\ OnlineLog = LogOf(online, onlineIndex, onlineSize)
        /\ OnlineLog' = LogOf(online', onlineIndex', onlineSize')
    BY DEF OnlineLog, Online!Live, Online!Position, LogOf, LiveOf, Wrap
  <1>2. /\ online \in [S -> Rows] /\ onlineIndex \in S /\ onlineSize \in 0..OnlineCapacity
        /\ onlineSize < OnlineCapacity => onlineIndex = onlineSize
        /\ Online!Slots = S
    BY DEF Types, OnlineTypes, OnlineWhole, Online!Slots
  <1>3. ASSUME NEW o \in Origins, InsertOnline(o) PROVE OnlineLog' = OnlineLog \/ Log!Next
    <2>1. /\ online' \in [S -> Rows]
          /\ \A k \in S : online'[k] = IF k = onlineIndex THEN Row(o) ELSE online[k]
          /\ onlineIndex' = Next1(onlineIndex, OnlineCapacity)
          /\ onlineSize' = IF onlineSize < OnlineCapacity THEN onlineSize + 1 ELSE onlineSize
      BY <1>2, <1>3, OnlineInsertIs
    <2>2. Row(o) \in Rows
      BY WholeRows
    <2>3. Slides(LogOf(online, onlineIndex, onlineSize),
                 LogOf(online', onlineIndex', onlineSize'), Row(o))
      BY <1>2, <2>1, <2>2, InsertSlides
    <2>4. PICK trs \in [1..1 -> {Row(x) : x \in Origins}] : trs = [j \in 1..1 |-> Row(o)]
      OBVIOUS
    <2>5. ASSUME \E m \in 0..1 : /\ m <= Len(OnlineLog)
                                 /\ OnlineLog' = SubSeq(OnlineLog, m + 1, Len(OnlineLog)) \o trs
          PROVE  Log!Next
      BY <2>5 DEF Log!Next, Log!Add
    <2> QED
      BY <1>1, <2>3, <2>4, <2>5 DEF Slides
  <1>4. ASSUME online' \in [S -> Rows],
               \A k \in S : k # onlineIndex => online'[k] = online[k],
               UNCHANGED <<onlineIndex, onlineSize>>
        PROVE  OnlineLog' = OnlineLog
    <2>1. LogOf(online', onlineIndex, onlineSize) = LogOf(online, onlineIndex, onlineSize)
      BY <1>2, <1>4, TornSlides
    <2> QED
      BY <1>1, <1>4, <2>1
  <1> QED
    BY <1>2, <1>3, <1>4, RingSteps DEF OnlineStep

(***************************************************************************)
(* What the online ring samples, but for the slot at the insert index, is  *)
(* a log of whole transitions: every step of every thread is a step of     *)
(* ReplayLog or leaves the log alone.                                      *)
(***************************************************************************)
THEOREM OnlineSlidesCorrect == Spec => OnlineSlides
  <1>1. Init => Log!Init
    <2> SUFFICES ASSUME Init PROVE OnlineLog = <<>>
      BY DEF Log!Init
    <2>1. onlineSize = 0 /\ OnlineCapacity # 0
      BY IngestAssumption DEF Init, Online!Init
    <2>2. OnlineLog = [k \in 1..0 |-> online[Online!Position(k)]]
      BY <2>1 DEF OnlineLog, Online!Live
    <2> QED
      BY <2>2
  <1>2. Init => OnlineWhole
    BY IngestAssumption DEF Init, OnlineWhole, Online!Init, Online!Slots
  <1> QED
    BY <1>1, <1>2, TypesInvariant, OnlineWholeKept, LogKept, PTL
    DEF Spec, OnlineSlides, Log!Spec

==============================================================================
