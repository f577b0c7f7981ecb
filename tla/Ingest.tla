-------------------------------- MODULE Ingest --------------------------------
(***************************************************************************)
(* How transitions reach the two buffers of a Session that keeps plain     *)
(* rings: buffer.add and preload_demos_arrays in the main thread, POST     *)
(* /transitions in the server thread for remote clients that time out and  *)
(* post again, and GET /status, which reads it all without a lock.  The    *)
(* rings are two ReplayBuffers.                                            *)
(*                                                                         *)
(* A row is in two parts, the columns written before and after the one a   *)
(* malformed transition lacks: insert raises between them and leaves the   *)
(* first part behind.  The server's handlers do not await inside, so they  *)
(* interleave with the other threads and never with each other.            *)
(***************************************************************************)
EXTENDS Naturals, Sequences, FiniteSets, TLC

CONSTANTS OnlineCapacity, DemoCapacity,
          Clients,       \* remote actors
          Bodies,        \* what a client may post: a list of transitions or not
          MaxTries,      \* bound: attempts of a client
          AddBound,      \* bound: calls of the main thread that store
          BulkSizes,     \* lengths of the arrays of preload_demos_arrays
          MaxLength,     \* bound: transitions of a body
          Garbage        \* what np.empty holds

ASSUME IngestAssumption ==
  /\ OnlineCapacity \in Nat \ {0} /\ DemoCapacity \in Nat \ {0}
  /\ BulkSizes \subseteq Nat \ {0}
  /\ MaxTries \in Nat \ {0} /\ AddBound \in Nat /\ MaxLength \in Nat
  /\ Bodies \subseteq
       [list : BOOLEAN,
        trs : Seq([intervention : {"yes", "no", "absent"}, whole : BOOLEAN])]
  /\ \A b \in Bodies : Len(b.trs) <= MaxLength

VARIABLES extra_fields,                    \* _config: extra fields or none
          online, onlineIndex, onlineSize, \* _online_buffer
          demo, demoIndex, demoSize,       \* _demo_buffer
          env_steps,
          server,                          \* what the server thread does
          client, inbox,                   \* the clients and their requests
          main, adds,                      \* what the main thread does
          copies,      \* history: insertions of each posted transition
          inserted,    \* history: insertions of _add_transition_sync
          bulkLoaded,  \* history: demo slots last written by bulk_insert
          overlapped   \* history: an insert ran inside a bulk_insert

onlineVars == <<online, onlineIndex, onlineSize>>
demoVars == <<demo, demoIndex, demoSize>>
clientVars == <<client, inbox>>
history == <<copies, inserted, bulkLoaded, overlapped>>
vars == <<extra_fields, onlineVars, demoVars, env_steps, server,
          clientVars, main, adds, history>>

-----------------------------------------------------------------------------
Origins == [from : Clients, at : 1..MaxLength] \cup [from : {"main", "arrays"}, at : {0}]

ASSUME GarbageAssumption == Garbage \notin Origins

Rows == [head : Origins \cup {Garbage}, tail : Origins \cup {Garbage}]
Empty == [head |-> Garbage, tail |-> Garbage]
Row(o) == [head |-> o, tail |-> o]
Torn(r) == r.head # r.tail

Online == INSTANCE ReplayBuffer
            WITH Capacity <- OnlineCapacity, NoRow <- Empty, MaxBulk <- 1,
                 row <- online, index <- onlineIndex, size <- onlineSize
Demo == INSTANCE ReplayBuffer
          WITH Capacity <- DemoCapacity, NoRow <- Empty, MaxBulk <- 1,
               row <- demo, index <- demoIndex, size <- demoSize

Idle == [pc |-> "idle"]
NoBody == [list |-> TRUE, trs |-> <<>>]

Init ==
  /\ extra_fields \in BOOLEAN
  /\ Online!Init /\ Demo!Init
  /\ env_steps = 0
  /\ server = [pc |-> "off"]
  /\ client = [c \in Clients |-> [state |-> "ready", body |-> NoBody, tries |-> 0]]
  /\ inbox = {}
  /\ main = Idle /\ adds = 0
  /\ copies = [c \in Clients |-> [j \in 1..MaxLength |-> 0]]
  /\ inserted = 0
  /\ bulkLoaded = {}
  /\ overlapped = FALSE

-----------------------------------------------------------------------------
(***************************************************************************)
(* _add_transition_sync: the flag defaults to False and picks the buffer.  *)
(***************************************************************************)
ToDemo(t) == t.intervention = "yes"

InBulk == main.pc \in {"bulk head", "bulk tail"}

InsertOnline(o) ==
  /\ Online!Insert(Row(o))
  /\ UNCHANGED <<demoVars, bulkLoaded, overlapped>>

InsertDemo(o) ==
  /\ Demo!Insert(Row(o))
  /\ bulkLoaded' = bulkLoaded \ {demoIndex}
  /\ overlapped' = (overlapped \/ InBulk)
  /\ UNCHANGED onlineVars

InsertInto(t, o) == IF ToDemo(t) THEN InsertDemo(o) ELSE InsertOnline(o)

\* The insert of t raises: a column is missing, or the index is out of range.
Raises(t) == ~t.whole \/ (ToDemo(t) /\ ~Demo!InRange)

\* Mutant: the index moves although the insert raised.
TearAndAdvance(t, o) ==
  IF ToDemo(t)
  THEN /\ demo' = IF ~Demo!InRange THEN demo
                  ELSE [demo EXCEPT ![demoIndex].head = o]
       /\ overlapped' = (overlapped \/ InBulk)
       /\ UNCHANGED <<onlineVars, demoIndex, demoSize>>
  ELSE /\ online' = [online EXCEPT ![onlineIndex].head = o]
       /\ onlineIndex' = (onlineIndex + 1) % OnlineCapacity
       /\ UNCHANGED <<demoVars, onlineSize, overlapped>>

\* What an insert that raises leaves behind: the columns before the missing one.
Tear(t, o) ==
  IF ToDemo(t)
  THEN /\ demo' = IF ~Demo!InRange THEN demo
                  ELSE [demo EXCEPT ![demoIndex].head = o]
       /\ overlapped' = (overlapped \/ InBulk)
       /\ UNCHANGED <<onlineVars, demoIndex, demoSize>>
  ELSE /\ online' = [online EXCEPT ![onlineIndex].head = o]
       /\ UNCHANGED <<demoVars, onlineIndex, onlineSize, overlapped>>

-----------------------------------------------------------------------------
(***************************************************************************)
(* The main thread: buffer.add, whose transitions are whole, and the bulk  *)
(* load, which takes no lock: columns first, then index and size.  Arrays  *)
(* have no extra fields, and bulk_insert leaves those columns alone.       *)
(***************************************************************************)
Add(t) ==
  /\ main = Idle /\ adds < AddBound
  /\ ~Raises(t)
  /\ InsertInto(t, [from |-> "main", at |-> 0])
  /\ main' = [pc |-> "count"]
  /\ adds' = adds + 1
  /\ inserted' = inserted + 1
  /\ UNCHANGED <<extra_fields, env_steps, server, clientVars, copies>>

\* An intervention into a demo ring whose index is at its end.
AddRaises(t) ==
  /\ main = Idle
  /\ Raises(t)
  /\ Tear(t, [from |-> "main", at |-> 0])
  /\ UNCHANGED <<extra_fields, env_steps, server, clientVars, main, adds,
                 copies, inserted, bulkLoaded>>

CountAdd ==
  /\ main.pc = "count"
  /\ env_steps' = env_steps + 1
  /\ main' = Idle
  /\ UNCHANGED <<extra_fields, onlineVars, demoVars, server,
                 clientVars, adds, history>>

Loaded == [from |-> "arrays", at |-> 0]

BulkHead(n) ==
  /\ main = Idle /\ adds < AddBound
  /\ Demo!Fits(n)
  /\ demo' = [i \in Demo!Slots |-> IF i \in demoIndex..(demoIndex + n - 1)
                                   THEN [demo[i] EXCEPT !.head = Loaded] ELSE demo[i]]
  /\ main' = [pc |-> "bulk head", from |-> demoIndex, n |-> n]
  /\ adds' = adds + 1
  /\ UNCHANGED <<extra_fields, onlineVars, demoIndex, demoSize, env_steps,
                 server, clientVars, history>>

BulkTail ==
  /\ main.pc = "bulk head"
  /\ demo' = [i \in Demo!Slots |->
                IF i \in main.from..(main.from + main.n - 1) /\ ~extra_fields
                THEN [demo[i] EXCEPT !.tail = Loaded] ELSE demo[i]]
  /\ main' = [main EXCEPT !.pc = "bulk tail"]
  /\ UNCHANGED <<extra_fields, onlineVars, demoIndex, demoSize, env_steps,
                 server, clientVars, adds, history>>

BulkDone ==
  /\ main.pc = "bulk tail"
  /\ Demo!BulkAdvance(main.n)
  /\ bulkLoaded' = bulkLoaded \cup (main.from..(main.from + main.n - 1))
  /\ main' = Idle
  /\ UNCHANGED <<extra_fields, onlineVars, demo, env_steps, server,
                 clientVars, adds, copies, inserted, overlapped>>

\* start_server: raises if the server thread is alive.
StartServer ==
  /\ main = Idle
  /\ server.pc = "off"
  /\ server' = Idle
  /\ UNCHANGED <<extra_fields, onlineVars, demoVars, env_steps, clientVars, main, adds, history>>

-----------------------------------------------------------------------------
(***************************************************************************)
(* The clients: post, time out and post the same body again, also after an *)
(* error.  A request is (client, attempt); the answer to an attempt that   *)
(* timed out finds nobody.                                                 *)
(***************************************************************************)
unchangedByClient == <<extra_fields, onlineVars, demoVars, env_steps,
                       server, main, adds, history>>

Request(c) == [by |-> c, try |-> client[c].tries]

Send(c, body) ==
  /\ client[c].state = "ready" /\ server.pc # "off"
  /\ client' = [client EXCEPT ![c] = [state |-> "waiting", body |-> body, tries |-> 1]]
  /\ inbox' = inbox \cup {[by |-> c, try |-> 1]}
  /\ UNCHANGED unchangedByClient

SendAgain(c) ==
  /\ client[c].state \in {"waiting", "error"} /\ client[c].tries < MaxTries
  /\ client' = [client EXCEPT ![c].state = "waiting", ![c].tries = @ + 1]
  /\ inbox' = inbox \cup {[by |-> c, try |-> client[c].tries + 1]}
  /\ UNCHANGED unchangedByClient

-----------------------------------------------------------------------------
(***************************************************************************)
(* post_transitions: one transition after the other, inserted and counted; *)
(* the first that raises ends the request with an error, and those before  *)
(* it stay.                                                                *)
(***************************************************************************)
Answered(r, code) ==
  /\ client' = IF client[r.by].state = "waiting" /\ client[r.by].tries = r.try
               THEN [client EXCEPT ![r.by].state = code] ELSE client
  /\ server' = Idle

unchangedByServer == <<extra_fields, main, adds>>

Handle(r) ==
  /\ server = Idle /\ r \in inbox
  /\ inbox' = inbox \ {r}
  /\ IF client[r.by].body.list
     THEN /\ server' = [pc |-> "insert", req |-> r, at |-> 1]
          /\ UNCHANGED client
     ELSE Answered(r, "error")
  /\ UNCHANGED <<unchangedByServer, onlineVars, demoVars, env_steps, history>>

Posted == client[server.req.by].body.trs

\* Mutant: an exception ends the handler without an answer.
HandlerRaisesSilently ==
  /\ server.pc = "insert" /\ server.at <= Len(Posted)
  /\ Raises(Posted[server.at])
  /\ Tear(Posted[server.at], [from |-> server.req.by, at |-> server.at])
  /\ server' = Idle
  /\ UNCHANGED <<unchangedByServer, clientVars, env_steps, copies, inserted, bulkLoaded>>

\* Mutant: a malformed transition is skipped, and the rest is stored.
HandlerRaisesNot ==
  /\ server.pc = "insert" /\ server.at <= Len(Posted)
  /\ Raises(Posted[server.at])
  /\ Tear(Posted[server.at], [from |-> server.req.by, at |-> server.at])
  /\ server' = [server EXCEPT !.at = @ + 1]
  /\ UNCHANGED <<unchangedByServer, clientVars, env_steps, copies, inserted, bulkLoaded>>

\* Mutant: the step is counted in a finally, also when the insert raised.
HandlerRaisesCounted ==
  /\ server.pc = "insert" /\ server.at <= Len(Posted)
  /\ Raises(Posted[server.at])
  /\ Tear(Posted[server.at], [from |-> server.req.by, at |-> server.at])
  /\ env_steps' = env_steps + 1
  /\ Answered(server.req, "error")
  /\ UNCHANGED <<unchangedByServer, inbox, copies, inserted, bulkLoaded>>

HandlerRaises ==
  /\ server.pc = "insert" /\ server.at <= Len(Posted)
  /\ Raises(Posted[server.at])
  /\ Tear(Posted[server.at], [from |-> server.req.by, at |-> server.at])
  /\ Answered(server.req, "error")
  /\ UNCHANGED <<unchangedByServer, inbox, env_steps, copies, inserted, bulkLoaded>>

HandlerInsert ==
  /\ server.pc = "insert" /\ server.at <= Len(Posted)
  /\ ~Raises(Posted[server.at])
  /\ InsertInto(Posted[server.at], [from |-> server.req.by, at |-> server.at])
  /\ server' = [server EXCEPT !.pc = "count"]
  /\ copies' = [copies EXCEPT ![server.req.by][server.at] = @ + 1]
  /\ inserted' = inserted + 1
  /\ UNCHANGED <<unchangedByServer, clientVars, env_steps>>

HandlerCount ==
  /\ server.pc = "count"
  /\ env_steps' = env_steps + 1
  /\ server' = [server EXCEPT !.pc = "insert", !.at = @ + 1]
  /\ UNCHANGED <<unchangedByServer, clientVars, onlineVars, demoVars, history>>

HandlerEnds ==
  /\ server.pc = "insert" /\ server.at > Len(Posted)
  /\ Answered(server.req, "ok")
  /\ UNCHANGED <<unchangedByServer, inbox, env_steps, onlineVars, demoVars, history>>

-----------------------------------------------------------------------------
(***************************************************************************)
(* status: the step counter first, the sizes of the two rings after it,    *)
(* each read on its own and none under the counter lock.                   *)
(***************************************************************************)
unchangedByStatus == <<unchangedByServer, clientVars, onlineVars, demoVars,
                       env_steps, history>>

\* Mutant: the sizes are those of the online ring alone.
StatusSizesOnline ==
  /\ server.pc = "status"
  /\ server' = [pc |-> "report", env |-> server.env, stored |-> onlineSize]
  /\ UNCHANGED unchangedByStatus

StatusEnv ==
  /\ server = Idle
  /\ server' = [pc |-> "status", env |-> env_steps]
  /\ UNCHANGED unchangedByStatus

StatusSizes ==
  /\ server.pc = "status"
  /\ server' = [pc |-> "report", env |-> server.env, stored |-> onlineSize + demoSize]
  /\ UNCHANGED unchangedByStatus

StatusEnds ==
  /\ server.pc = "report"
  /\ server' = Idle
  /\ UNCHANGED unchangedByStatus

-----------------------------------------------------------------------------
ServerStep ==
  \/ HandlerRaises \/ HandlerInsert \/ HandlerCount \/ HandlerEnds
  \/ StatusSizes \/ StatusEnds

HandlePost(c) == \E r \in inbox : r.by = c /\ Handle(r)

Transitions == [intervention : {"yes", "no"}, whole : {TRUE}]

Next ==
  \/ \E t \in Transitions : Add(t) \/ AddRaises(t)
  \/ CountAdd
  \/ \E n \in BulkSizes : BulkHead(n)
  \/ BulkTail \/ BulkDone
  \/ StartServer
  \/ \E c \in Clients : \E body \in Bodies : Send(c, body)
  \/ \E c \in Clients : SendAgain(c) \/ HandlePost(c)
  \/ ServerStep \/ StatusEnv

Fairness ==
  /\ WF_vars(ServerStep)
  /\ \A c \in Clients : SF_vars(HandlePost(c))

Spec == Init /\ [][Next]_vars /\ Fairness

-----------------------------------------------------------------------------
TypeOK ==
  /\ online \in [Online!Slots -> Rows] /\ onlineIndex \in Online!Slots
  /\ onlineSize \in 0..OnlineCapacity
  /\ demo \in [Demo!Slots -> Rows] /\ demoSize \in 0..DemoCapacity
  /\ overlapped \/ demoIndex \in 0..DemoCapacity
  /\ env_steps \in Nat
  /\ server.pc \in {"off", "idle", "insert", "count", "status", "report"}
  /\ client \in [Clients -> [state : {"ready", "waiting", "ok", "error"},
                             body : Bodies \cup {NoBody}, tries : 0..MaxTries]]
  /\ \A r \in inbox : r.by \in Clients /\ r.try \in 1..client[r.by].tries
  /\ main.pc \in {"idle", "count", "bulk head", "bulk tail"} /\ adds \in 0..AddBound

(***************************************************************************)
(* What a sample can return is a transition somebody inserted, all of it,  *)
(* but for one row: the one an insert that raised left half written at the *)
(* insert index, which a full ring samples until the next insert.  In the  *)
(* demo ring there are three more ways: a bulk_insert in progress, one     *)
(* that loaded no extra fields, and one that an insert ran into, which     *)
(* takes no lock against it: of what that leaves, nothing is claimed.      *)
(***************************************************************************)
Spoilt(r) == Torn(r) \/ r.head = Garbage

InBulkSlice(i) == InBulk /\ i \in main.from..(main.from + main.n - 1)

SpoiltOnlyAtIndex ==
  /\ \A i \in Online!Sampleable : Spoilt(online[i]) => i = onlineIndex
  /\ \A i \in Demo!Sampleable : Spoilt(demo[i]) =>
       \/ i = demoIndex \/ InBulkSlice(i) \/ overlapped
       \/ extra_fields /\ i \in bulkLoaded

(***************************************************************************)
(* Of the batch of a client that was told it was received, every           *)
(* transition was inserted, at most once per attempt; of a batch with a    *)
(* malformed transition, none from that one on ever is.  The first ones    *)
(* are inserted at least as often as the later.  A ring may have evicted   *)
(* them since.                                                             *)
(***************************************************************************)
StoredInOrder ==
  \A c \in Clients :
    LET trs == client[c].body.trs IN
    /\ client[c].state = "ok" => /\ client[c].body.list
                                 /\ \A j \in DOMAIN trs : copies[c][j] >= 1
    /\ \A j \in 1..MaxLength : copies[c][j] <= client[c].tries
    /\ \A j \in 2..MaxLength : copies[c][j] <= copies[c][j - 1]
    /\ \A j \in DOMAIN trs : ~trs[j].whole =>
         \A k \in j..MaxLength : copies[c][k] = 0

(***************************************************************************)
(* The step counter the learner's cap and the scripts' pacing divide by is *)
(* the number of transitions stored, but for those of the threads between  *)
(* the insert and the count; what raised is not counted.                   *)
(***************************************************************************)
Pending == (IF main.pc = "count" THEN 1 ELSE 0) + (IF server.pc = "count" THEN 1 ELSE 0)

CountsStored == env_steps + Pending = inserted

(***************************************************************************)
(* A status report reads its numbers at different times, without the       *)
(* counter lock, and still never shows more steps than transitions while   *)
(* there is room in both rings: insert goes before count, and the counter  *)
(* is read before the sizes.                                               *)
(***************************************************************************)
StatusPlausible ==
  server.pc = "report" =>
    \/ server.env <= server.stored
    \/ onlineSize = OnlineCapacity \/ demoSize = DemoCapacity

(***************************************************************************)
(* A bulk load that fills the demo ring to its end leaves the index there: *)
(* from then on nothing, malformed or not, changes what the ring samples.  *)
(***************************************************************************)
FullDemoIsFinal == [][demoIndex >= DemoCapacity => UNCHANGED demoVars]_vars

(***************************************************************************)
(* But for the row at the insert index of a full ring, what the online     *)
(* ring samples is a log of whole transitions, whichever threads insert    *)
(* and whichever inserts raise.                                            *)
(***************************************************************************)
OnlineLog ==
  IF onlineSize = OnlineCapacity THEN Tail(Online!Live) ELSE Online!Live

Log == INSTANCE ReplayLog
         WITH Transitions <- {Row(o) : o \in Origins}, MaxEvict <- 1,
              Batches <- {1}, log <- OnlineLog

OnlineSlides == Log!Spec

(***************************************************************************)
(* A post that reached the server is answered, whatever its body, however  *)
(* many others wait and whatever the attempts before left behind.          *)
(***************************************************************************)
PostsAnswered ==
  \A c \in Clients : client[c].state = "waiting" ~> client[c].state # "waiting"
==============================================================================
