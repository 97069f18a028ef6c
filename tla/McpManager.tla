----------------------------- MODULE McpManager -----------------------------
(***************************************************************************)
(* The connections to MCP servers: McpServerManager starts one child       *)
(* process per configuration, registers its tools, checks the servers it   *)
(* holds one after the other and replaces the client of one that does not  *)
(* answer.  Tool calls and health checks are requests of McpClient, which  *)
(* share a child's stdin, the map of pending requests and the reader task. *)
(*                                                                         *)
(* The connection handshake is one step: its requests are alone on a new   *)
(* client.  The 30 s timeout and the back-off are steps without a clock.   *)
(***************************************************************************)
EXTENDS Integers, Sequences, FiniteSets

CONSTANTS
  Configs,       \* the entries of the configuration file
  Keys,          \* their commands
  Callers,       \* the tool calls
  Manager,       \* the startup and then the health loop
  Nobody,
  AutoReconnect, \* the configurations with auto_reconnect
  Clients,       \* names for clients; one that nothing refers to is free
  Room,          \* bound: the messages that a pipe holds
  MaxAttempts,   \* reconnect_with_backoff: max_retries
  MaxTroubles    \* bound: how often a child hangs or dies

Actors == Callers \cup {Manager}
Ids    == 1..(Room + Cardinality(Actors))

ASSUME McpAssumption ==
  /\ Manager \notin Callers /\ Nobody \notin Actors \cup Clients \cup Configs
  /\ AutoReconnect \subseteq Configs
  /\ Room \in Nat \ {0} /\ MaxAttempts \in Nat \ {0} /\ MaxTroubles \in Nat
  /\ IsFiniteSet(Callers)

VARIABLES
  command,  \* command[c]: the command of a configuration
  tool,     \* SkillRegistry: tool[c] is the client that the tools of c call
  servers,  \* servers[key]: client and configuration
  \* per client
  process,  \* its child
  pending,  \* pending[k][id]: whose sender the map holds; one whose receiver is
            \* gone stays there too, but nothing comes of it and it is left out
  stdin,    \* who holds the lock of stdin
  torn,     \* a message was cut off in the middle of a line
  pipe,     \* what was written and not read yet
  \* per request
  at,
  client,
  id,
  reply,    \* whose question was answered, or Nobody
  spoilt,   \* the requests that were written behind half a line
  \* the health loop
  rest,     \* the keys still to be checked
  key,      \* the one being checked
  tries,
  fresh,    \* the client of a successful attempt
  troubles

registry == <<command, tool>>
child    == <<process, troubles>>
wire     == <<stdin, torn, pipe>>
request  == <<at, client, id, reply, spoilt>>
loop     == <<rest, key, tries, fresh>>
vars     == <<registry, servers, child, pending, wire, request, loop>>

InRequest == {"locking", "writing", "waiting"}
CallAt    == {"new", "answered", "failed", "gone"} \cup InRequest
LoopAt    == {"start", "idle", "next", "answered", "failed", "reconnect", "swap"} \cup InRequest

Message == [id : Ids, of : Actors, junk : BOOLEAN]

TypeOK ==
  /\ command \in [Configs -> Keys]
  /\ tool \in [Configs -> Clients \cup {Nobody}]
  /\ servers \in [Keys -> [client : Clients \cup {Nobody}, config : Configs \cup {Nobody}]]
  /\ process \in [Clients -> {"none", "up", "hung", "dead"}]
  /\ pending \in [Clients -> [Ids -> Actors \cup {Nobody}]]
  /\ stdin \in [Clients -> Actors \cup {Nobody}]
  /\ torn \in [Clients -> BOOLEAN]
  /\ pipe \in [Clients -> Seq(Message)] /\ \A k \in Clients : Len(pipe[k]) <= Room
  /\ at \in [Actors -> CallAt \cup LoopAt]
  /\ client \in [Actors -> Clients \cup {Nobody}]
  /\ id \in [Actors -> Ids]
  /\ reply \in [Actors -> Actors \cup {Nobody}]
  /\ spoilt \subseteq Actors
  /\ rest \subseteq Keys /\ key \in Keys
  /\ tries \in 0..MaxAttempts
  /\ fresh \in Clients \cup {Nobody}
  /\ troubles \in 0..MaxTroubles

Goto(a, from, to) == at[a] = from /\ at' = [at EXCEPT ![a] = to]

\* Arcs: a client that nothing refers to is dropped.
Held == {servers[x].client : x \in Keys} \cup {tool[c] : c \in Configs}
          \cup {client[a] : a \in Actors} \cup {fresh}

\* The request of a is over: its locals are gone, and so is its receiver.
Over(a, to) ==
  /\ at' = [at EXCEPT ![a] = to]
  /\ client' = [client EXCEPT ![a] = Nobody]
  /\ id' = [id EXCEPT ![a] = 1]
  /\ pending' = [pending EXCEPT ![client[a]] =
                   [i \in Ids |-> IF @[i] = a THEN Nobody ELSE @[i]]]

Pipe(k)   == {pipe[k][n] : n \in DOMAIN pipe[k]}
OnWire(k) == {m.id : m \in Pipe(k)}
Awaited(k) == {id[a] : a \in {b \in Actors : client[b] = k}}

-----------------------------------------------------------------------------
Init ==
  /\ command \in [Configs -> Keys]
  /\ tool = [c \in Configs |-> Nobody]
  /\ servers = [x \in Keys |-> [client |-> Nobody, config |-> Nobody]]
  /\ process = [k \in Clients |-> "none"]
  /\ pending = [k \in Clients |-> [i \in Ids |-> Nobody]]
  /\ stdin = [k \in Clients |-> Nobody]
  /\ torn = [k \in Clients |-> FALSE]
  /\ pipe = [k \in Clients |-> <<>>]
  /\ at = [a \in Actors |-> IF a = Manager THEN "start" ELSE "new"]
  /\ client = [a \in Actors |-> Nobody]
  /\ id = [a \in Actors |-> 1]
  /\ reply = [a \in Actors |-> Nobody]
  /\ spoilt = {}
  /\ rest = {} /\ key \in Keys /\ tries = 0 /\ fresh = Nobody /\ troubles = 0

(* McpClient::connect(): a child, a reader task, a handshake *)

Connect(k) ==
  /\ k \notin Held /\ k = CHOOSE free \in Clients : free \notin Held
  /\ process' = [process EXCEPT ![k] = "up"]
  /\ pending' = [pending EXCEPT ![k] = [i \in Ids |-> Nobody]]
  /\ stdin' = [stdin EXCEPT ![k] = Nobody]
  /\ torn' = [torn EXCEPT ![k] = FALSE]
  /\ pipe' = [pipe EXCEPT ![k] = <<>>]

(* connect_all(), before anything else runs *)

\* connect_server(): the tools are registered, and the entry of the command,
\* if there is one, is replaced.
ConnectServer(c, k) ==
  /\ at[Manager] = "start" /\ tool[c] = Nobody
  /\ Connect(k)
  /\ tool' = [tool EXCEPT ![c] = k]
  /\ servers' = [servers EXCEPT ![command[c]] = [client |-> k, config |-> c]]
  /\ UNCHANGED <<command, troubles, request, loop>>

\* All configurations were tried; some may have failed.
Started ==
  /\ Goto(Manager, "start", "idle")
  /\ UNCHANGED <<registry, servers, child, pending, wire, client, id, reply, spoilt, loop>>

(* McpClient::request() *)

\* Slip: the number of requests that are pending instead of a counter.
FreshId_Count(k) == Cardinality({i \in Ids : pending[k][i] # Nobody}) + 1

\* next_id never repeats an id.  Here one is used again when no message and no
\* request carries it; a sender that the map still holds for it is useless.
FreshId(k) == CHOOSE i \in Ids : i \notin OnWire(k) \cup Awaited(k)

\* Slip: the sender is put into the map too late for this answer.
Enqueue_Late(a, k) ==
  /\ at' = [at EXCEPT ![a] = "locking"]
  /\ client' = [client EXCEPT ![a] = k]
  /\ id' = [id EXCEPT ![a] = FreshId(k)]
  /\ spoilt' = spoilt \ {a}
  /\ UNCHANGED pending

\* The id is taken and the sender is in the map before anything is written.
Enqueue(a, k) ==
  /\ at' = [at EXCEPT ![a] = "locking"]
  /\ client' = [client EXCEPT ![a] = k]
  /\ id' = [id EXCEPT ![a] = FreshId(k)]
  /\ pending' = [pending EXCEPT ![k][FreshId(k)] = a]
  /\ spoilt' = spoilt \ {a}

LockStdin(a) ==
  /\ Goto(a, "locking", "writing")
  /\ stdin[client[a]] = Nobody
  /\ stdin' = [stdin EXCEPT ![client[a]] = a]
  /\ UNCHANGED <<registry, servers, child, pending, torn, pipe, client, id, reply, spoilt, loop>>

\* write_all() returns when the pipe has room; what was cut off before makes
\* one line with this message.
Write(a) ==
  LET k == client[a]
  IN  /\ Goto(a, "writing", "waiting")
      /\ process[k] # "dead" /\ Len(pipe[k]) < Room
      /\ pipe' = [pipe EXCEPT ![k] = Append(@, [id |-> id[a], of |-> a, junk |-> torn[k]])]
      /\ torn' = [torn EXCEPT ![k] = FALSE]
      /\ spoilt' = IF torn[k] THEN spoilt \cup {a} ELSE spoilt
      /\ stdin' = [stdin EXCEPT ![k] = Nobody]
      /\ UNCHANGED <<registry, servers, child, pending, client, id, reply, loop>>

\* Broken pipe.
WriteFails(a) ==
  /\ at[a] = "writing" /\ process[client[a]] = "dead"
  /\ Over(a, "failed")
  /\ stdin' = [stdin EXCEPT ![client[a]] = Nobody]
  /\ UNCHANGED <<registry, servers, child, torn, pipe, reply, spoilt, loop>>

\* Slip: only a sender that is dropped ends the wait, and the reader task drops
\* none when it ends.
TimeOut_None(a) ==
  /\ at[a] = "waiting" /\ pending[client[a]][id[a]] # a
  /\ Over(a, "failed")
  /\ UNCHANGED <<registry, servers, child, wire, reply, spoilt, loop>>

\* After 30 s.
TimeOut(a) ==
  /\ at[a] = "waiting"
  /\ Over(a, "failed")
  /\ UNCHANGED <<registry, servers, child, wire, reply, spoilt, loop>>

(* The child process *)

\* It reads a line and answers, now or late; the reader task removes the sender
\* of the id and uses it, if its receiver is still there.
Answer(k) ==
  LET m == Head(pipe[k])
      a == pending[k][m.id]
  IN  /\ k \in Held /\ process[k] = "up" /\ pipe[k] # <<>>
      /\ pipe' = [pipe EXCEPT ![k] = Tail(@)]
      /\ IF ~m.junk /\ a # Nobody
           THEN Over(a, "answered") /\ reply' = [reply EXCEPT ![a] = m.of]
           ELSE UNCHANGED <<pending, at, client, id, reply>>
      /\ UNCHANGED <<registry, servers, child, stdin, torn, spoilt, loop>>

Trouble(k) ==
  /\ k \in Held /\ troubles < MaxTroubles /\ troubles' = troubles + 1
  /\ \/ process[k] = "up" /\ process' = [process EXCEPT ![k] = "hung"] /\ UNCHANGED pipe
     \/ process[k] \in {"up", "hung"} /\ process' = [process EXCEPT ![k] = "dead"]
                                      /\ pipe' = [pipe EXCEPT ![k] = <<>>]
  /\ UNCHANGED <<registry, servers, pending, stdin, torn, request, loop>>

(* McpSkill::execute() *)

\* The client is the one that the tool was registered with.
CallTool(a, c) ==
  /\ at[Manager] # "start"
  /\ at[a] = "new" /\ tool[c] # Nobody
  /\ Enqueue(a, tool[c])
  /\ UNCHANGED <<registry, servers, child, wire, reply, loop>>

\* The caller's future is dropped; in the middle of a write it leaves half a line.
Vanish(a) ==
  /\ at[a] \in InRequest
  /\ Over(a, "gone")
  /\ IF at[a] = "writing" THEN /\ stdin' = [stdin EXCEPT ![client[a]] = Nobody]
                               /\ torn' = [torn EXCEPT ![client[a]] = TRUE]
                          ELSE UNCHANGED <<stdin, torn>>
  /\ UNCHANGED <<registry, servers, child, pipe, reply, spoilt, loop>>

(* health_check() and reconnect() *)

\* The timer ticks and the keys are copied.
StartRound ==
  /\ Goto(Manager, "idle", "next")
  /\ rest' = {x \in Keys : servers[x].client # Nobody}
  /\ UNCHANGED <<registry, servers, child, pending, wire, client, id, reply, spoilt, key, tries, fresh>>

EndRound ==
  /\ rest = {} /\ Goto(Manager, "next", "idle")
  /\ UNCHANGED <<registry, servers, child, pending, wire, client, id, reply, spoilt, loop>>

\* From here to the answer the write lock of servers is held.
Check(x) ==
  /\ at[Manager] = "next" /\ x \in rest
  /\ rest' = rest \ {x} /\ key' = x
  /\ reply' = [reply EXCEPT ![Manager] = Nobody]
  /\ Enqueue(Manager, servers[x].client)
  /\ UNCHANGED <<registry, servers, child, wire, tries, fresh>>

Healthy ==
  /\ Goto(Manager, "answered", "next")
  /\ UNCHANGED <<registry, servers, child, pending, wire, client, id, reply, spoilt, loop>>

\* There was no answer, or an error, or no list of tools.
Unhealthy ==
  /\ at[Manager] \in {"answered", "failed"}
  /\ at' = [at EXCEPT ![Manager] =
              IF servers[key].config \in AutoReconnect THEN "reconnect" ELSE "next"]
  /\ tries' = 0
  /\ UNCHANGED <<registry, servers, child, pending, wire, client, id, reply, spoilt, rest, key, fresh>>

Reconnect(k) ==
  /\ Goto(Manager, "reconnect", "swap")
  /\ Connect(k)
  /\ fresh' = k
  /\ UNCHANGED <<registry, servers, troubles, client, id, reply, spoilt, rest, key, tries>>

\* Slip: after the last attempt it starts over.
AttemptFails_StartsOver ==
  /\ Goto(Manager, "reconnect", "reconnect")
  /\ tries' = (tries + 1) % MaxAttempts
  /\ UNCHANGED <<registry, servers, child, pending, wire, client, id, reply, spoilt, rest, key, fresh>>

AttemptFails ==
  /\ IF tries + 1 < MaxAttempts THEN Goto(Manager, "reconnect", "reconnect")
                                ELSE Goto(Manager, "reconnect", "next")
  /\ tries' = tries + 1
  /\ UNCHANGED <<registry, servers, child, pending, wire, client, id, reply, spoilt, rest, key, fresh>>

\* Slip: the new client is dropped with the scope it was made in.
Swap_Forgets ==
  /\ Goto(Manager, "swap", "next")
  /\ fresh' = Nobody /\ tries' = 0
  /\ UNCHANGED <<registry, servers, child, pending, wire, client, id, reply, spoilt, rest, key>>

\* The entry gets the new client; the registered tools keep the one they have.
\* A child whose client is dropped with that reads the end of its input; one that
\* hangs does not, but nothing in the program can reach it any more.
Swap ==
  LET old  == servers[key].client
      kept == old \in {tool[c] : c \in Configs}
  IN  /\ Goto(Manager, "swap", "next")
      /\ servers' = [servers EXCEPT ![key].client = fresh]
      /\ fresh' = Nobody /\ tries' = 0
      /\ process' = IF kept THEN process ELSE [process EXCEPT ![old] = "none"]
      /\ pipe' = IF kept THEN pipe ELSE [pipe EXCEPT ![old] = <<>>]
      /\ UNCHANGED <<registry, troubles, pending, stdin, torn, client, id, reply, spoilt, rest, key>>

-----------------------------------------------------------------------------
Startup     == Started \/ \E c \in Configs, k \in Clients : ConnectServer(c, k)
Request(a)  == Write(a) \/ WriteFails(a) \/ TimeOut(a)
HealthLoop  == \/ StartRound \/ EndRound \/ Healthy \/ Unhealthy \/ AttemptFails \/ Swap
               \/ \E x \in Keys : Check(x)
Restart     == \E k \in Clients : Reconnect(k)
Call(a)     == \E c \in Configs : CallTool(a, c)

Next ==
  \/ Startup \/ HealthLoop \/ Restart
  \/ \E a \in Actors : LockStdin(a) \/ Request(a)
  \/ \E a \in Callers : Call(a) \/ Vanish(a)
  \/ \E k \in Clients : Answer(k) \/ Trouble(k)

Spec == Init /\ [][Next]_vars

\* Timers fire, the lock of stdin is first come, first served, and a server that
\* is started again and again comes up at last.
FairSpec ==
  /\ Spec
  /\ WF_vars(HealthLoop) /\ SF_vars(Restart)
  /\ \A a \in Actors : SF_vars(LockStdin(a)) /\ WF_vars(Request(a))
  /\ \A k \in Clients : WF_vars(Answer(k))

-----------------------------------------------------------------------------
(* Properties *)

(***************************************************************************)
(* A request is never given the answer to another one, however late that   *)
(* comes: not a call the answer to a health check that timed out before.   *)
(***************************************************************************)
OwnAnswer == \A a \in Actors : reply[a] \in {Nobody, a}

(***************************************************************************)
(* As long as its child lives, the request that waits is in the pipe and  *)
(* its sender in the map, so that the answer will find it.  The exception  *)
(* is a line spoilt by a caller that went away in the middle of a write.   *)
(***************************************************************************)
AnswerOnTheWay ==
  \A a \in Actors : at[a] = "waiting" =>
    LET k == client[a]
    IN  /\ pending[k][id[a]] = a
        /\ process[k] \in {"up", "hung"} =>
             \/ a \in spoilt
             \/ [id |-> id[a], of |-> a, junk |-> FALSE] \in Pipe(k)

\* Nothing can be written to this client, and nothing will be read.
Choked(k) == k # Nobody /\ process[k] = "hung" /\ Len(pipe[k]) = Room

(***************************************************************************)
(* A tool call ends: with an answer, with an error, or after 30 seconds.   *)
(* It is stuck only where no timeout watches it, at the pipe of a child    *)
(* that stopped reading.                                                   *)
(***************************************************************************)
CallsEnd ==
  \A a \in Callers :
    at[a] \in InRequest ~> (at[a] \in {"answered", "failed", "gone"} \/ Choked(client[a]))

(***************************************************************************)
(* A round of health checks only goes forward: a server is checked once,   *)
(* and each attempt to reconnect is a later one of at most MaxAttempts.    *)
(* Whatever the children do, no server makes the loop turn on the spot     *)
(* while the others wait for their check.                                  *)
(***************************************************************************)
RoundPart(p) ==
  CASE p = "locking" -> 1 [] p = "writing" -> 2 [] p = "waiting" -> 3
    [] p \in {"answered", "failed"} -> 4 [] p = "reconnect" -> 5 [] p = "swap" -> 6
    [] p = "next" -> 7 [] OTHER -> 8

ManagerStep == HealthLoop \/ Restart \/ LockStdin(Manager) \/ Request(Manager)

RoundAdvances ==
  [][\/ at[Manager] \in {"start", "idle"}
     \/ rest' \subseteq rest /\ rest' # rest
     \/ rest' = rest /\ RoundPart(at[Manager]) < RoundPart(at'[Manager])
     \/ rest' = rest /\ at'[Manager] = at[Manager] /\ tries < tries' /\ tries' < MaxAttempts
     \/ ~ManagerStep /\ UNCHANGED <<rest, at[Manager], tries>>]_vars

(***************************************************************************)
(* The health loop replaces the client of a server that hangs or died by   *)
(* one that works, unless the check itself is stuck at a choked pipe, which*)
(* ends health checks and reconnects for all servers.                      *)
(***************************************************************************)
Stuck == at[Manager] \in {"locking", "writing"} /\ Choked(client[Manager])
Works(x) == servers[x].client # Nobody => process[servers[x].client] = "up"
Heals ==
  \A x \in Keys :
    (at[Manager] # "start" /\ ~Works(x)) ~> (Works(x) \/ Stuck \/ servers[x].config \notin AutoReconnect)

(***************************************************************************)
(* "If a server stops responding, the manager ... Attempts reconnect" and  *)
(* "Stops routing calls until it reconnects" (docs/MCP_INTEGRATION_GUIDE): *)
(* after that the tools work again.                                        *)
(***************************************************************************)
ToolsRecover ==
  \A c \in Configs :
    (at[Manager] # "start" /\ tool[c] # Nobody) ~> (tool[c] # Nobody /\ process[tool[c]] = "up") \/ Stuck
=============================================================================
