--------------------------- MODULE SpawnProtocol ---------------------------
(***************************************************************************)
(* How the thin clients and statusline-ctl find, start, retire and stop    *)
(* the resident render server of one state directory.                      *)
(*                                                                         *)
(* Nothing coordinates the processes but two files, server.json and        *)
(* server.spawn.lock, and UDP datagrams on the loopback interface.  Every  *)
(* read, write or removal of a file and every datagram is a step of its    *)
(* own, because another process may run between any two of them.           *)
(*                                                                         *)
(* A server is named by its pid, which also stands for the port it bound.  *)
(* A pid returns to the pool once nothing names it any more.               *)
(***************************************************************************)
EXTENDS Naturals

CONSTANTS
    Clients,     \* client processes that can be alive at once
    Servers,     \* server pids
    NoInfo,      \* an absent server.json
    MaxVersion,  \* bound: how often the checkout may move
    MaxFaults,   \* bound: kills, crashes, failed launches and operator's stops
    Aging        \* the locks that may reach the staleness age of ten seconds:
                 \* "never", those whose spawn came to nothing, or "any"

ASSUME ConstantsAssumption ==
    /\ Clients \cap Servers = {}
    /\ NoInfo \notin [pid : Servers, version : Nat]
    /\ MaxVersion \in Nat
    /\ MaxFaults \in Nat
    /\ Aging \in {"never", "abandoned", "any"}

VARIABLES
    checkout,    \* code_version() of the sources on disk
    infoFile,    \* server.json
    lockFile,    \* server.spawn.lock: "none", "fresh" or "stale"
    server,      \* where each server process is
    loaded,      \* the code each server imported
    label,       \* the version each server computed to publish
    inbox,       \* datagrams waiting in each server's socket
    client,      \* where each client process is
    snapshot,    \* each client's `info`
    ctl,         \* where `statusline-ctl server stop` is
    ctlTarget,   \* the info it read
    faults       \* how many of those there have been

serverVars == <<server, loaded, label, inbox>>
clientVars == <<client, snapshot>>
ctlVars == <<ctl, ctlTarget>>
vars == <<checkout, infoFile, lockFile, serverVars, clientVars, ctlVars, faults>>

Info == [pid : Servers, version : 0..MaxVersion]
ServerPhase == {"off", "starting", "loaded", "bound", "published", "serving",
                "closing", "unpublishing", "draining", "crashed"}
ClientPhase == {"idle", "read", "sending", "waiting", "answered", "retiring",
                "claiming", "contended", "removing", "reclaiming", "holding",
                "spawning", "releasing"}
CtlPhase == {"idle", "asking", "polling", "stopped", "gaveup"}

TypeOK ==
    /\ checkout \in 0..MaxVersion
    /\ infoFile \in Info \cup {NoInfo}
    /\ lockFile \in {"none", "fresh", "stale"}
    /\ server \in [Servers -> ServerPhase]
    /\ loaded \in [Servers -> 0..MaxVersion]
    /\ label \in [Servers -> 0..MaxVersion]
    /\ inbox \in [Servers -> SUBSET (Clients \cup {"shutdown"})]
    /\ client \in [Clients -> ClientPhase]
    /\ snapshot \in [Clients -> Info \cup {NoInfo}]
    /\ ctl \in CtlPhase
    /\ ctlTarget \in Info \cup {NoInfo}
    /\ faults \in 0..MaxFaults

Init ==
    /\ checkout = 0
    /\ infoFile = NoInfo
    /\ lockFile = "none"
    /\ server = [s \in Servers |-> "off"]
    /\ loaded = [s \in Servers |-> 0]
    /\ label = [s \in Servers |-> 0]
    /\ inbox = [s \in Servers |-> {}]
    /\ client = [c \in Clients |-> "idle"]
    /\ snapshot = [c \in Clients |-> NoInfo]
    /\ ctl = "idle"
    /\ ctlTarget = NoInfo
    /\ faults = 0

-----------------------------------------------------------------------------
(* What the processes can tell of each other.                              *)

\* The kernel holds s's port: a datagram is queued, not refused.
Listening(s) ==
    server[s] \in {"bound", "published", "serving", "closing", "unpublishing",
                   "draining"}

\* server.json, statusline-ctl or one of these clients remembers s by its pid.
Named(s, clients) ==
    \/ infoFile # NoInfo /\ infoFile.pid = s
    \/ ctlTarget # NoInfo /\ ctlTarget.pid = s
    \/ \E c \in clients : snapshot[c] # NoInfo /\ snapshot[c].pid = s

\* A datagram to s: queued if the port is bound, though a full socket buffer
\* drops it, and refused otherwise.
Deliver(s, datagram) ==
    \/ /\ Listening(s)
       /\ inbox' = [inbox EXCEPT ![s] = @ \cup {datagram}]
    \/ UNCHANGED inbox

\* The spawns under way: a client between winning the lock and starting the
\* process, and a server between starting and giving the lock back.
InFlight ==
    {c \in Clients : client[c] \in {"holding", "spawning", "releasing"}}
      \cup {s \in Servers : server[s] \in {"starting", "loaded", "bound", "published"}}

-----------------------------------------------------------------------------
(* A client: one render, or one --ensure-server.                           *)

Goto(c, phase) ==
    /\ client' = [client EXCEPT ![c] = phase]
    /\ UNCHANGED snapshot

\* The process ends; what it left unread in a socket reaches nobody.
Leave(c) ==
    /\ client' = [client EXCEPT ![c] = "idle"]
    /\ snapshot' = [snapshot EXCEPT ![c] = NoInfo]
    /\ inbox' = [s \in Servers |-> inbox[s] \ {c}]

\* read_server_info
ReadInfo(c) ==
    /\ client[c] = "idle"
    /\ client' = [client EXCEPT ![c] = "read"]
    /\ snapshot' = [snapshot EXCEPT ![c] = infoFile]
    /\ UNCHANGED <<checkout, infoFile, lockFile, serverVars, ctlVars, faults>>

\* Mutant of Classify: the version is not compared.
ClassifyIgnoringVersion(c) ==
    /\ client[c] = "read"
    /\ Goto(c, IF snapshot[c] = NoInfo THEN "claiming" ELSE "sending")
    /\ UNCHANGED <<checkout, infoFile, lockFile, serverVars, ctlVars, faults>>

\* classify_failure before anything is sent.
Classify(c) ==
    /\ client[c] = "read"
    /\ Goto(c, IF snapshot[c] = NoInfo THEN "claiming"
               ELSE IF snapshot[c].version # checkout THEN "retiring"
               ELSE "sending")
    /\ UNCHANGED <<checkout, infoFile, lockFile, serverVars, ctlVars, faults>>

\* Mutant of SendRequest: a refused datagram counts as silence.
SendRequestRefusalIsSilence(c) ==
    /\ client[c] = "sending"
    /\ IF Listening(snapshot[c].pid)
       THEN Goto(c, "waiting") /\ Deliver(snapshot[c].pid, c)
       ELSE Leave(c)
    /\ UNCHANGED <<checkout, infoFile, lockFile, server, loaded, label, ctlVars, faults>>

\* request_render: a bound port takes the datagram, any other refuses it,
\* and a refusal is "dead" whatever the version says.
SendRequest(c) ==
    /\ client[c] = "sending"
    /\ IF Listening(snapshot[c].pid)
       THEN /\ Goto(c, "waiting")
            /\ Deliver(snapshot[c].pid, c)
       ELSE /\ Goto(c, "claiming")
            /\ UNCHANGED inbox
    /\ UNCHANGED <<checkout, infoFile, lockFile, server, loaded, label, ctlVars, faults>>

\* 150 ms without a reply: "silent", which spawns nothing, unless the checkout
\* has moved since the first comparison.
TimeOut(c) ==
    /\ client[c] = "waiting"
    /\ IF snapshot[c].version # checkout
       THEN /\ Goto(c, "retiring")
            /\ inbox' = [s \in Servers |-> inbox[s] \ {c}]
       ELSE Leave(c)
    /\ UNCHANGED <<checkout, infoFile, lockFile, server, loaded, label, ctlVars, faults>>

PrintReply(c) ==
    /\ client[c] = "answered"
    /\ Leave(c)
    /\ UNCHANGED <<checkout, infoFile, lockFile, server, loaded, label, ctlVars, faults>>

\* ensure_server on a "version" failure: ask the superseded server to stop.
RetireServer(c) ==
    /\ client[c] = "retiring"
    /\ Goto(c, "claiming")
    /\ Deliver(snapshot[c].pid, "shutdown")
    /\ UNCHANGED <<checkout, infoFile, lockFile, server, loaded, label, ctlVars, faults>>

\* claim_spawn_lock: the exclusive creation.
ClaimLock(c) ==
    /\ client[c] = "claiming"
    /\ IF lockFile = "none"
       THEN lockFile' = "fresh" /\ Goto(c, "holding")
       ELSE UNCHANGED lockFile /\ Goto(c, "contended")
    /\ UNCHANGED <<checkout, infoFile, serverVars, ctlVars, faults>>

\* _lock_is_stale: a lock that has gone meanwhile counts as held.
CheckStale(c) ==
    /\ client[c] = "contended"
    /\ IF lockFile = "stale"
       THEN Goto(c, "removing") /\ UNCHANGED inbox
       ELSE Leave(c)
    /\ UNCHANGED <<checkout, infoFile, lockFile, server, loaded, label, ctlVars, faults>>

\* os.remove takes whatever file has the name by now.
RemoveStaleLock(c) ==
    /\ client[c] = "removing"
    /\ lockFile' = "none"
    /\ Goto(c, "reclaiming")
    /\ UNCHANGED <<checkout, infoFile, serverVars, ctlVars, faults>>

ReclaimLock(c) ==
    /\ client[c] = "reclaiming"
    /\ IF lockFile = "none"
       THEN lockFile' = "fresh" /\ Goto(c, "holding") /\ UNCHANGED inbox
       ELSE UNCHANGED lockFile /\ Leave(c)
    /\ UNCHANGED <<checkout, infoFile, server, loaded, label, ctlVars, faults>>

\* Mutant of Recheck: the decision stands on the first reading.
RecheckSkipped(c) ==
    /\ client[c] = "holding"
    /\ Goto(c, "spawning")
    /\ UNCHANGED <<checkout, infoFile, lockFile, serverVars, ctlVars, faults>>

\* ensure_server reads server.json again under the lock and stands down when
\* another client's replacement, of the checkout's version, is published.
Recheck(c) ==
    /\ client[c] = "holding"
    /\ LET replaced == infoFile # NoInfo /\ infoFile # snapshot[c]
       IN  Goto(c, IF replaced /\ infoFile.version = checkout
                   THEN "releasing" ELSE "spawning")
    /\ UNCHANGED <<checkout, infoFile, lockFile, serverVars, ctlVars, faults>>

\* _spawn: the new process has a pid nothing remembers.
Spawn(c, s) ==
    /\ client[c] = "spawning"
    /\ server[s] \in {"off", "crashed"}
    /\ ~Named(s, Clients \ {c})
    /\ client' = [client EXCEPT ![c] = "idle"]
    /\ snapshot' = [snapshot EXCEPT ![c] = NoInfo]
    /\ server' = [server EXCEPT ![s] = "starting"]
    /\ UNCHANGED <<checkout, infoFile, lockFile, loaded, label, inbox, ctlVars, faults>>

\* The launch raises OSError; the lock goes back.
SpawnFails(c) ==
    /\ client[c] = "spawning"
    /\ faults < MaxFaults
    /\ faults' = faults + 1
    /\ Goto(c, "releasing")
    /\ UNCHANGED <<checkout, infoFile, lockFile, serverVars, ctlVars>>

ReleaseLock(c) ==
    /\ client[c] = "releasing"
    /\ lockFile' = "none"
    /\ Leave(c)
    /\ UNCHANGED <<checkout, infoFile, server, loaded, label, ctlVars, faults>>

\* The harness may kill a statusline command at any point.
KillClient(c) ==
    /\ client[c] # "idle"
    /\ faults < MaxFaults
    /\ faults' = faults + 1
    /\ Leave(c)
    /\ UNCHANGED <<checkout, infoFile, lockFile, server, loaded, label, ctlVars>>

ClientStep(c) ==
    \/ Classify(c) \/ SendRequest(c) \/ TimeOut(c) \/ PrintReply(c)
    \/ RetireServer(c) \/ ClaimLock(c) \/ CheckStale(c) \/ RemoveStaleLock(c)
    \/ ReclaimLock(c) \/ Recheck(c) \/ (\E s \in Servers : Spawn(c, s))
    \/ ReleaseLock(c)

-----------------------------------------------------------------------------
(* A server: server_entry.serve, that is bind, serve_forever and close.    *)

\* The interpreter imports the package: this is the code it will run.
Import(s) ==
    /\ server[s] = "starting"
    /\ server' = [server EXCEPT ![s] = "loaded"]
    /\ loaded' = [loaded EXCEPT ![s] = checkout]
    /\ UNCHANGED <<checkout, infoFile, lockFile, label, inbox, clientVars, ctlVars, faults>>

\* Mutant of Bind: the lock is cleared ahead of server.json.
BindClearsSpawnLock(s) ==
    /\ server[s] = "loaded"
    /\ server' = [server EXCEPT ![s] = "bound"]
    /\ label' = [label EXCEPT ![s] = checkout]
    /\ lockFile' = "none"
    /\ UNCHANGED <<checkout, infoFile, loaded, inbox, clientVars, ctlVars, faults>>

\* bind: the socket, the pool, then the digest of the sources as they are now.
Bind(s) ==
    /\ server[s] = "loaded"
    /\ server' = [server EXCEPT ![s] = "bound"]
    /\ label' = [label EXCEPT ![s] = checkout]
    /\ UNCHANGED <<checkout, infoFile, lockFile, loaded, inbox, clientVars, ctlVars, faults>>

\* Mutant of PublishInfo: a record without a version.
PublishInfoWithoutVersion(s) ==
    /\ server[s] = "bound"
    /\ server' = [server EXCEPT ![s] = "published"]
    /\ infoFile' = [pid |-> s]
    /\ UNCHANGED <<checkout, lockFile, loaded, label, inbox, clientVars, ctlVars, faults>>

\* write_server_info: os.replace takes the place of any file there.
PublishInfo(s) ==
    /\ server[s] = "bound"
    /\ server' = [server EXCEPT ![s] = "published"]
    /\ infoFile' = [pid |-> s, version |-> label[s]]
    /\ UNCHANGED <<checkout, lockFile, loaded, label, inbox, clientVars, ctlVars, faults>>

\* clear_spawn_lock removes the lock, whoever wrote it.
ClearSpawnLock(s) ==
    /\ server[s] = "published"
    /\ server' = [server EXCEPT ![s] = "serving"]
    /\ lockFile' = "none"
    /\ UNCHANGED <<checkout, infoFile, loaded, label, inbox, clientVars, ctlVars, faults>>

\* handle_request: a render that raises answers nothing.
HandleRequest(s, c) ==
    /\ server[s] = "serving"
    /\ c \in inbox[s]
    /\ inbox' = [inbox EXCEPT ![s] = @ \ {c}]
    /\ \/ Goto(c, "answered")
       \/ UNCHANGED clientVars
    /\ UNCHANGED <<checkout, infoFile, lockFile, server, loaded, label, ctlVars, faults>>

HandleShutdown(s) ==
    /\ server[s] = "serving"
    /\ "shutdown" \in inbox[s]
    /\ inbox' = [inbox EXCEPT ![s] = @ \ {"shutdown"}]
    /\ server' = [server EXCEPT ![s] = "closing"]
    /\ UNCHANGED <<checkout, infoFile, lockFile, loaded, label, clientVars, ctlVars, faults>>

\* A receive poll finds no datagram and the idle window over.
IdleExit(s) ==
    /\ server[s] = "serving"
    /\ inbox[s] = {}
    /\ server' = [server EXCEPT ![s] = "closing"]
    /\ UNCHANGED <<checkout, infoFile, lockFile, loaded, label, inbox, clientVars, ctlVars, faults>>

\* Mutant of CloseReadsInfo: the pool and the socket go, the file stays.
CloseKeepsInfo(s) ==
    /\ server[s] = "closing"
    /\ server' = [server EXCEPT ![s] = "draining"]
    /\ UNCHANGED <<checkout, infoFile, lockFile, loaded, label, inbox, clientVars, ctlVars, faults>>

\* close: is the file on disk still this server's?
CloseReadsInfo(s) ==
    /\ server[s] = "closing"
    /\ server' = [server EXCEPT ![s] =
                     IF infoFile # NoInfo /\ infoFile.pid = s
                     THEN "unpublishing" ELSE "draining"]
    /\ UNCHANGED <<checkout, infoFile, lockFile, loaded, label, inbox, clientVars, ctlVars, faults>>

\* remove_server_info, on the answer read a moment ago.
CloseRemovesInfo(s) ==
    /\ server[s] = "unpublishing"
    /\ server' = [server EXCEPT ![s] = "draining"]
    /\ infoFile' = NoInfo
    /\ UNCHANGED <<checkout, lockFile, loaded, label, inbox, clientVars, ctlVars, faults>>

\* The pool has stopped; the socket goes last, with the datagrams in it.
CloseSocket(s) ==
    /\ server[s] = "draining"
    /\ server' = [server EXCEPT ![s] = "off"]
    /\ inbox' = [inbox EXCEPT ![s] = {}]
    /\ loaded' = [loaded EXCEPT ![s] = 0]
    /\ label' = [label EXCEPT ![s] = 0]
    /\ UNCHANGED <<checkout, infoFile, lockFile, clientVars, ctlVars, faults>>

\* The process dies, or bind() raises: either way server.json and the lock
\* are left as they are.
CrashServer(s) ==
    /\ server[s] \notin {"off", "crashed"}
    /\ faults < MaxFaults
    /\ faults' = faults + 1
    /\ server' = [server EXCEPT ![s] = "crashed"]
    /\ inbox' = [inbox EXCEPT ![s] = {}]
    /\ loaded' = [loaded EXCEPT ![s] = 0]
    /\ label' = [label EXCEPT ![s] = 0]
    /\ UNCHANGED <<checkout, infoFile, lockFile, clientVars, ctlVars>>

ServerStep(s) ==
    \/ Import(s) \/ Bind(s) \/ PublishInfo(s) \/ ClearSpawnLock(s)
    \/ (\E c \in Clients : HandleRequest(s, c)) \/ HandleShutdown(s)
    \/ CloseReadsInfo(s) \/ CloseRemovesInfo(s) \/ CloseSocket(s)

-----------------------------------------------------------------------------
(* statusline-ctl server stop (and the first half of server restart, whose *)
(* second half is a client run with --ensure-server).                      *)

CtlReadInfo ==
    /\ ctl = "idle"
    /\ faults < MaxFaults
    /\ faults' = faults + 1
    /\ ctlTarget' = infoFile
    /\ ctl' = IF infoFile = NoInfo THEN "stopped" ELSE "asking"
    /\ UNCHANGED <<checkout, infoFile, lockFile, serverVars, clientVars>>

CtlRequestShutdown ==
    /\ ctl = "asking"
    /\ ctl' = "polling"
    /\ Deliver(ctlTarget.pid, "shutdown")
    /\ UNCHANGED <<checkout, infoFile, lockFile, server, loaded, label, clientVars,
                   ctlTarget, faults>>

\* wait_until_gone: no file at the path, or two seconds are over.
CtlPoll ==
    /\ ctl = "polling"
    /\ ctl' = IF infoFile = NoInfo THEN "stopped" ELSE "gaveup"
    /\ UNCHANGED <<checkout, infoFile, lockFile, serverVars, clientVars, ctlTarget,
                   faults>>

CtlReport ==
    /\ ctl \in {"stopped", "gaveup"}
    /\ ctl' = "idle"
    /\ ctlTarget' = NoInfo
    /\ UNCHANGED <<checkout, infoFile, lockFile, serverVars, clientVars, faults>>

-----------------------------------------------------------------------------
(* The world: the checkout moves, the lock file grows old.                 *)

MoveCheckout ==
    /\ checkout < MaxVersion
    /\ checkout' = checkout + 1
    /\ UNCHANGED <<infoFile, lockFile, serverVars, clientVars, ctlVars, faults>>

LockAges ==
    /\ lockFile = "fresh"
    /\ Aging # "never"
    /\ InFlight # {} => Aging = "any"
    /\ lockFile' = "stale"
    /\ UNCHANGED <<checkout, infoFile, serverVars, clientVars, ctlVars, faults>>

Next ==
    \/ \E c \in Clients : ReadInfo(c) \/ ClientStep(c) \/ SpawnFails(c) \/ KillClient(c)
    \/ \E s \in Servers : ServerStep(s) \/ IdleExit(s) \/ CrashServer(s)
    \/ CtlReadInfo \/ CtlRequestShutdown \/ CtlPoll \/ CtlReport
    \/ MoveCheckout
    \/ LockAges

Spec == Init /\ [][Next]_vars

\* A client finds its servers in server.json and nowhere else.
Reachable(s) ==
    \/ infoFile # NoInfo /\ infoFile.pid = s
    \/ \E c \in Clients : /\ client[c] \in {"read", "sending", "waiting"}
                          /\ snapshot[c] # NoInfo
                          /\ snapshot[c].pid = s

\* A process that is not killed keeps running; renders keep coming; a server
\* no client can reach gets no more requests, so its idle window ends; and a
\* lock left alone reaches its staleness age.
Fairness ==
    /\ \A c \in Clients : WF_vars(ReadInfo(c)) /\ WF_vars(ClientStep(c))
    /\ \A s \in Servers :
          /\ WF_vars(ServerStep(s))
          /\ WF_vars(~Reachable(s) /\ IdleExit(s))
    /\ WF_vars(CtlRequestShutdown) /\ WF_vars(CtlPoll) /\ WF_vars(CtlReport)
    /\ WF_vars(LockAges)

FairSpec == Spec /\ Fairness

-----------------------------------------------------------------------------
(* What the protocol promises.                                             *)

\* server.json leads a client to a live server running its checkout.
Healthy ==
    /\ infoFile # NoInfo
    /\ infoFile.version = checkout
    /\ server[infoFile.pid] \in {"published", "serving"}

\* While no lock outlives its ten seconds, of all the clients that find the
\* server missing, dead or superseded at most one has a spawn under way, and
\* none begins another before the server it started has published and cleared
\* the lock (ensure_server, claim_spawn_lock, Server.bind).
AtMostOneSpawn == \A x, y \in InFlight : x = y

\* While no lock outlives its ten seconds, no spawn is under way past the
\* second look at server.json while that file leads to a live server of the
\* checkout's version: the pile-up the lock exists to prevent.
NoPileUp ==
    Healthy =>
      /\ \A c \in Clients : client[c] # "spawning"
      /\ \A s \in Servers : server[s] \notin {"starting", "loaded", "bound"}

\* A server that has closed without crashing never leaves a server.json that
\* names it, from the moment it stops waiting for datagrams to the moment its
\* pid is used again (Server.close removes the file before it drains).
CleanExitUnpublishes ==
    infoFile # NoInfo => server[infoFile.pid] \notin {"draining", "off"}

\* A closing server removes no server.json but its own.
RemovesOnlyOwnInfo ==
    [][infoFile # NoInfo /\ infoFile' = NoInfo
         => server[infoFile.pid] = "unpublishing"]_vars

\* A reply comes from the code whose version the client compared.
AnswersFromLabelledCode ==
    \A c \in Clients :
        client[c] = "answered" => loaded[snapshot[c].pid] = snapshot[c].version

\* "server stopped" means that the port of the server asked is free.
StoppedMeansPortFree ==
    ctl = "stopped" /\ ctlTarget # NoInfo => ~Listening(ctlTarget.pid)

\* However servers crash, clients are killed, launches fail, datagrams get lost
\* and the checkout moves, clients that keep rendering end up with server.json
\* leading to a live server of their checkout, again and again.
AlwaysRecovers == []<>Healthy

\* A server left behind by the checkout, named by server.json or not, does not
\* serve for ever.
SupersededServerEnds ==
    \A s \in Servers :
        (server[s] = "serving" /\ label[s] # checkout) ~> server[s] # "serving"
=============================================================================
