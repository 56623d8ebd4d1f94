----------------------------- MODULE SelfHosting -----------------------------
(***************************************************************************)
(* The PostgreSQL servers that Glom processes start for the documents they *)
(* open: src/glom/libglom/connectionpool_backends/postgres_self.cc and the *)
(* waiting of src/glom/libglom/spawn_with_feedback.cc.  Several processes  *)
(* run on one computer (the application is not unique), may open the same  *)
(* document, and share its data directory and the ports.                   *)
(*                                                                         *)
(* A server is a process of its own.  It first takes the lock of its data  *)
(* directory, then binds its port; pg_ctl sees only the lock.  Glom waits  *)
(* for it in nested main loops, so that every wait is a state here.        *)
(***************************************************************************)
EXTENDS Integers, FiniteSets

CONSTANTS
    Gloms,          \* Glom processes
    Documents,      \* self-hosted documents, each with its data directory
    Servers,        \* server processes
    Ports,          \* PORT_POSTGRESQL_SELF_HOSTED_START .. _END
    MaxRetries,     \* MAX_RETRIES_KNOWN_PASSWORD: no caller asks for sharing
    SlowServers,    \* may a server look at its lock only after the first poll?
    NoGlom, NoDocument, NoServer

ASSUME HostingAssumption ==
    /\ Ports \subseteq Nat \ {0}
    /\ MaxRetries \in Nat
    /\ SlowServers \in BOOLEAN
    /\ NoGlom \notin Gloms
    /\ NoDocument \notin Documents
    /\ NoServer \notin Servers

VARIABLES
    glom,       \* what each process is doing, and its backend object
    server,     \* the server processes
    directory,  \* what is on the disk of each document
    foreign     \* ports that other programs have bound

vars == <<glom, server, directory, foreign>>

-----------------------------------------------------------------------------
(* Types and initial values *)

Steps == {"closed", "starting", "connecting", "open", "stopping", "crashed"}
Reasons == {"none", "open", "create", "use"}
Ended == {"failed", "finished"}               \* by the exit status that waitpid() gives
Phases == {"unused", "spawned", "locked", "ready"} \union Ended

Glom ==
    [step    : Steps,
     why     : Reasons,                       \* what a "connecting" is for
     doc     : Documents \union {NoDocument},
     port    : Ports \union {0},              \* m_port
     trying  : Ports \union {0},              \* available_port in startup()
     child   : Servers \union {NoServer},     \* the SpawnInfo that startup() watches
     retries : 0 .. MaxRetries]               \* count_retries in connect()

Server ==
    [phase : Phases,
     doc   : Documents \union {NoDocument},
     port  : Ports \union {0},
     owner : Gloms \union {NoGlom}]           \* whose backend object started it

Closed == [step |-> "closed", why |-> "none", doc |-> NoDocument, port |-> 0,
           trying |-> 0, child |-> NoServer, retries |-> 0]

NoProcess == [phase |-> "unused", doc |-> NoDocument, port |-> 0, owner |-> NoGlom]

Init ==
    /\ glom = [g \in Gloms |-> Closed]
    /\ server = [s \in Servers |-> NoProcess]
    /\ directory \in [Documents -> {"none", "data"}]
    /\ foreign = {}

-----------------------------------------------------------------------------
(* The disk, the ports and the processes *)

\* The server whose lock file is in the data directory of d.
Holders(d) == {s \in Servers : server[s].doc = d /\ server[s].phase \in {"locked", "ready"}}

Bound(p) == p \in foreign \/ \E s \in Servers : server[s].phase = "ready" /\ server[s].port = p

FreePorts == {p \in Ports : ~Bound(p)}

\* discover_first_free_port()
FirstFreePort == CHOOSE p \in FreePorts : \A q \in FreePorts : p <= q

\* Who waits for the exit of s in startup().
Watched(s) == \E g \in Gloms : glom[g].step = "starting" /\ glom[g].child = s

\* What is left of a server that exits: a zombie for the one who watches it.
Exited(s, how) == IF Watched(s) THEN [server[s] EXCEPT !.phase = how] ELSE NoProcess

\* The servers of a process that ends without stopping them.
Disowned(g) ==
    [s \in Servers |->
        IF server[s].owner # g THEN server[s]
        ELSE IF server[s].phase \in Ended THEN NoProcess
        ELSE [server[s] EXCEPT !.owner = NoGlom]]

-----------------------------------------------------------------------------
(* Opening and creating a document *)

\* startup() by a fresh backend object, from the choice of a port to the
\* nested main loop.  Nothing starts where no port is free.
StartUp(g, d, why) ==
    \/ FreePorts = {} /\ UNCHANGED <<glom, server>>
    \/ /\ FreePorts # {}
       /\ \E s \in Servers :
             /\ server[s].phase = "unused"
             /\ server' = [server EXCEPT ![s] =
                   [phase |-> "spawned", doc |-> d, port |-> FirstFreePort, owner |-> g]]
             /\ glom' = [glom EXCEPT ![g] =
                   [Closed EXCEPT !.step = "starting", !.why = why, !.doc = d,
                                  !.trying = FirstFreePort, !.child = s]]

\* on_document_load(), connection_request_password_and_attempt().
Open(g, d) ==
    /\ glom[g].step = "closed" /\ directory[d] # "none"
    /\ StartUp(g, d, "open")
    /\ UNCHANGED <<directory, foreign>>

\* connection_request_password_and_choose_new_database_name(): initialize()
\* makes the directory and runs initdb, which may fail and leave it there.
Create(g, d, ok) ==
    /\ glom[g].step = "closed" /\ directory[d] = "none"
    /\ directory' = [directory EXCEPT ![d] = IF ok THEN "data" ELSE "partial"]
    /\ IF ok THEN StartUp(g, d, "create") ELSE UNCHANGED <<glom, server>>
    /\ UNCHANGED foreign

-----------------------------------------------------------------------------
(* A server process *)

ServerLocks(s) ==
    /\ server[s].phase = "spawned"
    /\ directory[server[s].doc] = "data" /\ Holders(server[s].doc) = {}
    /\ server' = [server EXCEPT ![s].phase = "locked"]
    /\ UNCHANGED <<glom, directory, foreign>>

\* Somebody else's server has the data directory, or there is no database in it.
ServerRefuses(s) ==
    /\ server[s].phase = "spawned"
    /\ directory[server[s].doc] # "data" \/ Holders(server[s].doc) # {}
    /\ server' = [server EXCEPT ![s] = Exited(s, "failed")]
    /\ UNCHANGED <<glom, directory, foreign>>

\* The port was free when discover_first_free_port() looked; is it still?
ServerBinds(s) ==
    /\ server[s].phase = "locked"
    /\ server' = [server EXCEPT ![s] = IF Bound(server[s].port) THEN Exited(s, "failed")
                                       ELSE [@ EXCEPT !.phase = "ready"]]
    /\ UNCHANGED <<glom, directory, foreign>>

\* It crashes, or somebody asks it to shut down, which is a success.
ServerDies(s) ==
    /\ server[s].phase \in {"locked", "ready"}
    /\ \E how \in Ended : server' = [server EXCEPT ![s] = Exited(s, how)]
    /\ UNCHANGED <<glom, directory, foreign>>

-----------------------------------------------------------------------------
(* Waiting for the server *)

\* The end of a startup() that succeeds: m_port = available_port.
Connecting(g) == [glom[g] EXCEPT !.step = "connecting", !.port = glom[g].trying,
                                 !.trying = 0, !.child = NoServer]

\* second_command_on_timeout(): "pg_ctl status" says that a server runs in the
\* data directory, whichever it is.  The first poll comes a second after the
\* child was spawned, and its nested main loop notices an exit: unless servers
\* are slow, the child still runs.
PollSaysRunning(g) ==
    LET s == glom[g].child
    IN  /\ glom[g].step = "starting" /\ Holders(glom[g].doc) # {}
        /\ SlowServers \/ server[s].phase \in {"locked", "ready"}
        /\ glom' = [glom EXCEPT ![g] = Connecting(g)]
        /\ server' = [server EXCEPT ![s] = IF @.phase \in Ended THEN NoProcess ELSE @]
        /\ UNCHANGED <<directory, foreign>>

\* Mutant: a startup() that gives up after a while, whatever the child does.
ChildExitedOrSlow(g) ==
    /\ glom[g].step = "starting"
    /\ glom' = [glom EXCEPT ![g] = Closed]
    /\ server' = [server EXCEPT ![glom[g].child] = IF @.phase \in Ended THEN NoProcess ELSE @]
    /\ UNCHANGED <<directory, foreign>>

\* on_child_watch(): startup() fails, and the document is not opened.  But the
\* status of a server that somebody else's "pg_ctl stop" stopped is success, and
\* for that startup() remembers the port, as if the server ran.
ChildExited(g) ==
    LET s == glom[g].child
    IN  /\ glom[g].step = "starting"
        /\ \/ /\ server[s].phase = "failed"
              /\ glom' = [glom EXCEPT ![g] = Closed]
           \/ /\ server[s].phase = "finished"
              /\ glom' = [glom EXCEPT ![g] = Connecting(g)]
        /\ server' = [server EXCEPT ![s] = NoProcess]
        /\ UNCHANGED <<directory, foreign>>

-----------------------------------------------------------------------------
(* Connecting: connect() and attempt_connect() *)

\* Some server answers at the remembered port.
Answers(g) == \E s \in Servers : server[s].phase = "ready" /\ server[s].port = glom[g].port

ConnectSucceeds(g) ==
    /\ glom[g].step = "connecting" /\ Answers(g)
    /\ glom' = [glom EXCEPT ![g].step = "open", ![g].why = "none", ![g].retries = 0]
    /\ UNCHANGED <<server, directory, foreign>>

\* The server has no such database, or it could not be created: cleanup().  In
\* an open document the exception is only shown.
NoDatabase(g) ==
    /\ glom[g].step = "connecting" /\ Answers(g)
    /\ glom' = [glom EXCEPT ![g].step = IF glom[g].why = "use" THEN "open" ELSE "stopping",
                            ![g].why = "none", ![g].retries = 0]
    /\ UNCHANGED <<server, directory, foreign>>

\* A document that says it is shared asks for a user first; cancelling cleans up.
CancelDialog(g) ==
    /\ glom[g].step = "connecting" /\ glom[g].why = "open" /\ glom[g].retries = 0
    /\ glom' = [glom EXCEPT ![g].step = "stopping", ![g].why = "none"]
    /\ UNCHANGED <<server, directory, foreign>>

\* Mutant: one retry too many.
FailToConnectOnceMore(g) ==
    /\ glom[g].step = "connecting"
    /\ \/ /\ glom[g].retries <= MaxRetries
          /\ glom' = [glom EXCEPT ![g].retries = @ + 1]
       \/ /\ glom[g].retries > MaxRetries
          /\ glom' = [glom EXCEPT ![g].step = "crashed", ![g].why = "none", ![g].retries = 0]
    /\ UNCHANGED <<server, directory, foreign>>

\* Mutant: the retries are not counted.
FailToConnectForever(g) ==
    /\ glom[g].step = "connecting"
    /\ glom' = [glom EXCEPT ![g].retries = 0]
    /\ UNCHANGED <<server, directory, foreign>>

\* No server answers, or it refuses the user: wait for a second and try again,
\* until the null connection crashes the caller.
FailToConnect(g) ==
    /\ glom[g].step = "connecting"
    /\ \/ /\ glom[g].retries < MaxRetries
          /\ glom' = [glom EXCEPT ![g].retries = @ + 1]
       \/ /\ glom[g].retries >= MaxRetries
          /\ glom' = [glom EXCEPT ![g].step = "crashed", ![g].why = "none", ![g].retries = 0]
    /\ UNCHANGED <<server, directory, foreign>>

\* The pool has closed its idle connection, and somebody needs one again.
Use(g) ==
    /\ glom[g].step = "open"
    /\ glom' = [glom EXCEPT ![g].step = "connecting", ![g].why = "use"]
    /\ UNCHANGED <<server, directory, foreign>>

-----------------------------------------------------------------------------
(* Stopping: cleanup() *)

Close(g) ==
    /\ glom[g].step = "open"
    /\ glom' = [glom EXCEPT ![g].step = "stopping"]
    /\ UNCHANGED <<server, directory, foreign>>

\* "pg_ctl stop" goes by the data directory.
StopSucceeds(g) ==
    /\ glom[g].step = "stopping"
    /\ \E s \in Holders(glom[g].doc) : server' = [server EXCEPT ![s] = Exited(s, "finished")]
    /\ glom' = [glom EXCEPT ![g] = Closed]
    /\ UNCHANGED <<directory, foreign>>

\* show_active_connections() crashes before the second try: the pool that it
\* asks for the connections is not ready any more.
StopFails(g) ==
    /\ glom[g].step = "stopping"
    /\ glom' = [glom EXCEPT ![g].step = "crashed"]
    /\ UNCHANGED <<server, directory, foreign>>

\* on_linux_signal(): cleanup() once more, and the process ends.
EndAfterCrash(g) ==
    /\ glom[g].step = "crashed"
    /\ glom' = [glom EXCEPT ![g] = Closed]
    /\ \/ server' = Disowned(g)
       \/ \E s \in Holders(glom[g].doc) : server' = [Disowned(g) EXCEPT ![s] = Exited(s, "finished")]
    /\ UNCHANGED <<directory, foreign>>

Kill(g) ==
    /\ glom[g].step # "closed"
    /\ glom' = [glom EXCEPT ![g] = Closed]
    /\ server' = Disowned(g)
    /\ UNCHANGED <<directory, foreign>>

OtherProgram(p) ==
    /\ foreign' = IF p \in foreign THEN foreign \ {p} ELSE foreign \union {p}
    /\ p \notin foreign => ~Bound(p)
    /\ UNCHANGED <<glom, server, directory>>

-----------------------------------------------------------------------------

ServerStep(s) == ServerLocks(s) \/ ServerRefuses(s) \/ ServerBinds(s)

GlomStep(g) ==
    \/ \E d \in Documents : Open(g, d)
    \/ \E d \in Documents, ok \in BOOLEAN : Create(g, d, ok)
    \/ PollSaysRunning(g)
    \/ ChildExited(g)
    \/ ConnectSucceeds(g)
    \/ NoDatabase(g)
    \/ CancelDialog(g)
    \/ FailToConnect(g)
    \/ Use(g)
    \/ Close(g)
    \/ StopSucceeds(g)
    \/ StopFails(g)
    \/ EndAfterCrash(g)
    \/ Kill(g)

Next ==
    \/ \E g \in Gloms : GlomStep(g)
    \/ \E s \in Servers : ServerStep(s) \/ ServerDies(s)
    \/ \E p \in Ports : OtherProgram(p)

Spec == Init /\ [][Next]_vars

\* The operating system runs the servers, and the nested main loops turn: the
\* poll, the child watch, the one-second delay and pg_ctl all come back.
Fairness ==
    /\ \A s \in Servers : WF_vars(ServerStep(s))
    /\ \A g \in Gloms :
          /\ WF_vars(PollSaysRunning(g))
          /\ WF_vars(ChildExited(g))
          /\ WF_vars(ConnectSucceeds(g) \/ NoDatabase(g) \/ FailToConnect(g))
          /\ WF_vars(StopSucceeds(g) \/ StopFails(g))
          /\ WF_vars(EndAfterCrash(g))

FairSpec == Spec /\ Fairness

-----------------------------------------------------------------------------
(* Properties *)

\* Every process has a value of its type.
TypeOK ==
    /\ glom \in [Gloms -> Glom]
    /\ server \in [Servers -> Server]
    /\ directory \in [Documents -> {"none", "partial", "data"}]
    /\ foreign \subseteq Ports

\* No path through startup(), connect() and cleanup() forgets a server: while a
\* server's Glom lives, its backend object still watches it as its child, or
\* remembers its port for cleanup().
KnowsItsServer ==
    \A s \in Servers, g \in Gloms :
        (server[s].owner = g /\ server[s].phase \notin Ended) =>
            /\ glom[g].step # "closed"
            /\ glom[g].doc = server[s].doc
            /\ glom[g].child = s \/ glom[g].port = server[s].port

\* The waits without a time limit end all the same: whoever starts, connects
\* or stops has the document open, or closed, some time.
EveryWaitEnds ==
    \A g \in Gloms : (glom[g].step \notin {"open", "closed"}) ~> (glom[g].step \in {"open", "closed"})

=============================================================================
