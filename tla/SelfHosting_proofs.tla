-------------------------- MODULE SelfHosting_proofs --------------------------
(***************************************************************************)
(* KnowsItsServer for any number of Gloms, documents, servers and ports.   *)
(* The invariant that carries it says who watches whom: only a starting    *)
(* Glom has a child; a server that is still looking for its lock, or has   *)
(* exited unnoticed, is somebody's child or nobody's; and one data         *)
(* directory has one holder, so that "pg_ctl stop", which goes by the      *)
(* directory, stops exactly the server its Glom remembers.                 *)
(***************************************************************************)
EXTENDS SelfHosting, WellFoundedInduction, TLAPS

\* A starting Glom watches the server it spawned, and nobody else watches one.
Watches ==
    \A g \in Gloms :
        IF glom[g].step = "starting"
        THEN LET s == glom[g].child
             IN  /\ s \in Servers
                 /\ server[s].owner = g /\ server[s].phase # "unused"
                 /\ server[s].doc = glom[g].doc /\ server[s].port = glom[g].trying
        ELSE glom[g].child = NoServer

\* The servers of a Glom: its child while it starts, a server that runs afterwards.
Owned ==
    \A s \in Servers, g \in Gloms :
        server[s].owner = g =>
            /\ glom[g].step # "closed" /\ glom[g].doc = server[s].doc
            /\ IF glom[g].step = "starting" THEN glom[g].child = s
               ELSE server[s].phase \in {"locked", "ready"} /\ glom[g].port = server[s].port

\* An unused process belongs to nobody, and an unnoticed exit to somebody.
Unowned ==
    \A s \in Servers :
        /\ server[s].phase = "unused" => server[s].owner = NoGlom
        /\ server[s].phase \in Ended => server[s].owner \in Gloms

\* The lock of a data directory has one holder.
OneHolder ==
    \A s, t \in Servers :
        (/\ server[s].phase \in {"locked", "ready"} /\ server[t].phase \in {"locked", "ready"}
         /\ server[s].doc = server[t].doc) => s = t

WhoseServers == Watches /\ Owned /\ Unowned /\ OneHolder

HostingInv == TypeOK /\ WhoseServers

\* A constant set, that nearly every step below has to see through.
USE DEF Ended

-----------------------------------------------------------------------------
(* Lemmas about the operators *)

\* Every set of ports has a smallest one.
LEMMA LeastPort ==
    ASSUME NEW S, S \subseteq Nat, S # {}
    PROVE  \E p \in S : \A q \in S : p <= q
<1> DEFINE R == {ss \in Nat \X Nat : ss[1] < ss[2]}
<1>1. IsWellFoundedOn(OpToRel(<, Nat), Nat)
  BY NatLessThanWellFounded
<1>2. OpToRel(<, Nat) = R
  BY DEF OpToRel
<1>3. PICK x \in S : \A y \in S : ~(<<y, x>> \in R)
  BY <1>1, <1>2, WFMin
<1>4. ASSUME NEW y \in S PROVE x <= y
  <2>1. x \in Nat /\ y \in Nat
    BY <1>3
  <2>2. <<y, x>> \notin R
    BY <1>3
  <2> QED BY <2>1, <2>2
<1> QED BY <1>4

\* discover_first_free_port() finds a free port where there is one.
LEMMA FreePortFound ==
    ASSUME FreePorts # {} PROVE FirstFreePort \in Ports /\ FirstFreePort # 0
<1>1. FreePorts \subseteq Ports /\ Ports \subseteq Nat \ {0}
  BY HostingAssumption DEF FreePorts
<1>2. \E p \in FreePorts : \A q \in FreePorts : p <= q
  BY <1>1, LeastPort
<1>3. FirstFreePort \in FreePorts
  BY <1>2 DEF FirstFreePort
<1> QED BY <1>1, <1>3

\* What is left of a server is a server, or nothing.
LEMMA ExitedType ==
    ASSUME TypeOK, NEW s \in Servers, NEW how \in Ended PROVE Exited(s, how) \in Server
BY DEF TypeOK, Exited, Server, NoProcess, Phases

LEMMA DisownedType ==
    ASSUME TypeOK, NEW g \in Gloms PROVE Disowned(g) \in [Servers -> Server]
BY DEF TypeOK, Disowned, Server, NoProcess, Phases

LEMMA ConnectingType ==
    ASSUME TypeOK, NEW g \in Gloms PROVE Connecting(g) \in Glom
<1>1. glom[g] \in Glom
  BY DEF TypeOK
<1> QED BY <1>1 DEF Connecting, Glom, Steps

LEMMA ClosedType == Closed \in Glom
BY HostingAssumption DEF Closed, Glom, Steps, Reasons

\* The tail of startup() keeps the types.
LEMMA StartUpType ==
    ASSUME TypeOK, NEW g \in Gloms, NEW d \in Documents, NEW why \in Reasons,
           StartUp(g, d, why)
    PROVE  glom' \in [Gloms -> Glom] /\ server' \in [Servers -> Server]
<1>1. CASE UNCHANGED <<glom, server>>
  BY <1>1 DEF TypeOK
<1>2. CASE FreePorts # {} /\ ~UNCHANGED <<glom, server>>
  <2>1. PICK s \in Servers :
          /\ server' = [server EXCEPT ![s] =
                [phase |-> "spawned", doc |-> d, port |-> FirstFreePort, owner |-> g]]
          /\ glom' = [glom EXCEPT ![g] =
                [Closed EXCEPT !.step = "starting", !.why = why, !.doc = d,
                               !.trying = FirstFreePort, !.child = s]]
    BY <1>2 DEF StartUp
  <2>2. FirstFreePort \in Ports
    BY <1>2, FreePortFound
  <2>3. [phase |-> "spawned", doc |-> d, port |-> FirstFreePort, owner |-> g] \in Server
    BY <2>2 DEF Server, Phases
  <2>4. [Closed EXCEPT !.step = "starting", !.why = why, !.doc = d,
                       !.trying = FirstFreePort, !.child = s] \in Glom
    BY <2>2, ClosedType DEF Glom, Closed, Steps, Reasons
  <2> QED BY <2>1, <2>3, <2>4 DEF TypeOK
<1> QED BY <1>1, <1>2 DEF StartUp

-----------------------------------------------------------------------------
(* Types *)

LEMMA InitType == Init => TypeOK
BY ClosedType DEF Init, TypeOK, Server, NoProcess, Phases

\* Every step keeps the types, whatever the environment does.
LEMMA StepType == ASSUME TypeOK, [Next]_vars PROVE TypeOK'
<1>1. ASSUME NEW g \in Gloms, NEW d \in Documents, Open(g, d) PROVE TypeOK'
  BY <1>1, StartUpType DEF Open, TypeOK, Reasons
<1>2. ASSUME NEW g \in Gloms, NEW d \in Documents, NEW ok \in BOOLEAN, Create(g, d, ok)
      PROVE TypeOK'
  <2>1. directory' \in [Documents -> {"none", "partial", "data"}] /\ foreign' = foreign
    BY <1>2 DEF Create, TypeOK
  <2>2. glom' \in [Gloms -> Glom] /\ server' \in [Servers -> Server]
    BY <1>2, StartUpType DEF Create, TypeOK, Reasons
  <2> QED BY <2>1, <2>2 DEF TypeOK
<1>3. ASSUME NEW s \in Servers, ServerStep(s) \/ ServerDies(s) PROVE TypeOK'
  <2>1. \A f : f = "locked" \/ f = "ready" => [server[s] EXCEPT !.phase = f] \in Server
    BY DEF TypeOK, Server, Phases
  <2> QED BY <1>3, <2>1, ExitedType
        DEF ServerStep, ServerLocks, ServerRefuses, ServerBinds, ServerDies, TypeOK
<1>4. ASSUME NEW g \in Gloms, PollSaysRunning(g) PROVE TypeOK'
  <2>1. glom' \in [Gloms -> Glom]
    BY <1>4, ConnectingType DEF PollSaysRunning, TypeOK
  <2>2. server' \in [Servers -> Server]
    BY <1>4 DEF PollSaysRunning, TypeOK, Server, NoProcess, Phases
  <2> QED BY <1>4, <2>1, <2>2 DEF PollSaysRunning, TypeOK
<1>5. ASSUME NEW g \in Gloms, ChildExited(g) PROVE TypeOK'
  <2>1. glom' \in [Gloms -> Glom]
    BY <1>5, ClosedType, ConnectingType DEF ChildExited, TypeOK
  <2>2. server' \in [Servers -> Server]
    BY <1>5 DEF ChildExited, TypeOK, Server, NoProcess, Phases
  <2> QED BY <1>5, <2>1, <2>2 DEF ChildExited, TypeOK
<1>6. ASSUME NEW g \in Gloms,
             ConnectSucceeds(g) \/ NoDatabase(g) \/ CancelDialog(g) \/ Use(g) \/ Close(g)
               \/ StopFails(g)
      PROVE TypeOK'
  BY <1>6, HostingAssumption
     DEF ConnectSucceeds, NoDatabase, CancelDialog, Use, Close, StopFails,
         TypeOK, Glom, Steps, Reasons
<1>7. ASSUME NEW g \in Gloms, FailToConnect(g) PROVE TypeOK'
  <2>1. glom[g] \in Glom /\ 0 \in 0 .. MaxRetries
    BY HostingAssumption DEF TypeOK
  <2>2. CASE glom' = [glom EXCEPT ![g].step = "crashed", ![g].why = "none", ![g].retries = 0]
    BY <1>7, <2>1, <2>2 DEF FailToConnect, TypeOK, Glom, Steps, Reasons
  <2>3. CASE glom[g].retries < MaxRetries /\ glom' = [glom EXCEPT ![g].retries = @ + 1]
    <3>1. glom[g].retries + 1 \in 0 .. MaxRetries
      BY <2>1, <2>3, HostingAssumption DEF Glom
    <3> QED BY <1>7, <2>1, <2>3, <3>1 DEF FailToConnect, TypeOK, Glom
  <2> QED BY <1>7, <2>2, <2>3 DEF FailToConnect
<1>8. ASSUME NEW g \in Gloms, StopSucceeds(g) PROVE TypeOK'
  BY <1>8, ClosedType, ExitedType DEF StopSucceeds, Holders, TypeOK
<1>9. ASSUME NEW g \in Gloms, EndAfterCrash(g) PROVE TypeOK'
  <2>1. server' \in [Servers -> Server]
    BY <1>9, DisownedType, ExitedType DEF EndAfterCrash, Holders, TypeOK
  <2> QED BY <1>9, <2>1, ClosedType DEF EndAfterCrash, TypeOK
<1>10. ASSUME NEW g \in Gloms, Kill(g) PROVE TypeOK'
  BY <1>10, ClosedType, DisownedType DEF Kill, TypeOK
<1>11. ASSUME NEW p \in Ports, OtherProgram(p) PROVE TypeOK'
  BY <1>11 DEF OtherProgram, TypeOK
<1>12. CASE UNCHANGED vars
  BY <1>12 DEF vars, TypeOK
<1> QED BY <1>1, <1>2, <1>3, <1>4, <1>5, <1>6, <1>7, <1>8, <1>9, <1>10, <1>11, <1>12
     DEF Next, GlomStep

\* Every reachable state is well typed; in particular the count of the retries
\* stays within its limit, and the remembered port is one of Glom's own range.
THEOREM HostingTypeCorrect == Spec => []TypeOK
<1>1. Init => TypeOK
  BY InitType
<1>2. TypeOK /\ [Next]_vars => TypeOK'
  BY StepType
<1> QED BY <1>1, <1>2, PTL DEF Spec

-----------------------------------------------------------------------------
(* Whose servers *)

\* A server that nobody owns cannot be watched.
LEMMA WatchedIsOwned ==
    ASSUME TypeOK, WhoseServers, NEW s \in Servers, Watched(s)
    PROVE  \E g \in Gloms : server[s].owner = g /\ glom[g].step = "starting"
                            /\ glom[g].child = s
BY DEF WhoseServers, Watches, Watched

\* The tail of startup() gives a closed Glom a child, and nobody loses one.
LEMMA StartUpWhose ==
    ASSUME TypeOK, WhoseServers, NEW g \in Gloms, NEW d \in Documents, NEW why \in Reasons,
           glom[g].step = "closed", StartUp(g, d, why)
    PROVE  WhoseServers'
<1>1. CASE UNCHANGED <<glom, server>>
  BY <1>1 DEF WhoseServers, Watches, Owned, Unowned, OneHolder
<1>2. CASE ~UNCHANGED <<glom, server>>
  <2>1. PICK s \in Servers :
          /\ server[s].phase = "unused"
          /\ server' = [server EXCEPT ![s] =
                [phase |-> "spawned", doc |-> d, port |-> FirstFreePort, owner |-> g]]
          /\ glom' = [glom EXCEPT ![g] =
                [Closed EXCEPT !.step = "starting", !.why = why, !.doc = d,
                               !.trying = FirstFreePort, !.child = s]]
    BY <1>2 DEF StartUp
  <2>2. /\ glom'[g].step = "starting" /\ glom'[g].doc = d
        /\ glom'[g].trying = FirstFreePort /\ glom'[g].child = s
        /\ \A h \in Gloms \ {g} : glom'[h] = glom[h]
    BY <2>1 DEF TypeOK, Closed
  <2>3. /\ server'[s] = [phase |-> "spawned", doc |-> d, port |-> FirstFreePort, owner |-> g]
        /\ \A t \in Servers \ {s} : server'[t] = server[t]
    BY <2>1 DEF TypeOK
  <2>4. Watches'
    BY <2>1, <2>2, <2>3 DEF WhoseServers, Watches
  <2>5. Owned'
    BY <2>2, <2>3 DEF WhoseServers, Owned
  <2>6. Unowned'
    BY <2>3 DEF WhoseServers, Unowned
  <2>7. OneHolder'
    BY <2>3 DEF WhoseServers, OneHolder
  <2> QED BY <2>4, <2>5, <2>6, <2>7 DEF WhoseServers
<1> QED BY <1>1, <1>2

\* A server that exits under the eyes of its Glom waits to be noticed; of any
\* other one nothing is left.
LEMMA ExitWhose ==
    ASSUME TypeOK, WhoseServers, NEW s \in Servers, NEW how \in Ended,
           server[s].phase # "unused",
           glom' = glom, server' = [server EXCEPT ![s] = Exited(s, how)]
    PROVE  WhoseServers'
<1>1. \A t \in Servers \ {s} : server'[t] = server[t]
  BY DEF TypeOK
<1>2. CASE Watched(s)
  <2>1. server'[s] = [server[s] EXCEPT !.phase = how]
    BY <1>2 DEF Exited, TypeOK
  <2>2. /\ server'[s].phase \in Ended /\ server'[s].doc = server[s].doc
        /\ server'[s].port = server[s].port /\ server'[s].owner = server[s].owner
    BY <2>1 DEF TypeOK, Server
  <2>3. PICK g \in Gloms : server[s].owner = g /\ glom[g].step = "starting"
                           /\ glom[g].child = s
    BY <1>2, WatchedIsOwned
  <2>4. Watches'
    BY <1>1, <2>2 DEF WhoseServers, Watches
  <2>5. Owned'
    BY <1>1, <2>2, <2>3 DEF WhoseServers, Owned
  <2>6. Unowned'
    BY <1>1, <2>2, <2>3 DEF WhoseServers, Unowned
  <2>7. OneHolder'
    BY <1>1, <2>2 DEF WhoseServers, OneHolder
  <2> QED BY <2>4, <2>5, <2>6, <2>7 DEF WhoseServers
<1>3. CASE ~Watched(s)
  <2>1. server'[s].phase = "unused" /\ server'[s].owner = NoGlom
    BY <1>3 DEF Exited, NoProcess, TypeOK
  <2>2. Watches'
    BY <1>1, <1>3 DEF WhoseServers, Watches, Watched
  <2>3. Owned'
    BY <1>1, <2>1, HostingAssumption DEF WhoseServers, Owned
  <2>4. Unowned'
    BY <1>1, <2>1 DEF WhoseServers, Unowned
  <2>5. OneHolder'
    BY <1>1, <2>1 DEF WhoseServers, OneHolder
  <2> QED BY <2>2, <2>3, <2>4, <2>5 DEF WhoseServers
<1> QED BY <1>2, <1>3

\* A server that gets on gets its lock first.
LEMMA AdvanceWhose ==
    ASSUME TypeOK, WhoseServers, NEW s \in Servers, NEW f \in {"locked", "ready"},
           \/ server[s].phase = "spawned" /\ Holders(server[s].doc) = {}
           \/ server[s].phase = "locked",
           glom' = glom, server' = [server EXCEPT ![s].phase = f]
    PROVE  WhoseServers'
<1>1. \A t \in Servers \ {s} : server'[t] = server[t]
  BY DEF TypeOK
<1>2. /\ server'[s].phase = f /\ server'[s].doc = server[s].doc
      /\ server'[s].port = server[s].port /\ server'[s].owner = server[s].owner
  BY DEF TypeOK, Server
<1>3. Watches'
  BY <1>1, <1>2 DEF WhoseServers, Watches
<1>4. Owned'
  BY <1>1, <1>2 DEF WhoseServers, Owned
<1>5. Unowned'
  BY <1>1, <1>2 DEF WhoseServers, Unowned
<1>6. OneHolder'
  BY <1>1, <1>2 DEF WhoseServers, OneHolder, Holders
<1> QED BY <1>3, <1>4, <1>5, <1>6 DEF WhoseServers

\* A Glom that neither starts nor closes keeps its document and its port.
LEMMA StayWhose ==
    ASSUME TypeOK, WhoseServers, NEW g \in Gloms,
           glom[g].step \notin {"closed", "starting"},
           glom'[g].step \notin {"closed", "starting"},
           glom'[g].doc = glom[g].doc, glom'[g].port = glom[g].port,
           glom'[g].child = glom[g].child,
           \A h \in Gloms \ {g} : glom'[h] = glom[h],
           server' = server
    PROVE  WhoseServers'
<1>1. Watches'
  BY DEF WhoseServers, Watches
<1>2. Owned'
  BY DEF WhoseServers, Owned
<1> QED BY <1>1, <1>2 DEF WhoseServers, Unowned, OneHolder

\* The poll makes the child's port the port that is remembered.  Here a slow
\* server would break the invariant: the child may not hold the directory yet.
LEMMA PollWhose ==
    ASSUME TypeOK, WhoseServers, ~SlowServers, NEW g \in Gloms, PollSaysRunning(g)
    PROVE  WhoseServers'
<1> DEFINE s == glom[g].child
<1>1. s \in Servers /\ server[s].phase \in {"locked", "ready"} /\ server[s].owner = g
      /\ server[s].port = glom[g].trying
  BY DEF PollSaysRunning, WhoseServers, Watches
<1>2. server' = server
  BY <1>1 DEF PollSaysRunning, TypeOK
<1>3. /\ glom'[g].step = "connecting" /\ glom'[g].doc = glom[g].doc
      /\ glom'[g].port = glom[g].trying /\ glom'[g].child = NoServer
      /\ \A h \in Gloms \ {g} : glom'[h] = glom[h]
  <2>1. glom \in [Gloms -> Glom]
    BY DEF TypeOK
  <2>2. glom' = [glom EXCEPT ![g] = Connecting(g)]
    BY DEF PollSaysRunning
  <2> QED BY <2>1, <2>2 DEF Connecting, Glom
<1>4. Watches'
  BY <1>2, <1>3 DEF WhoseServers, Watches
<1>5. Owned'
  <2>1. \A t \in Servers : server[t].owner = g => t = s /\ server[t].doc = glom[g].doc
    BY DEF PollSaysRunning, WhoseServers, Owned
  <2> HIDE DEF s
  <2> QED BY <1>1, <1>2, <1>3, <2>1 DEF WhoseServers, Owned
<1> QED BY <1>2, <1>4, <1>5 DEF WhoseServers, Unowned, OneHolder

\* A startup() whose child exits had no other server, wherever it goes from there.
LEMMA ChildExitedWhose ==
    ASSUME TypeOK, WhoseServers, NEW g \in Gloms, ChildExited(g)
    PROVE  WhoseServers'
<1> DEFINE s == glom[g].child
<1>1. s \in Servers /\ server[s].owner = g
  BY DEF ChildExited, WhoseServers, Watches
<1>2. /\ server'[s].phase = "unused" /\ server'[s].owner = NoGlom
      /\ \A t \in Servers \ {s} : server'[t] = server[t]
  BY <1>1 DEF ChildExited, TypeOK, NoProcess
<1>3. /\ glom'[g].step # "starting" /\ glom'[g].child = NoServer
      /\ \A h \in Gloms \ {g} : glom'[h] = glom[h]
  <2>1. glom[g] \in Glom /\ glom \in [Gloms -> Glom]
    BY DEF TypeOK
  <2>2. Closed.step = "closed" /\ Closed.child = NoServer
    BY DEF Closed
  <2>3. Connecting(g).step = "connecting" /\ Connecting(g).child = NoServer
    BY <2>1 DEF Connecting, Glom
  <2>4. glom' = [glom EXCEPT ![g] = Closed] \/ glom' = [glom EXCEPT ![g] = Connecting(g)]
    BY DEF ChildExited
  <2> HIDE DEF Ended
  <2> QED BY <2>1, <2>2, <2>3, <2>4
<1>4. \A t \in Servers : server[t].owner = g => t = s
  BY DEF ChildExited, WhoseServers, Owned
<1>5. Watches'
  BY <1>1, <1>2, <1>3 DEF WhoseServers, Watches
<1>6. Owned'
  <2> HIDE DEF s
  <2> QED BY <1>1, <1>2, <1>3, <1>4, HostingAssumption DEF WhoseServers, Owned
<1>7. Unowned'
  BY <1>2 DEF WhoseServers, Unowned
<1>8. OneHolder'
  BY <1>2 DEF WhoseServers, OneHolder
<1> QED BY <1>5, <1>6, <1>7, <1>8 DEF WhoseServers

\* "pg_ctl stop" stops the one server its Glom has, if it has one.
LEMMA StopWhose ==
    ASSUME TypeOK, WhoseServers, NEW g \in Gloms, StopSucceeds(g)
    PROVE  WhoseServers'
<1>1. PICK s \in Holders(glom[g].doc) : server' = [server EXCEPT ![s] = Exited(s, "finished")]
  BY DEF StopSucceeds
<1>2. /\ s \in Servers /\ server[s].doc = glom[g].doc
      /\ server[s].phase \in {"locked", "ready"}
  BY DEF Holders
<1>3. /\ glom'[g].step = "closed" /\ glom'[g].child = NoServer
      /\ \A h \in Gloms \ {g} : glom'[h] = glom[h]
  BY DEF StopSucceeds, TypeOK, Closed
<1>4. \A t \in Servers : server[t].owner = g => t = s
  BY <1>2 DEF StopSucceeds, WhoseServers, Owned, OneHolder
<1>5. \A t \in Servers \ {s} : server'[t] = server[t]
  BY <1>1 DEF TypeOK
<1>6. CASE Watched(s)
  <2>1. /\ server'[s].phase \in Ended /\ server'[s].doc = server[s].doc
        /\ server'[s].port = server[s].port /\ server'[s].owner = server[s].owner
    BY <1>1, <1>2, <1>6 DEF Exited, TypeOK, Server
  <2>2. PICK h \in Gloms : server[s].owner = h /\ glom[h].step = "starting"
                           /\ glom[h].child = s
    BY <1>2, <1>6, WatchedIsOwned
  <2>3. h # g
    BY <2>2 DEF StopSucceeds
  <2>4. Watches'
    BY <1>3, <1>5, <2>1 DEF WhoseServers, Watches
  <2>5. Owned'
    BY <1>2, <1>3, <1>4, <1>5, <2>1, <2>2, <2>3 DEF WhoseServers, Owned
  <2>6. Unowned'
    BY <1>5, <2>1, <2>2 DEF WhoseServers, Unowned
  <2>7. OneHolder'
    BY <1>5, <2>1 DEF WhoseServers, OneHolder
  <2> QED BY <2>4, <2>5, <2>6, <2>7 DEF WhoseServers
<1>7. CASE ~Watched(s)
  <2>1. server'[s].phase = "unused" /\ server'[s].owner = NoGlom
    BY <1>1, <1>2, <1>7 DEF Exited, NoProcess, TypeOK
  <2>2. Watches'
    BY <1>3, <1>5, <1>7 DEF WhoseServers, Watches, Watched
  <2>3. Owned'
    BY <1>3, <1>4, <1>5, <2>1, HostingAssumption DEF WhoseServers, Owned
  <2>4. Unowned'
    BY <1>5, <2>1 DEF WhoseServers, Unowned
  <2>5. OneHolder'
    BY <1>5, <2>1 DEF WhoseServers, OneHolder
  <2> QED BY <2>2, <2>3, <2>4, <2>5 DEF WhoseServers
<1> QED BY <1>6, <1>7

\* A process that ends leaves its servers to nobody, and no one unnoticed.
LEMMA KillWhose ==
    ASSUME TypeOK, WhoseServers, NEW g \in Gloms,
           glom' = [glom EXCEPT ![g] = Closed], server' = Disowned(g)
    PROVE  WhoseServers'
<1>1. /\ glom'[g].step = "closed" /\ glom'[g].child = NoServer
      /\ \A h \in Gloms \ {g} : glom'[h] = glom[h]
  BY DEF TypeOK, Closed
<1>2. \A t \in Servers : server[t].owner # g => server'[t] = server[t]
  BY DEF Disowned
<1>3. ASSUME NEW t \in Servers, server[t].owner = g
      PROVE  /\ server'[t].owner = NoGlom /\ server'[t].phase \notin Ended
             /\ \/ server'[t].phase = "unused"
                \/ server'[t].phase = server[t].phase /\ server'[t].doc = server[t].doc
  <2>1. CASE server[t].phase \in Ended
    BY <1>3, <2>1 DEF Disowned, NoProcess
  <2>2. CASE server[t].phase \notin Ended
    BY <1>3, <2>2 DEF Disowned, TypeOK, Server
  <2> QED BY <2>1, <2>2
<1>4. Watches'
  BY <1>1, <1>2 DEF WhoseServers, Watches
<1>5. Owned'
  BY <1>1, <1>2, <1>3, HostingAssumption DEF WhoseServers, Owned
<1>6. Unowned'
  BY <1>2, <1>3 DEF WhoseServers, Unowned
<1>7. OneHolder'
  BY <1>2, <1>3 DEF WhoseServers, OneHolder
<1> QED BY <1>4, <1>5, <1>6, <1>7 DEF WhoseServers

\* The same, where the cleanup of the crashed process stops a server first.
LEMMA CrashWhose ==
    ASSUME TypeOK, WhoseServers, NEW g \in Gloms, EndAfterCrash(g)
    PROVE  WhoseServers'
<1>1. CASE server' = Disowned(g)
  BY <1>1, KillWhose DEF EndAfterCrash
<1>2. ASSUME NEW s \in Holders(glom[g].doc), server' = [Disowned(g) EXCEPT ![s] = Exited(s, "finished")]
      PROVE  WhoseServers'
  <2>1. s \in Servers /\ server[s].phase \in {"locked", "ready"}
    BY DEF Holders
  <2>2. /\ glom'[g].step = "closed" /\ glom'[g].child = NoServer
        /\ \A h \in Gloms \ {g} : glom'[h] = glom[h]
    BY DEF EndAfterCrash, TypeOK, Closed
  <2>3. \A t \in Servers \ {s} : server'[t] = Disowned(g)[t]
    BY <1>2, <2>1, DisownedType
  <2>4. server'[s] = Exited(s, "finished")
    BY <1>2, <2>1, DisownedType
  <2>5. \A t \in Servers \ {s} : server[t].owner # g => server'[t] = server[t]
    BY <2>3 DEF Disowned
  <2>6. ASSUME NEW t \in Servers \ {s}, server[t].owner = g
        PROVE  /\ server'[t].owner = NoGlom /\ server'[t].phase \notin Ended
               /\ server'[t].phase = server[t].phase /\ server'[t].doc = server[t].doc
    <3>1. server[t].phase \notin Ended
      BY <2>6 DEF WhoseServers, Owned, EndAfterCrash
    <3>2. server'[t] = [server[t] EXCEPT !.owner = NoGlom]
      BY <2>3, <2>6, <3>1 DEF Disowned
    <3>3. server[t] \in Server
      BY DEF TypeOK
    <3>4. server[t].phase = "locked" \/ server[t].phase = "ready"
      BY <2>6 DEF WhoseServers, Owned, EndAfterCrash
    <3> QED BY <3>2, <3>3, <3>4 DEF Server
  <2>7. CASE Watched(s)
    <3>1. /\ server'[s].phase \in Ended /\ server'[s].doc = server[s].doc
          /\ server'[s].port = server[s].port /\ server'[s].owner = server[s].owner
      BY <2>1, <2>4, <2>7 DEF Exited, TypeOK, Server
    <3>2. PICK h \in Gloms : server[s].owner = h /\ glom[h].step = "starting"
                             /\ glom[h].child = s
      BY <2>1, <2>7, WatchedIsOwned
    <3>3. h # g
      BY <3>2 DEF EndAfterCrash
    <3>4. Watches'
      BY <2>2, <2>5, <3>1 DEF WhoseServers, Watches
    <3>5. Owned'
      BY <2>1, <2>2, <2>5, <2>6, <3>1, <3>2, <3>3, HostingAssumption DEF WhoseServers, Owned
    <3>6. Unowned'
      BY <2>5, <2>6, <3>1, <3>2 DEF WhoseServers, Unowned, Owned
    <3>7. OneHolder'
      BY <2>5, <2>6, <3>1 DEF WhoseServers, OneHolder
    <3> QED BY <3>4, <3>5, <3>6, <3>7 DEF WhoseServers
  <2>8. CASE ~Watched(s)
    <3>1. server'[s].phase = "unused" /\ server'[s].owner = NoGlom
      BY <2>4, <2>8 DEF Exited, NoProcess
    <3>2. Watches'
      BY <2>2, <2>5, <2>8 DEF WhoseServers, Watches, Watched
    <3>3. Owned'
      BY <2>2, <2>5, <2>6, <3>1, HostingAssumption DEF WhoseServers, Owned
    <3>4. Unowned'
      BY <2>5, <2>6, <3>1 DEF WhoseServers, Unowned, Owned
    <3>5. OneHolder'
      BY <2>5, <2>6, <3>1 DEF WhoseServers, OneHolder
    <3> QED BY <3>2, <3>3, <3>4, <3>5 DEF WhoseServers
  <2> QED BY <2>7, <2>8
<1> QED BY <1>1, <1>2 DEF EndAfterCrash

-----------------------------------------------------------------------------
(* The theorems *)

\* Every step of a server, a Glom or another program keeps the invariant.
LEMMA StepWhose ==
    ASSUME ~SlowServers, HostingInv, [Next]_vars PROVE WhoseServers'
<1> USE DEF HostingInv
<1>1. ASSUME NEW g \in Gloms, NEW d \in Documents, Open(g, d) PROVE WhoseServers'
  BY <1>1, StartUpWhose DEF Open, Reasons
<1>2. ASSUME NEW g \in Gloms, NEW d \in Documents, NEW ok \in BOOLEAN, Create(g, d, ok)
      PROVE  WhoseServers'
  <2>1. CASE UNCHANGED <<glom, server>>
    BY <2>1 DEF WhoseServers, Watches, Owned, Unowned, OneHolder
  <2>2. CASE StartUp(g, d, "create")
    BY <1>2, <2>2, StartUpWhose DEF Create, Reasons
  <2> QED BY <1>2, <2>1, <2>2 DEF Create
<1>3. ASSUME NEW s \in Servers, ServerLocks(s) PROVE WhoseServers'
  BY <1>3, AdvanceWhose DEF ServerLocks
<1>4. ASSUME NEW s \in Servers, ServerRefuses(s) \/ ServerDies(s) PROVE WhoseServers'
  BY <1>4, ExitWhose DEF ServerRefuses, ServerDies
<1>5. ASSUME NEW s \in Servers, ServerBinds(s) PROVE WhoseServers'
  <2>1. CASE Bound(server[s].port)
    BY <1>5, <2>1, ExitWhose DEF ServerBinds
  <2>2. CASE ~Bound(server[s].port)
    BY <1>5, <2>2, AdvanceWhose DEF ServerBinds
  <2> QED BY <2>1, <2>2
<1>6. ASSUME NEW g \in Gloms,
             \/ ConnectSucceeds(g) \/ NoDatabase(g) \/ CancelDialog(g) \/ FailToConnect(g)
             \/ Use(g) \/ Close(g) \/ StopFails(g)
      PROVE  WhoseServers'
  <2>1. /\ glom[g].step \notin {"closed", "starting"}
        /\ server' = server
        /\ \A h \in Gloms \ {g} : glom'[h] = glom[h]
    BY <1>6 DEF ConnectSucceeds, NoDatabase, CancelDialog, FailToConnect, Use, Close,
                StopFails, TypeOK
  <2>2. /\ glom'[g].step \notin {"closed", "starting"}
        /\ glom'[g].doc = glom[g].doc /\ glom'[g].port = glom[g].port
        /\ glom'[g].child = glom[g].child
    <3>1. glom[g] \in Glom
      BY DEF TypeOK
    <3>2. CASE ConnectSucceeds(g)
      BY <3>1, <3>2 DEF ConnectSucceeds, TypeOK, Glom
    <3>3. CASE NoDatabase(g)
      BY <3>1, <3>3 DEF NoDatabase, TypeOK, Glom
    <3>4. CASE CancelDialog(g)
      BY <3>1, <3>4 DEF CancelDialog, TypeOK, Glom
    <3>5. CASE FailToConnect(g)
      BY <3>1, <3>5 DEF FailToConnect, TypeOK, Glom
    <3>6. CASE Use(g) \/ Close(g) \/ StopFails(g)
      BY <3>1, <3>6 DEF Use, Close, StopFails, TypeOK, Glom
    <3> QED BY <1>6, <3>2, <3>3, <3>4, <3>5, <3>6
  <2> QED BY <2>1, <2>2, StayWhose
<1>7. ASSUME NEW g \in Gloms, PollSaysRunning(g) PROVE WhoseServers'
  BY <1>7, PollWhose
<1>8. ASSUME NEW g \in Gloms, ChildExited(g) PROVE WhoseServers'
  BY <1>8, ChildExitedWhose
<1>9. ASSUME NEW g \in Gloms, StopSucceeds(g) PROVE WhoseServers'
  BY <1>9, StopWhose
<1>10. ASSUME NEW g \in Gloms, EndAfterCrash(g) PROVE WhoseServers'
  BY <1>10, CrashWhose
<1>11. ASSUME NEW g \in Gloms, Kill(g) PROVE WhoseServers'
  BY <1>11, KillWhose DEF Kill
<1>12. ASSUME NEW p \in Ports, OtherProgram(p) PROVE WhoseServers'
  BY <1>12 DEF OtherProgram, WhoseServers, Watches, Owned, Unowned, OneHolder
<1>13. CASE UNCHANGED vars
  BY <1>13 DEF vars, WhoseServers, Watches, Owned, Unowned, OneHolder
<1> QED BY <1>1, <1>2, <1>3, <1>4, <1>5, <1>6, <1>7, <1>8, <1>9, <1>10, <1>11, <1>12, <1>13
     DEF Next, GlomStep, ServerStep

\* While servers take the lock of their directory before the first poll,
\* every server is watched or remembered by the Glom that started it.
THEOREM HostingInvariant ==
    ASSUME ~SlowServers PROVE Spec => []HostingInv
<1>1. Init => HostingInv
  <2> SUFFICES ASSUME Init PROVE HostingInv
    OBVIOUS
  <2>1. /\ \A g \in Gloms : glom[g].step = "closed" /\ glom[g].child = NoServer
        /\ \A s \in Servers : server[s].phase = "unused" /\ server[s].owner = NoGlom
    BY DEF Init, Closed, NoProcess
  <2>2. WhoseServers
    BY <2>1, HostingAssumption DEF WhoseServers, Watches, Owned, Unowned, OneHolder
  <2> QED BY <2>2, InitType DEF HostingInv
<1>2. HostingInv /\ [Next]_vars => HostingInv'
  BY StepWhose, StepType DEF HostingInv
<1> QED BY <1>1, <1>2, PTL DEF Spec

\* No path through startup(), connect() and cleanup() loses track of a server.
THEOREM NoServerIsForgotten ==
    ASSUME ~SlowServers PROVE Spec => []KnowsItsServer
<1>1. HostingInv => KnowsItsServer
  BY DEF HostingInv, WhoseServers, Owned, KnowsItsServer
<1> QED BY <1>1, HostingInvariant, PTL

=============================================================================
