--------------------------- MODULE ConnectionPool ---------------------------
(***************************************************************************)
(* The singleton of src/glom/libglom/connectionpool.cc: one libgda         *)
(* connection, shared by reference count between the callers that hold a   *)
(* SharedConnection, kept for 30 seconds by a static cache, and thrown     *)
(* away whenever the user, the password or the database changes.           *)
(*                                                                         *)
(* Every method of the class is an operator from a pool state to the pool  *)
(* state it leaves, so that a handler that calls several of them is their  *)
(* composition.  The heap is part of the pool: conn[h] is                  *)
(* SharedConnection::m_gda_connection of the object h and listening is the *)
(* set of objects whose signal_finished is still connected to the pool.    *)
(***************************************************************************)
EXTENDS Integers, FiniteSets

CONSTANTS
    Users,          \* callers that keep a shared_ptr to a SharedConnection
    Handles,        \* SharedConnection objects
    Connections,    \* Gnome::Gda::Connection objects
    Credentials,    \* values of the triple m_user, m_password, m_database
    Backends,       \* hosting modes a document may ask for
    SelfHosted,     \* those whose server this process starts
    RemoteAccess,   \* those whose supports_remote_access() is true
    CountModulus,   \* 2^w for the guint m_sharedconnection_refcount
    AutoServerShutdown, \* m_auto_server_shutdown
    Stragglers,     \* may a caller still hold a handle at an invalidation?
    NoHandle, NoConnection, NoCredential, NoBackend

ASSUME PoolAssumption ==
    /\ SelfHosted \subseteq Backends
    /\ RemoteAccess \subseteq Backends
    /\ CountModulus \in Nat \ {0}
    /\ AutoServerShutdown \in BOOLEAN
    /\ Stragglers \in BOOLEAN
    /\ NoHandle \notin Handles
    /\ NoConnection \notin Connections
    /\ NoCredential \notin Credentials
    /\ NoBackend \notin Backends

\* A process makes fewer SharedConnection objects than a guint counts.
ASSUME HandlesAssumption ==
    IsFiniteSet(Handles) /\ Cardinality(Handles) < CountModulus

VARIABLES
    pool,           \* the members of the singleton and the objects it made
    held,           \* held[u] is the SharedConnection the caller u keeps
    networkShared,  \* Document::get_network_shared() of the open document
    sigsegv,        \* the SIGSEGV disposition and previous_sig_handler
    converting      \* convert_backup() waits for pg_restore in a main loop

vars == <<pool, held, networkShared, sigsegv, converting>>

-----------------------------------------------------------------------------
(* Types and initial values *)

CrashCauses == {"none", "finished", "connect", "convert_backup"}

Pool ==
    [ready      : BOOLEAN,                          \* m_ready_to_connect
     backend    : Backends \union {NoBackend},      \* m_backend
     serving    : BOOLEAN,                          \* get_self_hosting_active()
     cred       : Credentials,                      \* m_user, m_password, m_database
     gda        : Connections \union {NoConnection},\* m_gda_connection
     refcount   : 0 .. (CountModulus - 1),          \* m_sharedconnection_refcount
     cached     : Handles \union {NoHandle},        \* connection_cached
     timer      : BOOLEAN,                          \* connection_cached_timeout_connection
     latest     : Handles \union {NoHandle},        \* connection_cached_finished_connection
     fieldTypes : Credentials \union {NoCredential},\* m_field_types, by what it was read with
     publishing : BOOLEAN,                          \* m_epc_publisher
     conn       : [Handles -> Connections \union {NoConnection}],
     listening  : SUBSET Handles,
     open       : SUBSET Connections,
     openedWith : [Connections -> Credentials],
     crashed    : CrashCauses]

Dispositions == {"default", "glom"}

InitialPool(c) ==
    [ready |-> FALSE, backend |-> NoBackend, serving |-> FALSE, cred |-> c,
     gda |-> NoConnection, refcount |-> 0, cached |-> NoHandle, timer |-> FALSE,
     latest |-> NoHandle, fieldTypes |-> NoCredential, publishing |-> FALSE,
     conn |-> [h \in Handles |-> NoConnection], listening |-> {}, open |-> {},
     openedWith |-> [k \in Connections |-> c], crashed |-> "none"]

HeldHandles == {held[u] : u \in Users} \ {NoHandle}

\* guint arithmetic: m_sharedconnection_refcount++ and --.
Increment(n) == IF n = CountModulus - 1 THEN 0 ELSE n + 1
DecrementSigned(n) == n - 1                           \* mutant: a signed counter
DecrementClamped(n) == IF n = 0 THEN 0 ELSE n - 1     \* mutant: it stays at zero
Decrement(n) == IF n = 0 THEN CountModulus - 1 ELSE n - 1

-----------------------------------------------------------------------------
(* SharedConnection and the pool's handler of its signal *)

\* A connection object nobody refers to any more is destroyed, which closes it.
Unreference(p) ==
    [p EXCEPT !.open = @ \intersect ({p.gda} \union {p.conn[h] : h \in Handles})]

\* Mutant: the last but one user closes already.
OnSharedConnectionFinishedEarly(p) ==
    LET n == Decrement(p.refcount)
    IN  IF n > 1 THEN [p EXCEPT !.refcount = n]
        ELSE [p EXCEPT !.refcount = n, !.open = @ \ {p.gda}, !.gda = NoConnection,
                       !.publishing = @ /\ p.backend \notin RemoteAccess]

\* Mutant: the publisher is not stopped.
OnSharedConnectionFinishedPublishing(p) ==
    LET n == Decrement(p.refcount)
    IN  IF n # 0 THEN [p EXCEPT !.refcount = n]
        ELSE [p EXCEPT !.refcount = 0, !.open = @ \ {p.gda}, !.gda = NoConnection]

\* avahi_stop_publishing() quits without stopping when the current backend
\* has no remote access.
OnSharedConnectionFinished(p) ==
    LET n == Decrement(p.refcount)
    IN  IF n # 0 THEN [p EXCEPT !.refcount = n]
        ELSE [p EXCEPT !.refcount = 0,
                       !.crashed = IF p.gda = NoConnection THEN "finished" ELSE @,
                       !.open = @ \ {p.gda},
                       !.gda = NoConnection,
                       !.publishing = @ /\ p.backend \notin RemoteAccess]

EmitFinished(p, h) == IF h \in p.listening THEN OnSharedConnectionFinished(p) ELSE p

\* ~SharedConnection: silent if close() has already dropped the connection.
DestroyHandle(p, h) ==
    LET q == IF p.conn[h] = NoConnection THEN p ELSE EmitFinished(p, h)
    IN  Unreference([q EXCEPT !.conn[h] = NoConnection,
                              !.listening = @ \ {h},
                              !.latest = IF @ = h THEN NoHandle ELSE @])

CloseHandle(p, h) ==
    EmitFinished(Unreference([p EXCEPT !.conn[h] = NoConnection]), h)

-----------------------------------------------------------------------------
(* The pool's methods.  H is the set of handles some caller holds. *)

\* Mutant: the cache closes its handle instead of dropping it.
ResetCacheCloses(p, H) ==
    LET q == [p EXCEPT !.cached = NoHandle]
    IN  IF p.cached = NoHandle THEN q ELSE CloseHandle(q, p.cached)

\* connection_cached.reset(): the object goes only if nobody else holds it.
ResetCache(p, H) ==
    LET q == [p EXCEPT !.cached = NoHandle]
    IN  IF p.cached \in H \union {NoHandle} THEN q ELSE DestroyHandle(q, p.cached)

\* Mutant: the cached handle survives.
InvalidateKeepingCache(p, H) ==
    Unreference([p EXCEPT !.timer = FALSE, !.listening = @ \ {p.latest},
                          !.latest = NoHandle, !.open = @ \ {p.gda},
                          !.gda = NoConnection, !.refcount = 0,
                          !.fieldTypes = NoCredential])

\* Only the newest handler is disconnected, and only after the cache's own
\* handle has had the chance to emit.
InvalidateConnection(p, H) ==
    LET q == ResetCache(p, H)
    IN  Unreference([q EXCEPT !.timer = FALSE,
                              !.listening = @ \ {q.latest},
                              !.latest = NoHandle,
                              !.open = @ \ {q.gda},
                              !.gda = NoConnection,
                              !.refcount = 0,
                              !.fieldTypes = NoCredential])

\* Mutant: the pool forgets to ask for signal_finished.
ShareConnectionDeaf(p, h) ==
    [p EXCEPT !.conn[h] = p.gda, !.refcount = Increment(@), !.cached = h, !.timer = TRUE]

\* The branch of connect() for an existing m_gda_connection.
ShareConnection(p, h) ==
    [p EXCEPT !.conn[h] = p.gda,
              !.listening = @ \union {h},
              !.latest = h,
              !.refcount = Increment(@),
              !.cached = h,
              !.timer = TRUE]

\* The branch that opens one, up to the recursive call.
OpenConnection(p, shared, k) ==
    [p EXCEPT !.gda = k,
              !.open = @ \union {k},
              !.openedWith[k] = p.cred,
              !.fieldTypes = IF @ = NoCredential THEN p.cred ELSE @,
              !.publishing = @ \/ (shared /\ p.backend \in RemoteAccess)]

FreshHandles(p, H) == Handles \ (H \union {p.cached})
FreshConnections(p) == {k \in Connections : k # p.gda /\ \A h \in Handles : p.conn[h] # k}

Result(p, h, threw) == [pool |-> p, handle |-> h, threw |-> threw]

\* What Backend::connect() may do: throw, or (only where it keeps retrying)
\* give up with a null connection that connect() dereferences.
BackendFailures(p) ==
    {Result(p, NoHandle, TRUE)}
    \union IF p.backend \in SelfHosted /\ p.serving
           THEN {Result([p EXCEPT !.crashed = "connect"], NoHandle, FALSE)} ELSE {}

SharedResults(p, H) ==
    {Result(ShareConnection(p, h), h, FALSE) : h \in FreshHandles(p, H)}

\* connect() calls itself once the connection is open.
OpenedResults(p, shared, H) ==
    UNION {SharedResults(OpenConnection(p, shared, k), H) : k \in FreshConnections(p)}

\* A self-hosting backend answers only while its server runs.
Reachable(p) == p.backend \in SelfHosted => p.serving

\* ConnectionPool::connect(): every outcome it may have.
ConnectResults(p, shared, H) ==
    IF ~p.ready \/ p.backend = NoBackend THEN {Result(p, NoHandle, FALSE)}
    ELSE IF p.cached # NoHandle THEN {Result(p, p.cached, FALSE)}
    ELSE IF p.gda # NoConnection THEN SharedResults(p, H)
    ELSE BackendFailures(p)
         \union IF Reachable(p) THEN OpenedResults(p, shared, H) ELSE {}

\* cleanup(), up to what Backend::cleanup() answers.
CleanUpPool(p, H, stopped) ==
    LET q == InvalidateConnection([p EXCEPT !.ready = FALSE], H)
    IN  [q EXCEPT !.serving = @ /\ ~stopped]

\* cleanup() reinstalls the handler that startup() found, unless that was the default.
RestoreSignal(s) ==
    IF s.previous # "default" THEN [handler |-> s.previous, previous |-> "default"] ELSE s

-----------------------------------------------------------------------------
(* Actions *)

Init ==
    /\ \E c \in Credentials : pool = InitialPool(c)
    /\ held = [u \in Users |-> NoHandle]
    /\ networkShared \in BOOLEAN
    /\ sigsegv = [handler |-> "default", previous |-> "default"]
    /\ converting = FALSE

Running == pool.crashed = "none"

\* The callers' discipline the pool relies on, and does not enforce.
MayInvalidate == Stragglers \/ (HeldHandles = {} /\ ~converting)

\* setup_from_document(): a fresh backend object, then set_user() and
\* set_database(), each of which invalidates.  A process has one document, and
\* its hosting mode does not change while it is connected.
SetupFromDocument(b, c) ==
    /\ Running /\ MayInvalidate
    /\ pool.gda # NoConnection => b = pool.backend
    /\ pool' = [InvalidateConnection([pool EXCEPT !.backend = b, !.serving = FALSE,
                                                  !.cred = c], HeldHandles)
                EXCEPT !.ready = TRUE]
    /\ networkShared' \in BOOLEAN
    /\ UNCHANGED <<held, sigsegv, converting>>

\* set_user(), set_password() and set_database().
SetCredentials(c) ==
    /\ Running /\ MayInvalidate
    /\ pool' = InvalidateConnection([pool EXCEPT !.cred = c], HeldHandles)
    /\ UNCHANGED <<held, networkShared, sigsegv, converting>>

SetReadyToConnect ==
    /\ Running
    /\ pool' = [pool EXCEPT !.ready = TRUE]
    /\ UNCHANGED <<held, networkShared, sigsegv, converting>>

\* startup(): a self-hosting backend starts its server, or fails to.
StartUp(ok) ==
    /\ Running /\ pool.backend # NoBackend
    /\ pool.backend \notin SelfHosted \/ pool.serving => ok
    /\ pool' = [pool EXCEPT !.serving = @ \/ (ok /\ pool.backend \in SelfHosted)]
    /\ sigsegv' = IF ok /\ AutoServerShutdown
                  THEN [handler |-> "glom", previous |-> sigsegv.handler] ELSE sigsegv
    /\ UNCHANGED <<held, networkShared, converting>>

\* cleanup(): the server stops, or pg_ctl fails twice.
CleanUp(stopped) ==
    /\ Running /\ MayInvalidate
    /\ pool' = CleanUpPool(pool, HeldHandles, stopped)
    /\ sigsegv' = RestoreSignal(sigsegv)
    /\ UNCHANGED <<held, networkShared, converting>>

\* get_and_connect() by a caller that keeps the result.
Acquire(u) ==
    /\ Running /\ held[u] = NoHandle
    /\ \E r \in ConnectResults(pool, networkShared, HeldHandles) :
          /\ pool' = r.pool
          /\ held' = [held EXCEPT ![u] = r.handle]
    /\ UNCHANGED <<networkShared, sigsegv, converting>>

\* The caller's shared_ptr goes; the last one destroys the object.
Release(u) ==
    /\ Running /\ held[u] # NoHandle
    /\ held' = [held EXCEPT ![u] = NoHandle]
    /\ pool' = IF held[u] = pool.cached \/ \E v \in Users \ {u} : held[v] = held[u]
               THEN pool ELSE DestroyHandle(pool, held[u])
    /\ UNCHANGED <<networkShared, sigsegv, converting>>

\* connect_nothrow(), for add_column() and the other schema changes: the
\* handle is dropped at once and the cache keeps it alive.
ConnectNothrow ==
    /\ Running /\ pool.gda = NoConnection
    /\ \E r \in ConnectResults(pool, networkShared, HeldHandles) : pool' = r.pool
    /\ UNCHANGED <<held, networkShared, sigsegv, converting>>

\* on_connection_pool_cache_timeout(), 30 seconds after the handle was cached.
CacheTimeout ==
    /\ Running /\ pool.timer
    /\ pool' = ResetCache([pool EXCEPT !.timer = FALSE], HeldHandles)
    /\ UNCHANGED <<held, networkShared, sigsegv, converting>>

\* Frame_Glom::attempt_toggle_shared() once the user has agreed, up to
\* cleanup(); StartUp and SetReadyToConnect follow.  An exception of connect()
\* leaves the document changed and the server running.
ToggleShared(stopped) ==
    /\ Running /\ MayInvalidate
    /\ networkShared' = ~networkShared
    /\ \E r \in ConnectResults(pool, ~networkShared, HeldHandles) :
          LET p == IF r.handle = NoHandle THEN r.pool ELSE CloseHandle(r.pool, r.handle)
              aborted == r.threw \/ p.crashed # "none"
          IN  /\ pool' = IF aborted THEN p ELSE CleanUpPool(p, HeldHandles, stopped)
              /\ sigsegv' = IF aborted THEN sigsegv ELSE RestoreSignal(sigsegv)
    /\ UNCHANGED <<held, converting>>

\* convert_backup() runs pg_restore in a nested main loop: timers fire meanwhile.
ConvertBackupBegin ==
    /\ Running /\ ~converting /\ pool.gda # NoConnection
    /\ converting' = TRUE
    /\ UNCHANGED <<pool, held, networkShared, sigsegv>>

\* Afterwards m_gda_connection is used without a look at it, if pg_restore
\* succeeded.  The backends without remote access restore nothing.
ConvertBackupEnd(restored) ==
    /\ Running /\ converting
    /\ restored => pool.backend \in RemoteAccess
    /\ converting' = FALSE
    /\ pool' = IF restored /\ pool.gda = NoConnection
               THEN [pool EXCEPT !.crashed = "convert_backup"] ELSE pool
    /\ UNCHANGED <<held, networkShared, sigsegv>>

\* After a crash on_linux_signal() cleans up and the process ends; the user
\* starts Glom again.
Relaunch ==
    /\ ~Running
    /\ pool' = InitialPool(pool.cred)
    /\ held' = [u \in Users |-> NoHandle]
    /\ networkShared' \in BOOLEAN
    /\ sigsegv' = [handler |-> "default", previous |-> "default"]
    /\ converting' = FALSE

Next ==
    \/ \E b \in Backends, c \in Credentials : SetupFromDocument(b, c)
    \/ \E c \in Credentials : SetCredentials(c)
    \/ SetReadyToConnect
    \/ \E ok \in BOOLEAN : StartUp(ok)
    \/ \E stopped \in BOOLEAN : CleanUp(stopped)
    \/ \E u \in Users : Acquire(u)
    \/ \E u \in Users : Release(u)
    \/ ConnectNothrow
    \/ CacheTimeout
    \/ \E stopped \in BOOLEAN : ToggleShared(stopped)
    \/ ConvertBackupBegin
    \/ \E restored \in BOOLEAN : ConvertBackupEnd(restored)
    \/ Relaunch

Spec == Init /\ [][Next]_vars

\* GLib runs the timeout as long as the main loop turns.
FairSpec == Spec /\ WF_vars(CacheTimeout)

-----------------------------------------------------------------------------
(* Properties *)

\* Every member and every object has a value of its type.
TypeOK ==
    /\ pool \in Pool
    /\ held \in [Users -> Handles \union {NoHandle}]
    /\ networkShared \in BOOLEAN
    /\ sigsegv \in [handler : Dispositions, previous : Dispositions]
    /\ converting \in BOOLEAN

OpenedWithCurrent(p, k) == k # NoConnection => p.openedWith[k] = p.cred

\* set_user(), set_password() and set_database() "make sure that connect()
\* makes a new connection": nothing connect() could hand out was opened with
\* other credentials than the current ones.
CredentialsCurrentIn(p) ==
    /\ OpenedWithCurrent(p, p.gda)
    /\ p.cached # NoHandle => OpenedWithCurrent(p, p.conn[p.cached])
    /\ p.fieldTypes \in {NoCredential, p.cred}

\* The same of the pool as it is: see CredentialsCurrentIn.
CredentialsCurrent == CredentialsCurrentIn(pool)

\* on_sharedconnection_finished() never reaches zero without a connection to
\* close, however the count has wrapped.
FinishedNeverNull == pool.crashed # "finished"

\* "The connection will only be closed when all SharedConnections have
\* finished with their connections": what a caller holds is open, and is the
\* pool's one connection.
HoldersShareOpenConnection ==
    \A u \in Users : held[u] # NoHandle =>
        /\ pool.gda # NoConnection
        /\ pool.conn[held[u]] = pool.gda
        /\ pool.gda \in pool.open

\* The reference count, seen step by step: a caller's release or the cache's
\* timeout never closes a connection that another caller still has open.  The
\* comment in connect() fears that a handler of an earlier connection does.
OnlyLastUserCloses ==
    [][CacheTimeout \/ (\E u \in Users : Release(u)) =>
         \A u \in Users :
            (held'[u] # NoHandle /\ pool.conn[held'[u]] \in pool.open)
                => pool.conn[held'[u]] \in pool'.open]_vars

\* A handle that connect() would return from the cache is usable: schema
\* changes, which test m_gda_connection after connect(), do not fail for it.
CacheIsConnected == pool.cached # NoHandle => pool.gda # NoConnection

\* The document is advertised only while this process is connected:
\* avahi_start_publishing() is "Stopped in the signal_finished handler".
PublishedOnlyWhileConnected == pool.publishing => pool.gda # NoConnection

\* The header's promise to the callers, as a refinement.
Promise == INSTANCE ConnectionPromise WITH
    using <- {u \in Users : held[u] # NoHandle},
    open <- pool.gda # NoConnection

KeepsPromise == Promise!Spec

=============================================================================
