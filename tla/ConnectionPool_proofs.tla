----------------------- MODULE ConnectionPool_proofs -----------------------
(***************************************************************************)
(* Theorems about ConnectionPool, for every set of callers, handles,       *)
(* connections, credentials and backends.  The lemmas follow the methods   *)
(* of the pool: what each does to a pool state is stated once, and the     *)
(* actions, which are compositions of methods, cite them.                  *)
(*                                                                         *)
(* Part 1 is the types and the credentials.  Part 2 is the reference       *)
(* count: if no caller keeps a handle when the connection is invalidated,  *)
(* it is the number of handles that are alive, in a caller's hands or in   *)
(* the cache.  From that follow the promises of connectionpool.h, and that *)
(* every step of the pool is one that ConnectionPromise allows.  Part 3 is *)
(* the signal of the last handle, stragglers or not; part 4 is what avahi  *)
(* publishes.                                                              *)
(***************************************************************************)
EXTENDS ConnectionPool, FiniteSetTheorems, TLAPS

-----------------------------------------------------------------------------
(* Part 1.  Every method maps a well-typed pool to a well-typed pool. *)

\* The reference count stays within a guint.
LEMMA CountType ==
    ASSUME NEW n \in 0 .. (CountModulus - 1)
    PROVE  Increment(n) \in 0 .. (CountModulus - 1) /\ Decrement(n) \in 0 .. (CountModulus - 1)
BY PoolAssumption DEF Increment, Decrement

\* Destroying unreferenced connections keeps the pool well typed.
LEMMA UnreferenceType == ASSUME NEW p \in Pool PROVE Unreference(p) \in Pool
BY DEF Unreference, Pool

\* on_sharedconnection_finished() keeps the pool well typed.
LEMMA FinishedType == ASSUME NEW p \in Pool PROVE OnSharedConnectionFinished(p) \in Pool
<1> DEFINE n == Decrement(p.refcount)
<1>1. n \in 0 .. (CountModulus - 1)
  BY CountType DEF Pool
<1>2. 0 \in 0 .. (CountModulus - 1)
  BY PoolAssumption
<1>3. CASE n # 0
  BY <1>1, <1>3 DEF OnSharedConnectionFinished, Pool
<1>4. CASE n = 0
  <2> DEFINE crashed == IF p.gda = NoConnection THEN "finished" ELSE p.crashed
             publishing == p.publishing /\ p.backend \notin RemoteAccess
             q == [p EXCEPT !.refcount = 0, !.crashed = crashed, !.open = @ \ {p.gda},
                            !.gda = NoConnection, !.publishing = publishing]
  <2>1. crashed \in CrashCauses
    BY DEF Pool, CrashCauses
  <2>2. publishing \in BOOLEAN
    OBVIOUS
  <2>3. OnSharedConnectionFinished(p) = q
    BY <1>4 DEF OnSharedConnectionFinished
  <2> HIDE DEF crashed, publishing
  <2>4. q \in Pool
    BY <1>2, <2>1, <2>2 DEF Pool
  <2> QED
    BY <2>3, <2>4
<1> QED
  BY <1>3, <1>4

\* So does the signal, whoever listens.
LEMMA EmitType == ASSUME NEW p \in Pool, NEW h PROVE EmitFinished(p, h) \in Pool
BY FinishedType DEF EmitFinished

\* ~SharedConnection keeps the pool well typed.
LEMMA DestroyType == ASSUME NEW p \in Pool, NEW h \in Handles PROVE DestroyHandle(p, h) \in Pool
<1> DEFINE q == IF p.conn[h] = NoConnection THEN p ELSE EmitFinished(p, h)
           r == [q EXCEPT !.conn[h] = NoConnection, !.listening = @ \ {h},
                          !.latest = IF @ = h THEN NoHandle ELSE @]
<1>1. q \in Pool
  BY EmitType
<1>2. ASSUME NEW s \in Pool
      PROVE  [s EXCEPT !.conn[h] = NoConnection, !.listening = @ \ {h},
                       !.latest = IF @ = h THEN NoHandle ELSE @] \in Pool
  <2> DEFINE conn == [s.conn EXCEPT ![h] = NoConnection]
             latest == IF s.latest = h THEN NoHandle ELSE s.latest
  <2>1. conn \in [Handles -> Connections \union {NoConnection}]
    BY DEF Pool
  <2>2. latest \in Handles \union {NoHandle}
    BY DEF Pool
  <2> HIDE DEF conn, latest
  <2>3. [s EXCEPT !.conn = conn, !.listening = @ \ {h}, !.latest = latest] \in Pool
    BY <2>1, <2>2 DEF Pool
  <2> QED
    BY <2>3 DEF conn, latest
<1>3. r \in Pool
  BY <1>1, <1>2
<1> QED
  BY <1>3, UnreferenceType DEF DestroyHandle

\* SharedConnection::close() keeps the pool well typed.
LEMMA CloseType == ASSUME NEW p \in Pool, NEW h \in Handles PROVE CloseHandle(p, h) \in Pool
<1> DEFINE q == [p EXCEPT !.conn[h] = NoConnection]
<1>1. q \in Pool
  BY DEF Pool
<1> QED
  BY <1>1, UnreferenceType, EmitType DEF CloseHandle

\* Forgetting the cached handle keeps the pool well typed.
LEMMA ResetCacheType == ASSUME NEW p \in Pool, NEW H PROVE ResetCache(p, H) \in Pool
<1> DEFINE q == [p EXCEPT !.cached = NoHandle]
<1>1. q \in Pool
  BY DEF Pool
<1>2. CASE p.cached \in H \union {NoHandle}
  BY <1>1, <1>2 DEF ResetCache
<1>3. CASE p.cached \notin H \union {NoHandle}
  <2>1. p.cached \in Handles
    BY <1>3 DEF Pool
  <2> QED
    BY <1>1, <1>3, <2>1, DestroyType DEF ResetCache
<1> QED
  BY <1>2, <1>3

\* invalidate_connection() keeps the pool well typed.
LEMMA InvalidateType == ASSUME NEW p \in Pool, NEW H PROVE InvalidateConnection(p, H) \in Pool
<1> DEFINE q == ResetCache(p, H)
           r == [q EXCEPT !.timer = FALSE, !.listening = @ \ {q.latest}, !.latest = NoHandle,
                          !.open = @ \ {q.gda}, !.gda = NoConnection, !.refcount = 0,
                          !.fieldTypes = NoCredential]
<1>1. q \in Pool
  BY ResetCacheType
<1>2. 0 \in 0 .. (CountModulus - 1)
  BY PoolAssumption
<1>3. r \in Pool
  BY <1>1, <1>2 DEF Pool
<1> QED
  BY <1>3, UnreferenceType DEF InvalidateConnection

\* cleanup() keeps the pool well typed.
LEMMA CleanUpPoolType ==
    ASSUME NEW p \in Pool, NEW H, NEW stopped \in BOOLEAN
    PROVE  CleanUpPool(p, H, stopped) \in Pool
<1> DEFINE q == [p EXCEPT !.ready = FALSE]
           r == InvalidateConnection(q, H)
<1>1. q \in Pool
  BY DEF Pool
<1>2. r \in Pool
  BY <1>1, InvalidateType
<1>3. ASSUME NEW s \in Pool PROVE [s EXCEPT !.serving = @ /\ ~stopped] \in Pool
  <2> DEFINE serving == s.serving /\ ~stopped
  <2>1. serving \in BOOLEAN
    OBVIOUS
  <2> HIDE DEF serving
  <2>2. [s EXCEPT !.serving = serving] \in Pool
    BY <2>1 DEF Pool
  <2> QED
    BY <2>2 DEF serving
<1> QED
  BY <1>2, <1>3 DEF CleanUpPool

\* Both branches of connect() keep the pool well typed.
LEMMA ShareType == ASSUME NEW p \in Pool, NEW h \in Handles PROVE ShareConnection(p, h) \in Pool
<1>1. Increment(p.refcount) \in 0 .. (CountModulus - 1)
  BY CountType DEF Pool
<1> QED
  BY <1>1 DEF ShareConnection, Pool

LEMMA OpenType ==
    ASSUME NEW p \in Pool, NEW shared \in BOOLEAN, NEW k \in Connections
    PROVE  OpenConnection(p, shared, k) \in Pool
BY DEF OpenConnection, Pool

\* connect() returns a handle or null, and a well-typed pool.
LEMMA ConnectType ==
    ASSUME NEW p \in Pool, NEW shared \in BOOLEAN, NEW H,
           NEW r \in ConnectResults(p, shared, H)
    PROVE  r.pool \in Pool /\ r.handle \in Handles \union {NoHandle}
<1>1. ASSUME NEW q \in Pool, r \in SharedResults(q, H)
      PROVE  r.pool \in Pool /\ r.handle \in Handles
  <2>1. PICK h \in Handles : r = Result(ShareConnection(q, h), h, FALSE)
    BY <1>1 DEF SharedResults, FreshHandles
  <2> QED
    BY <2>1, ShareType DEF Result
<1>2. [p EXCEPT !.crashed = "connect"] \in Pool
  BY DEF Pool, CrashCauses
<1>3. CASE r = Result(p, NoHandle, FALSE) \/ r = Result(p, p.cached, FALSE)
  BY <1>3 DEF Result, Pool
<1>4. CASE r \in BackendFailures(p)
  BY <1>2, <1>4 DEF BackendFailures, Result
<1>5. CASE r \in SharedResults(p, H)
  BY <1>1, <1>5
<1>6. CASE r \in OpenedResults(p, shared, H)
  <2>1. PICK k \in Connections : r \in SharedResults(OpenConnection(p, shared, k), H)
    BY <1>6 DEF OpenedResults, FreshConnections
  <2> QED
    BY <1>1, <2>1, OpenType
<1> QED
  BY <1>3, <1>4, <1>5, <1>6 DEF ConnectResults

\* The state of the pool before the first document is well typed.
LEMMA InitialPoolType == ASSUME NEW c \in Credentials PROVE InitialPool(c) \in Pool
<1>1. 0 \in 0 .. (CountModulus - 1)
  BY PoolAssumption
<1> QED
  BY <1>1 DEF InitialPool, Pool, CrashCauses

\* cleanup() leaves a known SIGSEGV disposition.
LEMMA RestoreSignalType ==
    ASSUME NEW s \in [handler : Dispositions, previous : Dispositions]
    PROVE  RestoreSignal(s) \in [handler : Dispositions, previous : Dispositions]
BY DEF RestoreSignal, Dispositions

-----------------------------------------------------------------------------
(* Type correctness *)

\* Every member of the pool, and of the objects it made, keeps its type.
THEOREM TypeCorrect == Spec => []TypeOK
<1>1. Init => TypeOK
  <2> SUFFICES ASSUME Init PROVE TypeOK
    OBVIOUS
  <2>1. pool \in Pool
    BY InitialPoolType DEF Init
  <2>2. sigsegv \in [handler : Dispositions, previous : Dispositions]
    BY DEF Init, Dispositions
  <2> QED
    BY <2>1, <2>2 DEF Init, TypeOK
<1>2. TypeOK /\ [Next]_vars => TypeOK'
  <2> SUFFICES ASSUME TypeOK, [Next]_vars PROVE TypeOK'
    OBVIOUS
  <2> USE DEF TypeOK
  <2>1. ASSUME NEW b \in Backends, NEW c \in Credentials, SetupFromDocument(b, c)
        PROVE  TypeOK'
    <3> DEFINE p == [pool EXCEPT !.backend = b, !.serving = FALSE, !.cred = c]
               q == InvalidateConnection(p, HeldHandles)
    <3>1. p \in Pool
      BY DEF Pool
    <3>2. q \in Pool
      BY <3>1, InvalidateType
    <3>3. [q EXCEPT !.ready = TRUE] \in Pool
      BY <3>2 DEF Pool
    <3> QED
      BY <2>1, <3>3 DEF SetupFromDocument
  <2>2. ASSUME NEW c \in Credentials, SetCredentials(c) PROVE TypeOK'
    <3>1. [pool EXCEPT !.cred = c] \in Pool
      BY DEF Pool
    <3> QED
      BY <2>2, <3>1, InvalidateType DEF SetCredentials
  <2>3. CASE SetReadyToConnect
    BY <2>3 DEF SetReadyToConnect, Pool
  <2>4. ASSUME NEW ok \in BOOLEAN, StartUp(ok) PROVE TypeOK'
    <3>1. pool' \in Pool
      BY <2>4 DEF StartUp, Pool
    <3>2. sigsegv' \in [handler : Dispositions, previous : Dispositions]
      BY <2>4 DEF StartUp, Dispositions
    <3> QED
      BY <2>4, <3>1, <3>2 DEF StartUp
  <2>5. ASSUME NEW stopped \in BOOLEAN, CleanUp(stopped) PROVE TypeOK'
    BY <2>5, CleanUpPoolType, RestoreSignalType DEF CleanUp
  <2>6. ASSUME NEW u \in Users, Acquire(u) PROVE TypeOK'
    <3>1. PICK r \in ConnectResults(pool, networkShared, HeldHandles) :
             pool' = r.pool /\ held' = [held EXCEPT ![u] = r.handle]
      BY <2>6 DEF Acquire
    <3>2. r.pool \in Pool /\ r.handle \in Handles \union {NoHandle}
      BY ConnectType
    <3> QED
      BY <2>6, <3>1, <3>2 DEF Acquire
  <2>7. ASSUME NEW u \in Users, Release(u) PROVE TypeOK'
    <3>1. held[u] \in Handles
      BY <2>7 DEF Release
    <3> QED
      BY <2>7, <3>1, DestroyType DEF Release
  <2>8. CASE ConnectNothrow
    BY <2>8, ConnectType DEF ConnectNothrow
  <2>9. CASE CacheTimeout
    <3>1. [pool EXCEPT !.timer = FALSE] \in Pool
      BY DEF Pool
    <3> QED
      BY <2>9, <3>1, ResetCacheType DEF CacheTimeout
  <2>10. ASSUME NEW stopped \in BOOLEAN, ToggleShared(stopped) PROVE TypeOK'
    <3>1. PICK r \in ConnectResults(pool, ~networkShared, HeldHandles) :
            LET p == IF r.handle = NoHandle THEN r.pool ELSE CloseHandle(r.pool, r.handle)
                aborted == r.threw \/ p.crashed # "none"
            IN  /\ pool' = IF aborted THEN p ELSE CleanUpPool(p, HeldHandles, stopped)
                /\ sigsegv' = IF aborted THEN sigsegv ELSE RestoreSignal(sigsegv)
      BY <2>10 DEF ToggleShared
    <3> DEFINE p == IF r.handle = NoHandle THEN r.pool ELSE CloseHandle(r.pool, r.handle)
    <3>2. r.pool \in Pool /\ r.handle \in Handles \union {NoHandle}
      BY ConnectType
    <3>3. p \in Pool
      BY <3>2, CloseType
    <3>4. CleanUpPool(p, HeldHandles, stopped) \in Pool
      BY <3>3, CleanUpPoolType
    <3>5. pool' \in Pool
      BY <3>1, <3>3, <3>4
    <3>6. sigsegv' \in [handler : Dispositions, previous : Dispositions]
      BY <3>1, RestoreSignalType
    <3> QED
      BY <2>10, <3>5, <3>6 DEF ToggleShared
  <2>11. CASE ConvertBackupBegin
    BY <2>11 DEF ConvertBackupBegin
  <2>12. ASSUME NEW restored \in BOOLEAN, ConvertBackupEnd(restored) PROVE TypeOK'
    <3>1. [pool EXCEPT !.crashed = "convert_backup"] \in Pool
      BY DEF Pool, CrashCauses
    <3> QED
      BY <2>12, <3>1 DEF ConvertBackupEnd
  <2>13. CASE Relaunch
    <3>1. pool.cred \in Credentials
      BY DEF Pool
    <3> QED
      BY <2>13, <3>1, InitialPoolType DEF Relaunch, Dispositions
  <2>14. CASE UNCHANGED vars
    BY <2>14 DEF vars
  <2> QED
    BY <2>1, <2>2, <2>3, <2>4, <2>5, <2>6, <2>7, <2>8, <2>9, <2>10, <2>11, <2>12, <2>13,
       <2>14 DEF Next
<1> QED
  BY <1>1, <1>2, PTL DEF Spec

-----------------------------------------------------------------------------
(* No connection outlives the credentials it was opened with. *)

\* Destroying unreferenced connections changes nothing connect() looks at.
LEMMA UnreferenceCurrent ==
    ASSUME NEW p \in Pool, CredentialsCurrentIn(p)
    PROVE  CredentialsCurrentIn(Unreference(p))
BY DEF Unreference, CredentialsCurrentIn, OpenedWithCurrent, Pool

\* A finished handle can only take the pool's connection away.
LEMMA FinishedCurrent ==
    ASSUME NEW p \in Pool, CredentialsCurrentIn(p)
    PROVE  CredentialsCurrentIn(OnSharedConnectionFinished(p))
BY DEF OnSharedConnectionFinished, CredentialsCurrentIn, OpenedWithCurrent, Pool

LEMMA EmitCurrent ==
    ASSUME NEW p \in Pool, CredentialsCurrentIn(p), NEW h
    PROVE  CredentialsCurrentIn(EmitFinished(p, h))
BY FinishedCurrent DEF EmitFinished

\* A handle without a connection is no stale connection.
LEMMA DropConnCurrent ==
    ASSUME NEW p \in Pool, CredentialsCurrentIn(p), NEW h \in Handles
    PROVE  CredentialsCurrentIn([p EXCEPT !.conn[h] = NoConnection])
BY DEF CredentialsCurrentIn, OpenedWithCurrent, Pool

LEMMA CloseCurrent ==
    ASSUME NEW p \in Pool, CredentialsCurrentIn(p), NEW h \in Handles
    PROVE  CredentialsCurrentIn(CloseHandle(p, h))
<1> DEFINE q == [p EXCEPT !.conn[h] = NoConnection]
<1>1. q \in Pool
  BY DEF Pool
<1> QED
  BY <1>1, DropConnCurrent, UnreferenceType, UnreferenceCurrent, EmitCurrent DEF CloseHandle

\* The destructor of a handle leaves the cache alone.
LEMMA DestroyKeepsCached ==
    ASSUME NEW p \in Pool, NEW h
    PROVE  DestroyHandle(p, h).cached = p.cached
<1>1. OnSharedConnectionFinished(p).cached = p.cached
  BY DEF OnSharedConnectionFinished, Pool
<1>2. EmitFinished(p, h) \in Pool /\ EmitFinished(p, h).cached = p.cached
  BY <1>1, EmitType DEF EmitFinished
<1>3. ASSUME NEW q \in Pool
      PROVE  Unreference([q EXCEPT !.conn[h] = NoConnection, !.listening = @ \ {h},
                                   !.latest = IF @ = h THEN NoHandle ELSE @]).cached = q.cached
  BY DEF Unreference, Pool
<1> QED
  BY <1>2, <1>3 DEF DestroyHandle

\* After connection_cached.reset() the cache is empty.
LEMMA ResetCacheForgets ==
    ASSUME NEW p \in Pool, NEW H
    PROVE  ResetCache(p, H).cached = NoHandle
<1> DEFINE q == [p EXCEPT !.cached = NoHandle]
<1>1. q \in Pool /\ q.cached = NoHandle
  BY DEF Pool
<1> QED
  BY <1>1, DestroyKeepsCached DEF ResetCache

LEMMA DestroyCurrent ==
    ASSUME NEW p \in Pool, CredentialsCurrentIn(p), NEW h \in Handles
    PROVE  CredentialsCurrentIn(DestroyHandle(p, h))
<1> DEFINE q == IF p.conn[h] = NoConnection THEN p ELSE EmitFinished(p, h)
           r == [q EXCEPT !.conn[h] = NoConnection]
           s == [r EXCEPT !.listening = @ \ {h}, !.latest = IF @ = h THEN NoHandle ELSE @]
<1>1. q \in Pool /\ CredentialsCurrentIn(q)
  BY EmitType, EmitCurrent
<1>2. r \in Pool /\ CredentialsCurrentIn(r)
  <2> HIDE DEF q
  <2>1. r \in Pool
    BY <1>1 DEF Pool
  <2> QED
    BY <1>1, <2>1, DropConnCurrent
<1>3. s \in Pool /\ CredentialsCurrentIn(s)
  <2> HIDE DEF r
  <2> DEFINE latest == IF r.latest = h THEN NoHandle ELSE r.latest
  <2>1. latest \in Handles \union {NoHandle}
    BY <1>2 DEF Pool
  <2> HIDE DEF latest
  <2>2. [r EXCEPT !.listening = @ \ {h}, !.latest = latest] \in Pool
    BY <1>2, <2>1 DEF Pool
  <2>3. CredentialsCurrentIn([r EXCEPT !.listening = @ \ {h}, !.latest = latest])
    BY <1>2 DEF CredentialsCurrentIn, OpenedWithCurrent, Pool
  <2> QED
    BY <2>2, <2>3 DEF latest
<1>4. DestroyHandle(p, h) = Unreference(s)
  <2> HIDE DEF q
  <2>1. s = [q EXCEPT !.conn[h] = NoConnection, !.listening = @ \ {h},
                      !.latest = IF @ = h THEN NoHandle ELSE @]
    BY <1>1 DEF Pool
  <2> QED
    BY <2>1 DEF DestroyHandle, q
<1> QED
  BY <1>3, <1>4, UnreferenceCurrent

LEMMA ResetCacheCurrent ==
    ASSUME NEW p \in Pool, CredentialsCurrentIn(p), NEW H
    PROVE  CredentialsCurrentIn(ResetCache(p, H))
<1> DEFINE q == [p EXCEPT !.cached = NoHandle]
<1>1. q \in Pool /\ CredentialsCurrentIn(q)
  BY DEF CredentialsCurrentIn, OpenedWithCurrent, Pool
<1>2. p.cached \notin H \union {NoHandle} => p.cached \in Handles
  BY DEF Pool
<1> QED
  BY <1>1, <1>2, DestroyCurrent DEF ResetCache

\* Whatever the credentials were, invalidate_connection() leaves nothing
\* that was opened with them.
LEMMA InvalidateCurrent ==
    ASSUME NEW p \in Pool, NEW H
    PROVE  CredentialsCurrentIn(InvalidateConnection(p, H))
<1> DEFINE q == ResetCache(p, H)
           r == [q EXCEPT !.timer = FALSE, !.listening = @ \ {q.latest}, !.latest = NoHandle,
                          !.open = @ \ {q.gda}, !.gda = NoConnection, !.refcount = 0,
                          !.fieldTypes = NoCredential]
<1>0. q \in Pool
  BY ResetCacheType
<1>1. q.cached = NoHandle
  BY ResetCacheForgets
<1>2. 0 \in 0 .. (CountModulus - 1)
  BY PoolAssumption
<1>3. r \in Pool
  BY <1>0, <1>2 DEF Pool
<1>4. CredentialsCurrentIn(r)
  <2> HIDE DEF q
  <2> QED
    BY <1>0, <1>1 DEF CredentialsCurrentIn, OpenedWithCurrent, Pool
<1> QED
  BY <1>3, <1>4, UnreferenceCurrent DEF InvalidateConnection

LEMMA CleanUpPoolCurrent ==
    ASSUME NEW p \in Pool, NEW H, NEW stopped \in BOOLEAN
    PROVE  CredentialsCurrentIn(CleanUpPool(p, H, stopped))
<1> DEFINE q == [p EXCEPT !.ready = FALSE]
           r == InvalidateConnection(q, H)
<1>1. q \in Pool
  BY DEF Pool
<1>2. r \in Pool /\ CredentialsCurrentIn(r)
  BY <1>1, InvalidateType, InvalidateCurrent
<1>3. ASSUME NEW s \in Pool, CredentialsCurrentIn(s), NEW serving
      PROVE  CredentialsCurrentIn([s EXCEPT !.serving = serving])
  BY <1>3 DEF CredentialsCurrentIn, OpenedWithCurrent, Pool
<1> QED
  BY <1>2, <1>3 DEF CleanUpPool

\* A new handle gets the pool's own connection.
LEMMA ShareCurrent ==
    ASSUME NEW p \in Pool, CredentialsCurrentIn(p), NEW h \in Handles
    PROVE  CredentialsCurrentIn(ShareConnection(p, h))
BY DEF ShareConnection, CredentialsCurrentIn, OpenedWithCurrent, Pool

\* A new connection is opened with the current credentials.
LEMMA OpenCurrent ==
    ASSUME NEW p \in Pool, CredentialsCurrentIn(p), NEW shared, NEW k \in Connections
    PROVE  CredentialsCurrentIn(OpenConnection(p, shared, k))
BY DEF OpenConnection, CredentialsCurrentIn, OpenedWithCurrent, Pool

LEMMA ConnectCurrent ==
    ASSUME NEW p \in Pool, CredentialsCurrentIn(p), NEW shared \in BOOLEAN, NEW H,
           NEW r \in ConnectResults(p, shared, H)
    PROVE  CredentialsCurrentIn(r.pool)
<1>1. ASSUME NEW q \in Pool, CredentialsCurrentIn(q), r \in SharedResults(q, H)
      PROVE  CredentialsCurrentIn(r.pool)
  <2>1. PICK h \in Handles : r = Result(ShareConnection(q, h), h, FALSE)
    BY <1>1 DEF SharedResults, FreshHandles
  <2> QED
    BY <1>1, <2>1, ShareCurrent DEF Result
<1>2. CredentialsCurrentIn([p EXCEPT !.crashed = "connect"])
  BY DEF CredentialsCurrentIn, OpenedWithCurrent, Pool
<1>3. CASE r = Result(p, NoHandle, FALSE) \/ r = Result(p, p.cached, FALSE)
  BY <1>3 DEF Result
<1>4. CASE r \in BackendFailures(p)
  BY <1>2, <1>4 DEF BackendFailures, Result
<1>5. CASE r \in SharedResults(p, H)
  BY <1>1, <1>5
<1>6. CASE r \in OpenedResults(p, shared, H)
  <2>1. PICK k \in Connections : r \in SharedResults(OpenConnection(p, shared, k), H)
    BY <1>6 DEF OpenedResults, FreshConnections
  <2> QED
    BY <1>1, <2>1, OpenType, OpenCurrent
<1> QED
  BY <1>3, <1>4, <1>5, <1>6 DEF ConnectResults

\* Nothing connect() could hand out was ever opened with other credentials
\* than the current ones, even if a caller keeps a handle from before: the
\* claim CredentialsCurrent, by induction on the steps, with TypeOK.
THEOREM CredentialsStayCurrent == Spec => []CredentialsCurrent
<1>1. Init => CredentialsCurrent
  BY DEF Init, InitialPool, CredentialsCurrent, CredentialsCurrentIn, OpenedWithCurrent
<1>2. TypeOK /\ CredentialsCurrent /\ [Next]_vars => CredentialsCurrent'
  <2> SUFFICES ASSUME TypeOK, CredentialsCurrent, [Next]_vars PROVE CredentialsCurrent'
    OBVIOUS
  <2>0. pool \in Pool /\ CredentialsCurrentIn(pool) /\ networkShared \in BOOLEAN
    BY DEF TypeOK, CredentialsCurrent
  <2> SUFFICES CredentialsCurrentIn(pool')
    BY DEF CredentialsCurrent, CredentialsCurrentIn, OpenedWithCurrent
  <2>1. ASSUME NEW b \in Backends, NEW c \in Credentials, SetupFromDocument(b, c)
        PROVE  CredentialsCurrentIn(pool')
    <3> DEFINE p == [pool EXCEPT !.backend = b, !.serving = FALSE, !.cred = c]
               q == InvalidateConnection(p, HeldHandles)
    <3>1. p \in Pool
      BY <2>0 DEF Pool
    <3>2. q \in Pool /\ CredentialsCurrentIn(q)
      BY <3>1, InvalidateType, InvalidateCurrent
    <3>3. CredentialsCurrentIn([q EXCEPT !.ready = TRUE])
      BY <3>2 DEF CredentialsCurrentIn, OpenedWithCurrent, Pool
    <3> QED
      BY <2>1, <3>3 DEF SetupFromDocument
  <2>2. ASSUME NEW c \in Credentials, SetCredentials(c) PROVE CredentialsCurrentIn(pool')
    <3>1. [pool EXCEPT !.cred = c] \in Pool
      BY <2>0 DEF Pool
    <3> QED
      BY <2>2, <3>1, InvalidateCurrent DEF SetCredentials
  <2>3. CASE SetReadyToConnect
    BY <2>0, <2>3 DEF SetReadyToConnect, CredentialsCurrentIn, OpenedWithCurrent, Pool
  <2>4. ASSUME NEW ok \in BOOLEAN, StartUp(ok) PROVE CredentialsCurrentIn(pool')
    BY <2>0, <2>4 DEF StartUp, CredentialsCurrentIn, OpenedWithCurrent, Pool
  <2>5. ASSUME NEW stopped \in BOOLEAN, CleanUp(stopped) PROVE CredentialsCurrentIn(pool')
    BY <2>0, <2>5, CleanUpPoolCurrent DEF CleanUp
  <2>6. ASSUME NEW u \in Users, Acquire(u) PROVE CredentialsCurrentIn(pool')
    BY <2>0, <2>6, ConnectCurrent DEF Acquire
  <2>7. ASSUME NEW u \in Users, Release(u) PROVE CredentialsCurrentIn(pool')
    <3>1. held[u] \in Handles
      BY <2>7 DEF Release, TypeOK
    <3> QED
      BY <2>0, <2>7, <3>1, DestroyCurrent DEF Release
  <2>8. CASE ConnectNothrow
    BY <2>0, <2>8, ConnectCurrent DEF ConnectNothrow
  <2>9. CASE CacheTimeout
    <3>1. [pool EXCEPT !.timer = FALSE] \in Pool
      BY <2>0 DEF Pool
    <3>2. CredentialsCurrentIn([pool EXCEPT !.timer = FALSE])
      BY <2>0 DEF CredentialsCurrentIn, OpenedWithCurrent, Pool
    <3> QED
      BY <2>9, <3>1, <3>2, ResetCacheCurrent DEF CacheTimeout
  <2>10. ASSUME NEW stopped \in BOOLEAN, ToggleShared(stopped) PROVE CredentialsCurrentIn(pool')
    <3>1. PICK r \in ConnectResults(pool, ~networkShared, HeldHandles) :
            LET p == IF r.handle = NoHandle THEN r.pool ELSE CloseHandle(r.pool, r.handle)
                aborted == r.threw \/ p.crashed # "none"
            IN  pool' = IF aborted THEN p ELSE CleanUpPool(p, HeldHandles, stopped)
      BY <2>10 DEF ToggleShared
    <3> DEFINE p == IF r.handle = NoHandle THEN r.pool ELSE CloseHandle(r.pool, r.handle)
    <3>2. r.pool \in Pool /\ r.handle \in Handles \union {NoHandle}
      BY <2>0, ConnectType
    <3>3. CredentialsCurrentIn(r.pool)
      BY <2>0, ConnectCurrent
    <3>4. p \in Pool /\ CredentialsCurrentIn(p)
      BY <3>2, <3>3, CloseType, CloseCurrent
    <3> QED
      BY <3>1, <3>4, CleanUpPoolCurrent
  <2>11. CASE ConvertBackupBegin
    BY <2>0, <2>11 DEF ConvertBackupBegin
  <2>12. ASSUME NEW restored \in BOOLEAN, ConvertBackupEnd(restored)
         PROVE  CredentialsCurrentIn(pool')
    <3>1. CredentialsCurrentIn([pool EXCEPT !.crashed = "convert_backup"])
      BY <2>0 DEF CredentialsCurrentIn, OpenedWithCurrent, Pool
    <3> QED
      BY <2>0, <2>12, <3>1 DEF ConvertBackupEnd
  <2>13. CASE Relaunch
    BY <2>13 DEF Relaunch, InitialPool, CredentialsCurrentIn, OpenedWithCurrent
  <2>14. CASE UNCHANGED vars
    BY <2>0, <2>14 DEF vars
  <2> QED
    BY <2>1, <2>2, <2>3, <2>4, <2>5, <2>6, <2>7, <2>8, <2>9, <2>10, <2>11, <2>12, <2>13,
       <2>14 DEF Next
<1> QED
  BY <1>1, <1>2, TypeCorrect, PTL DEF Spec

-----------------------------------------------------------------------------
(* Part 2.  The inductive invariant: the reference count is exact. *)

\* p counts exactly the handles of L, all of which share its one connection.
Counts(p, L) ==
    /\ L \subseteq Handles
    /\ p.listening = L
    /\ p.refcount = Cardinality(L)
    /\ \A h \in L : p.conn[h] = p.gda

\* There is a connection exactly as long as a handle of L is alive.
Shares(p, L) ==
    /\ Counts(p, L)
    /\ p.gda # NoConnection <=> L # {}
    /\ p.gda # NoConnection => p.gda \in p.open

Live(p, H) == H \union ({p.cached} \ {NoHandle})

SharingInv == TypeOK /\ Shares(pool, Live(pool, HeldHandles))

-----------------------------------------------------------------------------
(* The handles and their number *)

\* Sets of handles are finite and fewer than a guint counts.
LEMMA FewHandles ==
    ASSUME NEW L, L \subseteq Handles
    PROVE  IsFiniteSet(L) /\ Cardinality(L) \in Nat /\ Cardinality(L) < CountModulus
BY HandlesAssumption, PoolAssumption, FS_Subset, FS_CardinalityType

\* One more handle is one more reference, without overflow.
LEMMA CountUp ==
    ASSUME NEW L, L \subseteq Handles, NEW h \in Handles \ L
    PROVE  Increment(Cardinality(L)) = Cardinality(L \union {h})
<1>1. IsFiniteSet(L) /\ Cardinality(L) \in Nat
  BY FewHandles
<1>2. Cardinality(L \union {h}) = Cardinality(L) + 1
  BY <1>1, FS_AddElement
<1>3. Cardinality(L \union {h}) < CountModulus
  BY FewHandles
<1> QED
  BY <1>1, <1>2, <1>3, PoolAssumption DEF Increment

\* One handle fewer is one reference fewer, and the last one leaves zero.
LEMMA CountDown ==
    ASSUME NEW L, L \subseteq Handles, NEW h \in L
    PROVE  /\ Decrement(Cardinality(L)) = Cardinality(L \ {h})
           /\ Cardinality(L \ {h}) = 0 <=> L \ {h} = {}
<1>1. IsFiniteSet(L) /\ Cardinality(L) \in Nat /\ IsFiniteSet(L \ {h})
  BY FewHandles
<1>2. Cardinality(L \ {h}) = Cardinality(L) - 1
  BY <1>1, FS_RemoveElement
<1>3. Cardinality(L) # 0
  BY <1>1, FS_EmptySet
<1>4. Cardinality(L \ {h}) = 0 <=> L \ {h} = {}
  BY <1>1, FS_EmptySet
<1> QED
  BY <1>1, <1>2, <1>3, <1>4 DEF Decrement

-----------------------------------------------------------------------------
(* What each method does to a pool whose count is exact *)

\* A new handle on an open connection is counted.
LEMMA ShareShares ==
    ASSUME NEW p \in Pool, NEW L, Counts(p, L), p.gda # NoConnection, p.gda \in p.open,
           NEW h \in Handles \ L
    PROVE  /\ Shares(ShareConnection(p, h), L \union {h})
           /\ ShareConnection(p, h).cached = h
           /\ ShareConnection(p, h).gda = p.gda
           /\ ShareConnection(p, h).crashed = p.crashed
<1> DEFINE q == ShareConnection(p, h)
<1>1. Increment(p.refcount) = Cardinality(L \union {h})
  BY CountUp DEF Counts
<1>2. /\ q.gda = p.gda /\ q.open = p.open /\ q.cached = h /\ q.crashed = p.crashed
      /\ q.refcount = Increment(p.refcount)
      /\ q.listening = p.listening \union {h}
      /\ q.conn = [p.conn EXCEPT ![h] = p.gda]
  BY DEF ShareConnection, Pool
<1>3. \A g \in L \union {h} : q.conn[g] = q.gda
  BY <1>2 DEF Counts, Pool
<1> QED
  BY <1>1, <1>2, <1>3 DEF Shares, Counts

\* Emitting signal_finished gives one reference back, and the connection
\* with the last one.
LEMMA EmitShares ==
    ASSUME NEW p \in Pool, NEW L, Shares(p, L), NEW h \in L
    PROVE  /\ EmitFinished(p, h).refcount = Cardinality(L \ {h})
           /\ L \ {h} = {} => EmitFinished(p, h).gda = NoConnection
           /\ L \ {h} # {} => /\ EmitFinished(p, h).gda = p.gda
                              /\ EmitFinished(p, h).open = p.open
           /\ EmitFinished(p, h).conn = p.conn
           /\ EmitFinished(p, h).listening = p.listening
           /\ EmitFinished(p, h).cached = p.cached
           /\ EmitFinished(p, h).crashed = p.crashed
<1> DEFINE n == Decrement(p.refcount)
<1>1. n = Cardinality(L \ {h}) /\ (Cardinality(L \ {h}) = 0 <=> L \ {h} = {})
  BY CountDown DEF Shares, Counts
<1>2. p.gda # NoConnection /\ EmitFinished(p, h) = OnSharedConnectionFinished(p)
  BY DEF EmitFinished, Shares, Counts
<1>3. CASE L \ {h} = {}
  <2>1. n = 0
    BY <1>1, <1>3
  <2> QED
    BY <1>1, <1>2, <1>3, <2>1 DEF OnSharedConnectionFinished, Pool
<1>4. CASE L \ {h} # {}
  <2>1. n # 0
    BY <1>1, <1>4
  <2> QED
    BY <1>1, <1>2, <1>4, <2>1 DEF OnSharedConnectionFinished, Pool
<1> QED
  BY <1>3, <1>4

\* The destructor of a live handle uncounts it.
LEMMA DestroyShares ==
    ASSUME NEW p \in Pool, NEW L, Shares(p, L), NEW h \in L
    PROVE  /\ Shares(DestroyHandle(p, h), L \ {h})
           /\ DestroyHandle(p, h).cached = p.cached
           /\ DestroyHandle(p, h).crashed = p.crashed
<1> DEFINE q == EmitFinished(p, h)
           s == [q EXCEPT !.conn[h] = NoConnection, !.listening = @ \ {h},
                          !.latest = IF @ = h THEN NoHandle ELSE @]
<1>1. q \in Pool
  BY EmitType
<1>2. /\ q.refcount = Cardinality(L \ {h})
      /\ L \ {h} = {} => q.gda = NoConnection
      /\ L \ {h} # {} => q.gda = p.gda /\ q.open = p.open
      /\ q.conn = p.conn /\ q.listening = p.listening
      /\ q.cached = p.cached /\ q.crashed = p.crashed
  BY EmitShares
<1>3. p.conn[h] # NoConnection
  BY DEF Shares, Counts
<1>4. DestroyHandle(p, h) = Unreference(s)
  BY <1>3 DEF DestroyHandle
<1> HIDE DEF q
<1>5. /\ s.refcount = q.refcount /\ s.gda = q.gda /\ s.open = q.open
      /\ s.conn = [q.conn EXCEPT ![h] = NoConnection]
      /\ s.listening = q.listening \ {h}
      /\ s.cached = q.cached /\ s.crashed = q.crashed
  BY <1>1 DEF Pool
<1> DEFINE d == Unreference(s)
<1>6. /\ d.refcount = s.refcount /\ d.gda = s.gda /\ d.conn = s.conn
      /\ d.listening = s.listening /\ d.cached = s.cached /\ d.crashed = s.crashed
      /\ s.gda \in s.open => s.gda \in d.open
  BY <1>1 DEF Unreference, Pool
<1> HIDE DEF s, d
<1>7. \A g \in L \ {h} : d.conn[g] = p.gda
  BY <1>2, <1>5, <1>6 DEF Shares, Counts, Pool
<1>8. Counts(d, L \ {h})
  BY <1>2, <1>5, <1>6, <1>7 DEF Shares, Counts
<1>9. Shares(d, L \ {h})
  BY <1>2, <1>5, <1>6, <1>8 DEF Shares, Counts
<1> QED
  BY <1>2, <1>4, <1>5, <1>6, <1>9 DEF d

\* Without the cache only the callers' handles are left.
LEMMA ResetCacheShares ==
    ASSUME NEW p \in Pool, NEW H, H \subseteq Handles, Shares(p, Live(p, H))
    PROVE  /\ Shares(ResetCache(p, H), H)
           /\ ResetCache(p, H).cached = NoHandle
           /\ ResetCache(p, H).crashed = p.crashed
<1> DEFINE q == [p EXCEPT !.cached = NoHandle]
<1>1. q \in Pool /\ q.cached = NoHandle /\ q.crashed = p.crashed
  BY DEF Pool
<1>2. ASSUME NEW L, Shares(p, L) PROVE Shares(q, L)
  BY <1>2 DEF Shares, Counts, Pool
<1>3. CASE p.cached \in H \union {NoHandle}
  <2>1. Live(p, H) = H
    BY <1>3 DEF Live
  <2> QED
    BY <1>1, <1>2, <1>3, <2>1 DEF ResetCache
<1>4. CASE p.cached \notin H \union {NoHandle}
  <2>1. p.cached \in Live(p, H) /\ Live(p, H) \ {p.cached} = H
    BY <1>4 DEF Live
  <2>2. ResetCache(p, H) = DestroyHandle(q, p.cached)
    BY <1>4 DEF ResetCache
  <2> HIDE DEF q
  <2>3. Shares(q, Live(p, H))
    BY <1>2
  <2> DEFINE L == Live(p, H)
  <2> HIDE DEF L
  <2>4. Shares(q, L) /\ p.cached \in L /\ L \ {p.cached} = H
    BY <2>1, <2>3 DEF L
  <2> QED
    BY <1>1, <2>2, <2>4, DestroyShares
<1> QED
  BY <1>3, <1>4

\* With nobody holding a handle, forgetting the cached one disconnects the
\* last handler there is.
LEMMA ResetCacheSilences ==
    ASSUME NEW p \in Pool, p.listening \subseteq {p.cached}
    PROVE  ResetCache(p, {}).listening = {}
<1> DEFINE q == [p EXCEPT !.cached = NoHandle]
<1>1. q \in Pool /\ q.listening = p.listening
  BY DEF Pool
<1>2. CASE p.cached = NoHandle
  BY <1>1, <1>2, PoolAssumption DEF ResetCache, Pool
<1>3. CASE p.cached # NoHandle
  <2> DEFINE e == IF q.conn[p.cached] = NoConnection THEN q ELSE EmitFinished(q, p.cached)
             s == [e EXCEPT !.conn[p.cached] = NoConnection, !.listening = @ \ {p.cached},
                            !.latest = IF @ = p.cached THEN NoHandle ELSE @]
  <2>1. OnSharedConnectionFinished(q).listening = q.listening
    BY <1>1 DEF OnSharedConnectionFinished, Pool
  <2>2. e \in Pool /\ e.listening = p.listening
    BY <1>1, <2>1, EmitType DEF EmitFinished
  <2>3. ResetCache(p, {}) = Unreference(s)
    BY <1>3 DEF ResetCache, DestroyHandle
  <2> HIDE DEF e
  <2>4. s.listening = {}
    BY <2>2 DEF Pool
  <2> HIDE DEF s
  <2>5. Unreference(s).listening = s.listening
    <3> QED
      BY <2>2 DEF Unreference, Pool, s
  <2> QED
    BY <2>3, <2>4, <2>5
<1> QED
  BY <1>2, <1>3

\* invalidate_connection() with nobody holding a handle leaves no handle, no
\* reference and no connection.
LEMMA InvalidateShares ==
    ASSUME NEW p \in Pool, p.listening \subseteq {p.cached}
    PROVE  LET r == InvalidateConnection(p, {})
           IN  Shares(r, {}) /\ r.cached = NoHandle /\ r.gda = NoConnection
<1> DEFINE q == ResetCache(p, {})
           s == [q EXCEPT !.timer = FALSE, !.listening = @ \ {q.latest}, !.latest = NoHandle,
                          !.open = @ \ {q.gda}, !.gda = NoConnection, !.refcount = 0,
                          !.fieldTypes = NoCredential]
<1>1. q \in Pool
  BY ResetCacheType
<1>2. q.cached = NoHandle /\ q.listening = {}
  BY ResetCacheForgets, ResetCacheSilences
<1>3. InvalidateConnection(p, {}) = Unreference(s)
  BY DEF InvalidateConnection
<1> HIDE DEF q
<1>4. /\ s.gda = NoConnection /\ s.refcount = 0 /\ s.listening = q.listening \ {q.latest}
      /\ s.cached = q.cached
  BY <1>1 DEF Pool
<1>5. LET r == Unreference(s)
      IN  /\ r.gda = s.gda /\ r.refcount = s.refcount /\ r.listening = s.listening
          /\ r.cached = s.cached
  BY <1>1 DEF Unreference, Pool
<1>6. Cardinality({}) = 0
  BY FS_EmptySet
<1> HIDE DEF s
<1> QED
  BY <1>2, <1>3, <1>4, <1>5, <1>6 DEF Shares, Counts

\* cleanup() with nobody holding a handle leaves no connection either.
LEMMA CleanUpPoolShares ==
    ASSUME NEW p \in Pool, p.listening \subseteq {p.cached}, NEW stopped \in BOOLEAN
    PROVE  LET r == CleanUpPool(p, {}, stopped)
           IN  Shares(r, {}) /\ r.cached = NoHandle /\ r.gda = NoConnection
<1> DEFINE q == [p EXCEPT !.ready = FALSE]
           r == InvalidateConnection(q, {})
<1>1. q \in Pool /\ q.listening \subseteq {q.cached}
  BY DEF Pool
<1>2. r \in Pool /\ Shares(r, {}) /\ r.cached = NoHandle /\ r.gda = NoConnection
  BY <1>1, InvalidateType, InvalidateShares
<1>3. ASSUME NEW s \in Pool, Shares(s, {}), NEW serving
      PROVE  LET t == [s EXCEPT !.serving = serving]
             IN  Shares(t, {}) /\ t.cached = s.cached /\ t.gda = s.gda
  BY <1>3 DEF Shares, Counts, Pool
<1> QED
  BY <1>2, <1>3 DEF CleanUpPool

\* What connect() returns is counted, and stays in the cache; without a
\* handle nothing changes but that the process may have crashed.
LEMMA ConnectShares ==
    ASSUME NEW p \in Pool, NEW H, H \subseteq Handles, Shares(p, Live(p, H)),
           NEW shared \in BOOLEAN, NEW r \in ConnectResults(p, shared, H)
    PROVE  /\ Shares(r.pool, Live(r.pool, H))
           /\ r.handle # NoHandle => /\ r.pool.cached = r.handle
                                     /\ r.pool.gda # NoConnection
                                     /\ r.pool.crashed = p.crashed
                                     /\ ~r.threw
           /\ r.handle = NoHandle => r.pool.gda = p.gda /\ r.pool.cached = p.cached
<1>1. ASSUME NEW q \in Pool, Counts(q, H), q.cached = NoHandle, q.gda # NoConnection,
             q.gda \in q.open, q.crashed = p.crashed, r \in SharedResults(q, H)
      PROVE  /\ Shares(r.pool, Live(r.pool, H))
             /\ r.handle # NoHandle /\ r.pool.cached = r.handle
             /\ r.pool.gda # NoConnection
             /\ r.pool.crashed = p.crashed
             /\ ~r.threw
  <2>1. PICK h \in FreshHandles(q, H) : r = Result(ShareConnection(q, h), h, FALSE)
    BY <1>1 DEF SharedResults
  <2>2. h \in Handles \ H /\ h # NoHandle
    BY PoolAssumption DEF FreshHandles
  <2>3. /\ r.pool = ShareConnection(q, h) /\ r.handle = h /\ r.threw = FALSE
    BY <2>1 DEF Result
  <2>4. /\ Shares(r.pool, H \union {h}) /\ r.pool.cached = h /\ r.pool.gda = q.gda
        /\ r.pool.crashed = q.crashed
    BY <1>1, <2>2, <2>3, ShareShares
  <2>5. Live(r.pool, H) = H \union {h}
    BY <2>2, <2>4 DEF Live
  <2> QED
    BY <1>1, <2>2, <2>3, <2>4, <2>5
<1>2. CASE p.cached = NoHandle /\ p.gda # NoConnection /\ r \in SharedResults(p, H)
  <2>1. Live(p, H) = H
    BY <1>2 DEF Live
  <2> QED
    BY <1>1, <1>2, <2>1 DEF Shares
<1>3. CASE p.cached = NoHandle /\ p.gda = NoConnection /\ r \in OpenedResults(p, shared, H)
  <2>1. Live(p, H) = H /\ H = {}
    BY <1>3 DEF Live, Shares
  <2>2. PICK k \in Connections : r \in SharedResults(OpenConnection(p, shared, k), H)
    BY <1>3 DEF OpenedResults, FreshConnections
  <2> DEFINE q == OpenConnection(p, shared, k)
  <2>3. q \in Pool
    BY OpenType
  <2>4. /\ q.gda = k /\ k \in q.open /\ q.cached = p.cached /\ q.listening = p.listening
        /\ q.refcount = p.refcount /\ q.crashed = p.crashed
    BY DEF OpenConnection, Pool
  <2>5. Counts(q, H)
    BY <2>1, <2>4 DEF Shares, Counts
  <2> HIDE DEF q
  <2>6. r \in SharedResults(q, H)
    BY <2>2 DEF q
  <2> QED
    BY <1>1, <1>3, <2>3, <2>4, <2>5, <2>6, PoolAssumption
<1>4. CASE r = Result(p, NoHandle, FALSE) \/ r = Result(p, NoHandle, TRUE)
  BY <1>4 DEF Result
<1>5. CASE p.cached # NoHandle /\ r = Result(p, p.cached, FALSE)
  <2>1. p.gda # NoConnection
    BY <1>5 DEF Live, Shares
  <2> QED
    BY <1>5, <2>1 DEF Result
<1>6. CASE r = Result([p EXCEPT !.crashed = "connect"], NoHandle, FALSE)
  <2> DEFINE q == [p EXCEPT !.crashed = "connect"]
  <2>1. q.gda = p.gda /\ q.cached = p.cached
    BY DEF Pool
  <2>2. Shares(q, Live(q, H))
    BY <2>1 DEF Shares, Counts, Live, Pool
  <2> QED
    BY <1>6, <2>1, <2>2 DEF Result
<1>7. CASE p.cached = NoHandle /\ p.gda = NoConnection /\ r \in BackendFailures(p)
  BY <1>4, <1>6, <1>7 DEF BackendFailures
<1> QED
  BY <1>2, <1>3, <1>4, <1>5, <1>7 DEF ConnectResults

\* close() of the one handle alive does not crash, and leaves its handler connected.
LEMMA CloseShares ==
    ASSUME NEW p \in Pool, NEW h \in Handles, Shares(p, {h}), p.cached = h
    PROVE  LET q == CloseHandle(p, h)
           IN  q.crashed = p.crashed /\ q.listening \subseteq {q.cached}
<1> DEFINE q == [p EXCEPT !.conn[h] = NoConnection]
           r == Unreference(q)
<1>1. q \in Pool
  BY DEF Pool
<1>2. r \in Pool
  BY <1>1, UnreferenceType
<1>3. /\ q.gda = p.gda /\ q.listening = p.listening /\ q.cached = p.cached
      /\ q.crashed = p.crashed /\ q.refcount = p.refcount
  BY DEF Pool
<1> HIDE DEF q
<1>4. /\ r.gda = q.gda /\ r.listening = q.listening /\ r.cached = q.cached
      /\ r.crashed = q.crashed /\ r.refcount = q.refcount
  BY <1>1 DEF Unreference, Pool
<1> HIDE DEF r
<1>5. r.gda # NoConnection /\ r.listening = {h} /\ r.cached = h
  BY <1>3, <1>4 DEF Shares, Counts
<1>6. LET s == OnSharedConnectionFinished(r)
      IN  s.crashed = r.crashed /\ s.listening = r.listening /\ s.cached = r.cached
  BY <1>2, <1>5 DEF OnSharedConnectionFinished, Pool
<1> QED
  BY <1>3, <1>4, <1>5, <1>6 DEF CloseHandle, EmitFinished, q, r

-----------------------------------------------------------------------------
(* The theorems *)

\* The discipline, in the form the proofs use it.
LEMMA Disciplined ==
    ASSUME ~Stragglers, MayInvalidate
    PROVE  HeldHandles = {}
BY DEF MayInvalidate

LEMMA HeldAreHandles == ASSUME TypeOK PROVE HeldHandles \subseteq Handles
BY DEF TypeOK, HeldHandles

\* A change of fields that no handle depends on.
LEMMA SameSharing ==
    ASSUME NEW p, NEW q, NEW H, Shares(p, Live(p, H)),
           q.gda = p.gda, q.open = p.open, q.conn = p.conn, q.listening = p.listening,
           q.cached = p.cached, q.refcount = p.refcount
    PROVE  Shares(q, Live(q, H))
BY DEF Shares, Counts, Live

\* What a handler that ends in invalidate_connection() leaves.
LEMMA Emptied ==
    ASSUME NEW p, Shares(p, {}), p.cached = NoHandle
    PROVE  Shares(p, Live(p, {}))
<1>1. Live(p, {}) = {}
  BY DEF Live
<1> QED
  BY <1>1

\* Before an invalidation, nothing but the cached handle can be connected.
LEMMA OnlyCacheListens ==
    ASSUME NEW p, Shares(p, Live(p, {}))
    PROVE  p.listening \subseteq {p.cached}
BY DEF Shares, Counts, Live

\* attempt_toggle_shared() closes the one handle there is before it cleans up.
LEMMA ToggleShares ==
    ASSUME NEW p \in Pool, NEW q, NEW shared \in BOOLEAN, NEW stopped \in BOOLEAN,
           Shares(p, Live(p, {})), p.crashed = "none",
           NEW r \in ConnectResults(p, shared, {}),
           LET c == IF r.handle = NoHandle THEN r.pool ELSE CloseHandle(r.pool, r.handle)
               aborted == r.threw \/ c.crashed # "none"
           IN  q = IF aborted THEN c ELSE CleanUpPool(c, {}, stopped)
    PROVE  /\ Shares(q, Live(q, {}))
           /\ q.gda # NoConnection => p.gda # NoConnection
<1> DEFINE c == IF r.handle = NoHandle THEN r.pool ELSE CloseHandle(r.pool, r.handle)
<1>1. r.pool \in Pool /\ r.handle \in Handles \union {NoHandle}
  BY ConnectType
<1>2. /\ Shares(r.pool, Live(r.pool, {}))
      /\ r.handle # NoHandle => r.pool.cached = r.handle /\ r.pool.crashed = p.crashed /\ ~r.threw
      /\ r.handle = NoHandle => r.pool.gda = p.gda /\ r.pool.cached = p.cached
  BY ConnectShares
<1>3. CASE r.handle = NoHandle
  <2>1. c = r.pool /\ c \in Pool /\ c.listening \subseteq {c.cached}
    BY <1>1, <1>2, <1>3, OnlyCacheListens
  <2>2. CASE q = c
    BY <1>2, <1>3, <2>1, <2>2
  <2>3. CASE q = CleanUpPool(c, {}, stopped)
    BY <2>1, <2>3, CleanUpPoolShares, Emptied
  <2> QED
    BY <2>2, <2>3
<1>4. CASE r.handle # NoHandle
  <2>1. Live(r.pool, {}) = {r.handle}
    BY <1>2, <1>4 DEF Live
  <2>2. c = CloseHandle(r.pool, r.handle)
    BY <1>4
  <2>3. c \in Pool /\ c.crashed = "none" /\ c.listening \subseteq {c.cached}
    BY <1>1, <1>2, <1>4, <2>1, <2>2, CloseShares, CloseType
  <2>4. q = CleanUpPool(c, {}, stopped)
    BY <1>2, <1>4, <2>3
  <2> QED
    BY <2>3, <2>4, CleanUpPoolShares, Emptied
<1> QED
  BY <1>3, <1>4

\* Where callers keep the discipline, the reference count is exact.
THEOREM SharingInvariant ==
    ASSUME ~Stragglers
    PROVE  Spec => []SharingInv
<1>1. Init => SharingInv
  <2> SUFFICES ASSUME Init PROVE SharingInv
    OBVIOUS
  <2>1. TypeOK
    <3>1. pool \in Pool
      BY InitialPoolType DEF Init
    <3>2. sigsegv \in [handler : Dispositions, previous : Dispositions]
      BY DEF Init, Dispositions
    <3> QED
      BY <3>1, <3>2 DEF Init, TypeOK
  <2>2. HeldHandles = {}
    BY DEF Init, HeldHandles
  <2>3. Shares(pool, {}) /\ pool.cached = NoHandle
    <3>1. Cardinality({}) = 0
      BY FS_EmptySet
    <3> QED
      BY <3>1 DEF Init, InitialPool, Shares, Counts
  <2> QED
    BY <2>1, <2>2, <2>3, Emptied DEF SharingInv
<1>2. SharingInv /\ TypeOK' /\ [Next]_vars => SharingInv'
  <2> SUFFICES ASSUME SharingInv, TypeOK', [Next]_vars
               PROVE  Shares(pool', Live(pool', HeldHandles'))
    BY DEF SharingInv, Shares, Counts, Live
  <2> DEFINE H == HeldHandles
  <2>0. /\ pool \in Pool /\ Shares(pool, Live(pool, H)) /\ networkShared \in BOOLEAN
        /\ held \in [Users -> Handles \union {NoHandle}] /\ H \subseteq Handles
    BY HeldAreHandles DEF SharingInv, TypeOK
  <2>a. held' = held => HeldHandles' = H
    BY DEF HeldHandles
  <2> HIDE DEF H
  <2>1. ASSUME NEW b \in Backends, NEW c \in Credentials, SetupFromDocument(b, c)
        PROVE  Shares(pool', Live(pool', HeldHandles'))
    <3> DEFINE p == [pool EXCEPT !.backend = b, !.serving = FALSE, !.cred = c]
               q == InvalidateConnection(p, {})
    <3>1. H = {} /\ HeldHandles' = {}
      BY <2>1, <2>a, Disciplined DEF SetupFromDocument, H
    <3>2. p \in Pool /\ p.listening = pool.listening /\ p.cached = pool.cached
      BY <2>0 DEF Pool
    <3>3. q \in Pool /\ Shares(q, {}) /\ q.cached = NoHandle
      BY <2>0, <3>1, <3>2, InvalidateType, InvalidateShares, OnlyCacheListens
    <3>4. pool' = [q EXCEPT !.ready = TRUE]
      BY <2>1, <3>1 DEF SetupFromDocument, H
    <3> HIDE DEF q
    <3>5. Shares(pool', {}) /\ pool'.cached = NoHandle
      BY <3>3, <3>4 DEF Shares, Counts, Pool
    <3> QED
      BY <3>1, <3>5, Emptied
  <2>2. ASSUME NEW c \in Credentials, SetCredentials(c)
        PROVE  Shares(pool', Live(pool', HeldHandles'))
    <3> DEFINE p == [pool EXCEPT !.cred = c]
    <3>1. H = {} /\ HeldHandles' = {}
      BY <2>2, <2>a, Disciplined DEF SetCredentials, H
    <3>2. p \in Pool /\ p.listening = pool.listening /\ p.cached = pool.cached
      BY <2>0 DEF Pool
    <3>3. pool' = InvalidateConnection(p, {})
      BY <2>2, <3>1 DEF SetCredentials, H
    <3> QED
      BY <2>0, <3>1, <3>2, <3>3, InvalidateShares, OnlyCacheListens, Emptied
  <2>3. CASE SetReadyToConnect
    <3>1. LET q == [pool EXCEPT !.ready = TRUE]
          IN  /\ q.gda = pool.gda /\ q.open = pool.open /\ q.conn = pool.conn
              /\ q.listening = pool.listening /\ q.cached = pool.cached
              /\ q.refcount = pool.refcount
      BY <2>0 DEF Pool
    <3> QED
      BY <2>0, <2>3, <2>a, <3>1, SameSharing DEF SetReadyToConnect
  <2>4. ASSUME NEW ok \in BOOLEAN, StartUp(ok)
        PROVE  Shares(pool', Live(pool', HeldHandles'))
    <3>1. /\ pool'.gda = pool.gda /\ pool'.open = pool.open /\ pool'.conn = pool.conn
          /\ pool'.listening = pool.listening /\ pool'.cached = pool.cached
          /\ pool'.refcount = pool.refcount
      BY <2>0, <2>4 DEF StartUp, Pool
    <3> QED
      BY <2>0, <2>4, <2>a, <3>1, SameSharing DEF StartUp
  <2>5. ASSUME NEW stopped \in BOOLEAN, CleanUp(stopped)
        PROVE  Shares(pool', Live(pool', HeldHandles'))
    <3>1. H = {} /\ HeldHandles' = {}
      BY <2>5, <2>a, Disciplined DEF CleanUp, H
    <3>2. pool' = CleanUpPool(pool, {}, stopped)
      BY <2>5, <3>1 DEF CleanUp, H
    <3> QED
      BY <2>0, <3>1, <3>2, CleanUpPoolShares, OnlyCacheListens, Emptied
  <2>6. ASSUME NEW u \in Users, Acquire(u)
        PROVE  Shares(pool', Live(pool', HeldHandles'))
    <3>1. PICK r \in ConnectResults(pool, networkShared, H) :
             pool' = r.pool /\ held' = [held EXCEPT ![u] = r.handle]
      BY <2>6 DEF Acquire, H
    <3>2. /\ Shares(r.pool, Live(r.pool, H))
          /\ r.handle # NoHandle => r.pool.cached = r.handle
      BY <2>0, ConnectShares
    <3>3. held[u] = NoHandle
      BY <2>6 DEF Acquire
    <3>4. HeldHandles' = H \union ({r.handle} \ {NoHandle})
      BY <2>0, <3>1, <3>3 DEF HeldHandles, H
    <3>5. Live(pool', HeldHandles') = Live(r.pool, H)
      BY <3>1, <3>2, <3>4 DEF Live
    <3> QED
      BY <3>1, <3>2, <3>5
  <2>7. ASSUME NEW u \in Users, Release(u)
        PROVE  Shares(pool', Live(pool', HeldHandles'))
    <3>1. held[u] \in H /\ held[u] # NoHandle /\ held' = [held EXCEPT ![u] = NoHandle]
      BY <2>0, <2>7 DEF Release, HeldHandles, H
    <3>2. CASE held[u] = pool.cached \/ \E v \in Users \ {u} : held[v] = held[u]
      <4>1. pool' = pool
        BY <2>7, <3>2 DEF Release
      <4>2. Live(pool, HeldHandles') = Live(pool, H)
        BY <2>0, <3>1, <3>2 DEF Live, HeldHandles, H
      <4> QED
        BY <2>0, <4>1, <4>2
    <3>3. CASE ~(held[u] = pool.cached \/ \E v \in Users \ {u} : held[v] = held[u])
      <4>1. pool' = DestroyHandle(pool, held[u])
        BY <2>7, <3>3 DEF Release
      <4>2. held[u] \in Live(pool, H)
        BY <3>1 DEF Live
      <4>3. Shares(pool', Live(pool, H) \ {held[u]}) /\ pool'.cached = pool.cached
        BY <2>0, <4>1, <4>2, DestroyShares
      <4>4. HeldHandles' = H \ {held[u]}
        BY <2>0, <3>1, <3>3 DEF HeldHandles, H
      <4>5. Live(pool', HeldHandles') = Live(pool, H) \ {held[u]}
        BY <3>3, <4>3, <4>4 DEF Live
      <4> QED
        BY <4>3, <4>5
    <3> QED
      BY <3>2, <3>3
  <2>8. CASE ConnectNothrow
    <3>1. PICK r \in ConnectResults(pool, networkShared, H) : pool' = r.pool
      BY <2>8 DEF ConnectNothrow, H
    <3> QED
      BY <2>0, <2>8, <2>a, <3>1, ConnectShares DEF ConnectNothrow
  <2>9. CASE CacheTimeout
    <3> DEFINE p == [pool EXCEPT !.timer = FALSE]
    <3>1. /\ p.gda = pool.gda /\ p.open = pool.open /\ p.conn = pool.conn
          /\ p.listening = pool.listening /\ p.cached = pool.cached
          /\ p.refcount = pool.refcount /\ p \in Pool
      BY <2>0 DEF Pool
    <3>2. pool' = ResetCache(p, H) /\ HeldHandles' = H
      BY <2>9, <2>a DEF CacheTimeout, H
    <3> HIDE DEF p
    <3>3. Shares(p, Live(p, H))
      BY <2>0, <3>1, SameSharing
    <3>4. Shares(pool', H) /\ pool'.cached = NoHandle
      BY <2>0, <3>1, <3>2, <3>3, ResetCacheShares
    <3>5. Live(pool', H) = H
      BY <3>4 DEF Live
    <3> QED
      BY <3>2, <3>4, <3>5
  <2>10. ASSUME NEW stopped \in BOOLEAN, ToggleShared(stopped)
         PROVE  Shares(pool', Live(pool', HeldHandles'))
    <3>1. H = {} /\ HeldHandles' = {}
      BY <2>10, <2>a, Disciplined DEF ToggleShared, H
    <3>2. pool.crashed = "none"
      BY <2>10 DEF ToggleShared, Running
    <3>3. PICK r \in ConnectResults(pool, ~networkShared, {}) :
            LET c == IF r.handle = NoHandle THEN r.pool ELSE CloseHandle(r.pool, r.handle)
                aborted == r.threw \/ c.crashed # "none"
            IN  pool' = IF aborted THEN c ELSE CleanUpPool(c, {}, stopped)
      BY <2>10, <3>1 DEF ToggleShared, H
    <3> QED
      BY <2>0, <3>1, <3>2, <3>3, ToggleShares
  <2>11. CASE ConvertBackupBegin
    BY <2>0, <2>11, <2>a DEF ConvertBackupBegin
  <2>12. ASSUME NEW restored \in BOOLEAN, ConvertBackupEnd(restored)
         PROVE  Shares(pool', Live(pool', HeldHandles'))
    <3>1. /\ pool'.gda = pool.gda /\ pool'.open = pool.open /\ pool'.conn = pool.conn
          /\ pool'.listening = pool.listening /\ pool'.cached = pool.cached
          /\ pool'.refcount = pool.refcount
      BY <2>0, <2>12 DEF ConvertBackupEnd, Pool
    <3> QED
      BY <2>0, <2>12, <2>a, <3>1, SameSharing DEF ConvertBackupEnd
  <2>13. CASE Relaunch
    <3>1. HeldHandles' = {}
      BY <2>13 DEF Relaunch, HeldHandles
    <3>2. Cardinality({}) = 0
      BY FS_EmptySet
    <3>3. Shares(pool', {}) /\ pool'.cached = NoHandle
      BY <2>13, <3>2 DEF Relaunch, InitialPool, Shares, Counts
    <3> QED
      BY <3>1, <3>3, Emptied
  <2>14. CASE UNCHANGED vars
    BY <2>0, <2>14, <2>a DEF vars
  <2> QED
    BY <2>1, <2>2, <2>3, <2>4, <2>5, <2>6, <2>7, <2>8, <2>9, <2>10, <2>11, <2>12, <2>13,
       <2>14 DEF Next
<1> QED
  BY <1>1, <1>2, TypeCorrect, PTL DEF Spec

\* A caller's handle is always on the pool's one open connection.
THEOREM HoldersAlwaysShare ==
    ASSUME ~Stragglers
    PROVE  Spec => []HoldersShareOpenConnection
<1>1. SharingInv => HoldersShareOpenConnection
  BY DEF SharingInv, Shares, Counts, Live, HeldHandles, HoldersShareOpenConnection
<1> QED
  BY <1>1, SharingInvariant, PTL

\* What connect() would return from its cache is connected.
THEOREM CacheAlwaysConnected ==
    ASSUME ~Stragglers
    PROVE  Spec => []CacheIsConnected
<1>1. SharingInv => CacheIsConnected
  BY DEF SharingInv, Shares, Live, CacheIsConnected
<1> QED
  BY <1>1, SharingInvariant, PTL

-----------------------------------------------------------------------------
(* What a step may do *)

\* A handle's destructor opens nothing: the connection stays or goes.
LEMMA DestroyKeepsOrCloses ==
    ASSUME NEW p \in Pool, NEW h \in Handles
    PROVE  DestroyHandle(p, h).gda \in {p.gda, NoConnection}
<1> DEFINE q == IF p.conn[h] = NoConnection THEN p ELSE EmitFinished(p, h)
           s == [q EXCEPT !.conn[h] = NoConnection, !.listening = @ \ {h},
                          !.latest = IF @ = h THEN NoHandle ELSE @]
<1>1. q \in Pool
  BY EmitType
<1>2. OnSharedConnectionFinished(p).gda \in {p.gda, NoConnection}
  BY DEF OnSharedConnectionFinished, Pool
<1>3. q.gda \in {p.gda, NoConnection}
  BY <1>2 DEF EmitFinished
<1>4. DestroyHandle(p, h) = Unreference(s)
  BY DEF DestroyHandle
<1> HIDE DEF q
<1>5. Unreference(s).gda = q.gda
  BY <1>1 DEF Unreference, Pool
<1> QED
  BY <1>3, <1>4, <1>5

LEMMA ResetCacheKeepsOrCloses ==
    ASSUME NEW p \in Pool, NEW H
    PROVE  ResetCache(p, H).gda \in {p.gda, NoConnection}
<1> DEFINE q == [p EXCEPT !.cached = NoHandle]
<1>1. q \in Pool /\ q.gda = p.gda
  BY DEF Pool
<1>2. p.cached \notin H \union {NoHandle} => p.cached \in Handles
  BY DEF Pool
<1> QED
  BY <1>1, <1>2, DestroyKeepsOrCloses DEF ResetCache

\* A release and the cache's timeout change nothing but by destroying handles.
LEMMA ReleaseOrTimeout ==
    ASSUME TypeOK, CacheTimeout \/ (\E u \in Users : Release(u))
    PROVE  /\ pool'.gda \in {pool.gda, NoConnection}
           /\ \A u \in Users : held'[u] \in {held[u], NoHandle}
<1>0. pool \in Pool /\ held \in [Users -> Handles \union {NoHandle}]
  BY DEF TypeOK
<1>1. CASE CacheTimeout
  <2> DEFINE p == [pool EXCEPT !.timer = FALSE]
  <2>1. p \in Pool /\ p.gda = pool.gda
    BY <1>0 DEF Pool
  <2>2. pool' = ResetCache(p, HeldHandles) /\ held' = held
    BY <1>1 DEF CacheTimeout
  <2> HIDE DEF p
  <2> QED
    BY <2>1, <2>2, ResetCacheKeepsOrCloses
<1>2. ASSUME NEW u \in Users, Release(u)
      PROVE  /\ pool'.gda \in {pool.gda, NoConnection}
             /\ \A v \in Users : held'[v] \in {held[v], NoHandle}
  <2>1. held[u] \in Handles /\ held' = [held EXCEPT ![u] = NoHandle]
    BY <1>0, <1>2 DEF Release
  <2>2. pool' \in {pool, DestroyHandle(pool, held[u])}
    BY <1>2 DEF Release
  <2>3. pool'.gda \in {pool.gda, NoConnection}
    BY <1>0, <2>1, <2>2, DestroyKeepsOrCloses
  <2> QED
    BY <1>0, <2>1, <2>3
<1> QED
  BY <1>1, <1>2

\* Neither a release nor the cache closes a connection somebody still has:
\* the property that a straggler breaks.
THEOREM LastUserCloses ==
    ASSUME ~Stragglers
    PROVE  Spec => OnlyLastUserCloses
<1>1. SharingInv /\ SharingInv' /\ [Next]_vars =>
        [CacheTimeout \/ (\E u \in Users : Release(u)) =>
           \A u \in Users :
              (held'[u] # NoHandle /\ pool.conn[held'[u]] \in pool.open)
                  => pool.conn[held'[u]] \in pool'.open]_vars
  <2> SUFFICES ASSUME SharingInv, SharingInv', CacheTimeout \/ (\E u \in Users : Release(u)),
                      NEW u \in Users, held'[u] # NoHandle
               PROVE  pool.conn[held'[u]] \in pool'.open
    OBVIOUS
  <2>1. pool'.gda \in {pool.gda, NoConnection} /\ held'[u] = held[u]
    BY ReleaseOrTimeout DEF SharingInv
  <2>2. held[u] \in HeldHandles /\ held'[u] \in HeldHandles'
    BY <2>1 DEF HeldHandles
  <2>3. pool.conn[held[u]] = pool.gda
    BY <2>2 DEF SharingInv, Shares, Counts, Live
  <2>4. pool'.gda # NoConnection /\ pool'.gda \in pool'.open
    BY <2>2 DEF SharingInv, Shares, Live
  <2> QED
    BY <2>1, <2>3, <2>4
<1> QED
  BY <1>1, SharingInvariant, PTL DEF OnlyLastUserCloses, Spec

\* Every step of the pool is one the promise allows: the safety half of
\* KeepsPromise.
THEOREM StepsKeepPromise ==
    ASSUME ~Stragglers
    PROVE  Spec => Promise!Init /\ [][Promise!Next]_(Promise!vars)
<1> DEFINE using == {u \in Users : held[u] # NoHandle}
           open == pool.gda # NoConnection
<1>1. Init => Promise!Init
  BY DEF Init, InitialPool, Promise!Init
<1>2. SharingInv /\ SharingInv' /\ [Next]_vars => [Promise!Next]_(Promise!vars)
  <2> SUFFICES ASSUME SharingInv, SharingInv', [Next]_vars
               PROVE  Promise!Next \/ (using' = using /\ open' = open)
    BY DEF Promise!vars
  <2>0. /\ pool \in Pool /\ Shares(pool, Live(pool, HeldHandles))
        /\ held \in [Users -> Handles \union {NoHandle}] /\ networkShared \in BOOLEAN
        /\ HeldHandles \subseteq Handles
    BY HeldAreHandles DEF SharingInv, TypeOK
  <2>a. HeldHandles = {} => using = {}
    BY DEF HeldHandles
  <2>b. held' = held => using' = using
    OBVIOUS
  <2>c. ASSUME held' = held, HeldHandles = {}, pool'.gda # NoConnection => pool.gda # NoConnection
        PROVE  Promise!Next \/ (using' = using /\ open' = open)
    BY <2>a, <2>b, <2>c DEF Promise!Next, Promise!CloseIdle
  <2>d. ASSUME held' = held, pool'.gda = pool.gda
        PROVE  Promise!Next \/ (using' = using /\ open' = open)
    BY <2>b, <2>d
  <2>1. ASSUME NEW b \in Backends, NEW c \in Credentials, SetupFromDocument(b, c)
        PROVE  Promise!Next \/ (using' = using /\ open' = open)
    <3> DEFINE p == [pool EXCEPT !.backend = b, !.serving = FALSE, !.cred = c]
               q == InvalidateConnection(p, {})
    <3>1. HeldHandles = {} /\ held' = held /\ pool' = [q EXCEPT !.ready = TRUE]
      BY <2>1, Disciplined DEF SetupFromDocument
    <3>2. p \in Pool /\ p.listening = pool.listening /\ p.cached = pool.cached
      BY <2>0 DEF Pool
    <3>3. q \in Pool /\ q.gda = NoConnection
      BY <2>0, <3>1, <3>2, InvalidateType, InvalidateShares, OnlyCacheListens
    <3> HIDE DEF q
    <3>4. pool'.gda = NoConnection
      BY <3>1, <3>3 DEF Pool
    <3> QED
      BY <2>c, <3>1, <3>4
  <2>2. ASSUME NEW c \in Credentials, SetCredentials(c)
        PROVE  Promise!Next \/ (using' = using /\ open' = open)
    <3> DEFINE p == [pool EXCEPT !.cred = c]
    <3>1. HeldHandles = {} /\ held' = held /\ pool' = InvalidateConnection(p, {})
      BY <2>2, Disciplined DEF SetCredentials
    <3>2. p \in Pool /\ p.listening = pool.listening /\ p.cached = pool.cached
      BY <2>0 DEF Pool
    <3>3. pool'.gda = NoConnection
      BY <2>0, <3>1, <3>2, InvalidateShares, OnlyCacheListens
    <3> QED
      BY <2>c, <3>1, <3>3
  <2>3. CASE SetReadyToConnect
    <3>1. [pool EXCEPT !.ready = TRUE].gda = pool.gda
      BY <2>0 DEF Pool
    <3> QED
      BY <2>3, <2>d, <3>1 DEF SetReadyToConnect
  <2>4. ASSUME NEW ok \in BOOLEAN, StartUp(ok)
        PROVE  Promise!Next \/ (using' = using /\ open' = open)
    <3>1. pool'.gda = pool.gda
      BY <2>0, <2>4 DEF StartUp, Pool
    <3> QED
      BY <2>4, <2>d, <3>1 DEF StartUp
  <2>5. ASSUME NEW stopped \in BOOLEAN, CleanUp(stopped)
        PROVE  Promise!Next \/ (using' = using /\ open' = open)
    <3>1. HeldHandles = {} /\ held' = held /\ pool' = CleanUpPool(pool, {}, stopped)
      BY <2>5, Disciplined DEF CleanUp
    <3>2. pool'.gda = NoConnection
      BY <2>0, <3>1, CleanUpPoolShares, OnlyCacheListens
    <3> QED
      BY <2>c, <3>1, <3>2
  <2>6. ASSUME NEW u \in Users, Acquire(u)
        PROVE  Promise!Next \/ (using' = using /\ open' = open)
    <3>1. PICK r \in ConnectResults(pool, networkShared, HeldHandles) :
             pool' = r.pool /\ held' = [held EXCEPT ![u] = r.handle]
      BY <2>6 DEF Acquire
    <3>2. /\ r.handle # NoHandle => r.pool.gda # NoConnection
          /\ r.handle = NoHandle => r.pool.gda = pool.gda
      BY <2>0, ConnectShares
    <3>3. held[u] = NoHandle
      BY <2>6 DEF Acquire
    <3>4. CASE r.handle = NoHandle
      <4>1. using' = using
        BY <2>0, <3>1, <3>3, <3>4
      <4> QED
        BY <3>1, <3>2, <3>4, <4>1
    <3>5. CASE r.handle # NoHandle
      <4>1. using' = using \union {u}
        BY <2>0, <3>1, <3>5
      <4>2. open' = TRUE
        BY <3>1, <3>2, <3>5
      <4> QED
        BY <4>1, <4>2 DEF Promise!Next, Promise!Use
    <3> QED
      BY <3>4, <3>5
  <2>7. ASSUME NEW u \in Users, Release(u)
        PROVE  Promise!Next \/ (using' = using /\ open' = open)
    <3>1. u \in using /\ using' = using \ {u}
      BY <2>0, <2>7 DEF Release
    <3>2. pool'.gda \in {pool.gda, NoConnection}
      BY <2>7, ReleaseOrTimeout DEF SharingInv
    <3>3. pool'.gda = NoConnection => HeldHandles' = {}
      BY DEF SharingInv, Shares, Live
    <3>4. HeldHandles' = {} => using' = {}
      BY DEF HeldHandles
    <3>5. open' = open \/ (using' = {} /\ open' = FALSE)
      BY <3>2, <3>3, <3>4
    <3> QED
      BY <3>1, <3>5 DEF Promise!Next, Promise!Finish
  <2>8. CASE ConnectNothrow
    <3>1. PICK r \in ConnectResults(pool, networkShared, HeldHandles) : pool' = r.pool
      BY <2>8 DEF ConnectNothrow
    <3>2. /\ r.handle # NoHandle => r.pool.gda # NoConnection
          /\ r.handle = NoHandle => r.pool.gda = pool.gda
      BY <2>0, ConnectShares
    <3>3. CASE r.handle = NoHandle
      BY <2>8, <2>d, <3>1, <3>2, <3>3 DEF ConnectNothrow
    <3>4. CASE r.handle # NoHandle
      <4>1. using' = using /\ open' = TRUE
        BY <2>8, <2>b, <3>1, <3>2, <3>4 DEF ConnectNothrow
      <4> QED
        BY <4>1 DEF Promise!Next, Promise!Prefetch
    <3> QED
      BY <3>3, <3>4
  <2>9. CASE CacheTimeout
    <3>1. held' = held /\ HeldHandles' = HeldHandles
      BY <2>9 DEF CacheTimeout, HeldHandles
    <3>2. pool'.gda \in {pool.gda, NoConnection}
      BY <2>9, ReleaseOrTimeout DEF SharingInv
    <3>3. pool'.gda = NoConnection => HeldHandles' = {}
      BY DEF SharingInv, Shares, Live
    <3> QED
      BY <2>c, <2>d, <3>1, <3>2, <3>3
  <2>10. ASSUME NEW stopped \in BOOLEAN, ToggleShared(stopped)
         PROVE  Promise!Next \/ (using' = using /\ open' = open)
    <3>1. HeldHandles = {} /\ held' = held /\ pool.crashed = "none"
      BY <2>10, Disciplined DEF ToggleShared, Running
    <3>2. PICK r \in ConnectResults(pool, ~networkShared, {}) :
            LET c == IF r.handle = NoHandle THEN r.pool ELSE CloseHandle(r.pool, r.handle)
                aborted == r.threw \/ c.crashed # "none"
            IN  pool' = IF aborted THEN c ELSE CleanUpPool(c, {}, stopped)
      BY <2>10, <3>1 DEF ToggleShared
    <3>3. pool'.gda # NoConnection => pool.gda # NoConnection
      BY <2>0, <3>1, <3>2, ToggleShares
    <3> QED
      BY <2>c, <3>1, <3>3
  <2>11. CASE ConvertBackupBegin
    BY <2>11, <2>d DEF ConvertBackupBegin
  <2>12. ASSUME NEW restored \in BOOLEAN, ConvertBackupEnd(restored)
         PROVE  Promise!Next \/ (using' = using /\ open' = open)
    <3>1. pool'.gda = pool.gda
      BY <2>0, <2>12 DEF ConvertBackupEnd, Pool
    <3> QED
      BY <2>12, <2>d, <3>1 DEF ConvertBackupEnd
  <2>13. CASE Relaunch
    <3>1. using' = {} /\ open' = FALSE
      BY <2>13 DEF Relaunch, InitialPool
    <3> QED
      BY <3>1 DEF Promise!Next, Promise!Restart
  <2>14. CASE UNCHANGED vars
    BY <2>14, <2>d DEF vars
  <2> QED
    BY <2>1, <2>2, <2>3, <2>4, <2>5, <2>6, <2>7, <2>8, <2>9, <2>10, <2>11, <2>12, <2>13,
       <2>14 DEF Next
<1> QED
  BY <1>1, <1>2, SharingInvariant, PTL DEF Spec

-----------------------------------------------------------------------------
(* Part 3.  However wrong the reference count is after callers kept handles*)
(* over an invalidation, it never gets to zero without a connection to     *)
(* close.                                                                  *)
(*                                                                         *)
(* Without a connection, the count is zero or more than the handlers that  *)
(* could still decrement it: an invalidation resets it, and the first late *)
(* handler makes it wrap to a number greater than that of all handles.     *)

Uncounted(p) ==
    p.gda = NoConnection =>
        p.refcount = 0 \/ p.refcount > Cardinality(p.listening)

Sound(p) == p.crashed # "finished" /\ Uncounted(p)

\* What is sound stays so with other values of the members that do not count.
LEMMA SoundIsSame ==
    ASSUME NEW p, NEW q, Sound(p), q.gda = p.gda, q.refcount = p.refcount,
           q.listening = p.listening, q.crashed # "finished"
    PROVE  Sound(q)
BY DEF Sound, Uncounted

\* A handler that is called finds a connection, or does not reach zero.
LEMMA FinishedSound ==
    ASSUME NEW p \in Pool, Sound(p), NEW h \in p.listening
    PROVE  LET q == OnSharedConnectionFinished(p)
           IN  /\ q.crashed = p.crashed
               /\ q.listening = p.listening /\ q.conn = p.conn
               /\ q.cached = p.cached
               /\ q.gda = NoConnection =>
                    q.refcount = 0 \/ q.refcount > Cardinality(p.listening \ {h})
<1> DEFINE n == Decrement(p.refcount)
           L == p.listening
<1>1. L \subseteq Handles /\ p.refcount \in 0 .. (CountModulus - 1)
  BY DEF Pool
<1>2. /\ IsFiniteSet(L) /\ Cardinality(L) \in Nat
      /\ Cardinality(L) < CountModulus
  BY <1>1, FewHandles
<1>3. Cardinality(L \ {h}) = Cardinality(L) - 1 /\ Cardinality(L) # 0
  BY <1>2, FS_RemoveElement, FS_EmptySet
<1>4. CountModulus \in Nat \ {0}
  BY PoolAssumption
<1>5. CASE p.gda = NoConnection
  <2>1. p.refcount = 0 \/ p.refcount > Cardinality(L)
    BY <1>5 DEF Sound, Uncounted
  <2>2. n # 0 /\ n > Cardinality(L \ {h})
    BY <1>1, <1>2, <1>3, <1>4, <2>1 DEF Decrement
  <2>3. OnSharedConnectionFinished(p) = [p EXCEPT !.refcount = n]
    BY <2>2 DEF OnSharedConnectionFinished
  <2> HIDE DEF n
  <2> QED
    BY <2>2, <2>3 DEF Pool
<1>6. CASE p.gda # NoConnection
  <2>1. CASE n # 0
    <3>1. OnSharedConnectionFinished(p) = [p EXCEPT !.refcount = n]
      BY <2>1 DEF OnSharedConnectionFinished
    <3> HIDE DEF n
    <3> QED
      BY <1>6, <3>1 DEF Pool
  <2>2. CASE n = 0
    BY <1>6, <2>2 DEF OnSharedConnectionFinished, Pool
  <2> QED
    BY <2>1, <2>2
<1> QED
  BY <1>5, <1>6

\* Fewer handlers make a sound pool no less sound.
LEMMA FewerHandlers ==
    ASSUME NEW p \in Pool, NEW h
    PROVE  Cardinality(p.listening \ {h}) <= Cardinality(p.listening)
<1>1. p.listening \subseteq Handles
  BY DEF Pool
<1>2. IsFiniteSet(p.listening)
  BY <1>1, FewHandles
<1> QED
  BY <1>2, FS_Subset

\* ~SharedConnection keeps the pool sound.
LEMMA DestroySound ==
    ASSUME NEW p \in Pool, NEW h \in Handles, Sound(p)
    PROVE  Sound(DestroyHandle(p, h))
<1> DEFINE q == IF p.conn[h] = NoConnection THEN p ELSE EmitFinished(p, h)
           s == [q EXCEPT !.conn[h] = NoConnection, !.listening = @ \ {h},
                          !.latest = IF @ = h THEN NoHandle ELSE @]
<1>1. q \in Pool
  BY EmitType
<1>2. /\ q.crashed # "finished" /\ q.listening = p.listening
      /\ q.gda = NoConnection =>
           q.refcount = 0 \/ q.refcount > Cardinality(p.listening \ {h})
  <2>1. CASE q = p
    <3>1. /\ Cardinality(p.listening \ {h}) \in Nat
          /\ Cardinality(p.listening) \in Nat
          /\ p.refcount \in Nat
      BY FewHandles, PoolAssumption DEF Pool
    <3> QED
      BY <2>1, <3>1, FewerHandlers DEF Sound, Uncounted
  <2>2. CASE q # p
    <3>1. h \in p.listening /\ q = OnSharedConnectionFinished(p)
      BY <2>2 DEF EmitFinished
    <3> HIDE DEF q
    <3> QED
      BY <3>1, FinishedSound DEF Sound
  <2> QED
    BY <2>1, <2>2
<1>3. DestroyHandle(p, h) = Unreference(s)
  BY DEF DestroyHandle
<1> HIDE DEF q
<1>4. /\ s.gda = q.gda /\ s.refcount = q.refcount /\ s.crashed = q.crashed
      /\ s.listening = q.listening \ {h}
  BY <1>1 DEF Pool
<1>5. LET t == Unreference(s)
      IN  /\ t.gda = s.gda /\ t.refcount = s.refcount
          /\ t.crashed = s.crashed /\ t.listening = s.listening
  BY <1>1 DEF Unreference, Pool
<1> HIDE DEF s
<1> QED
  BY <1>2, <1>3, <1>4, <1>5 DEF Sound, Uncounted

LEMMA ResetCacheSound ==
    ASSUME NEW p \in Pool, NEW H, Sound(p)
    PROVE  Sound(ResetCache(p, H))
<1> DEFINE q == [p EXCEPT !.cached = NoHandle]
<1>1. q \in Pool /\ Sound(q)
  <2>1. q \in Pool
    BY DEF Pool
  <2>2. /\ q.gda = p.gda /\ q.refcount = p.refcount
        /\ q.listening = p.listening /\ q.crashed = p.crashed
    BY DEF Pool
  <2> QED
    BY <2>1, <2>2, SoundIsSame DEF Sound
<1>2. CASE p.cached \in H \union {NoHandle}
  BY <1>1, <1>2 DEF ResetCache
<1>3. CASE p.cached \notin H \union {NoHandle}
  <2>1. p.cached \in Handles
    BY <1>3 DEF Pool
  <2>2. ResetCache(p, H) = DestroyHandle(q, p.cached)
    BY <1>3 DEF ResetCache
  <2> HIDE DEF q
  <2> QED
    BY <1>1, <2>1, <2>2, DestroySound
<1> QED
  BY <1>2, <1>3

\* Whoever still holds a handle: the count is zero after an invalidation.
LEMMA InvalidateSound ==
    ASSUME NEW p \in Pool, NEW H, ResetCache(p, H).crashed # "finished"
    PROVE  Sound(InvalidateConnection(p, H))
<1> DEFINE q == ResetCache(p, H)
           s == [q EXCEPT !.timer = FALSE, !.listening = @ \ {q.latest},
                          !.latest = NoHandle, !.open = @ \ {q.gda},
                          !.gda = NoConnection, !.refcount = 0,
                          !.fieldTypes = NoCredential]
<1>1. q \in Pool /\ q.crashed # "finished"
  BY ResetCacheType
<1>2. InvalidateConnection(p, H) = Unreference(s)
  BY DEF InvalidateConnection
<1> HIDE DEF q
<1>3. s.refcount = 0 /\ s.crashed = q.crashed
  BY <1>1 DEF Pool
<1>4. Unreference(s).refcount = s.refcount /\ Unreference(s).crashed = s.crashed
  BY <1>1 DEF Unreference, Pool
<1> HIDE DEF s
<1> QED
  BY <1>1, <1>2, <1>3, <1>4 DEF Sound, Uncounted

LEMMA CleanUpPoolSound ==
    ASSUME NEW p \in Pool, NEW H, NEW stopped \in BOOLEAN,
           ResetCache([p EXCEPT !.ready = FALSE], H).crashed # "finished"
    PROVE  Sound(CleanUpPool(p, H, stopped))
<1> DEFINE z == [p EXCEPT !.ready = FALSE]
           q == InvalidateConnection(z, H)
<1>1. z \in Pool
  BY DEF Pool
<1>2. q \in Pool /\ Sound(q)
  BY <1>1, InvalidateType, InvalidateSound
<1>3. CleanUpPool(p, H, stopped) = [q EXCEPT !.serving = @ /\ ~stopped]
  BY DEF CleanUpPool
<1> HIDE DEF q
<1>4. LET r == [q EXCEPT !.serving = @ /\ ~stopped]
      IN  /\ r.gda = q.gda /\ r.refcount = q.refcount
          /\ r.listening = q.listening /\ r.crashed = q.crashed
  BY <1>2 DEF Pool
<1> QED
  BY <1>2, <1>3, <1>4, SoundIsSame DEF Sound

LEMMA CleanUpIsSound ==
    ASSUME NEW p \in Pool, NEW H, NEW stopped \in BOOLEAN, Sound(p)
    PROVE  Sound(CleanUpPool(p, H, stopped))
<1> DEFINE z == [p EXCEPT !.ready = FALSE]
<1>1. /\ z \in Pool /\ z.gda = p.gda /\ z.refcount = p.refcount
      /\ z.listening = p.listening /\ z.crashed = p.crashed
  BY DEF Pool
<1>2. Sound(z)
  BY <1>1, SoundIsSame DEF Sound
<1>3. ResetCache(z, H).crashed # "finished"
  BY <1>1, <1>2, ResetCacheSound DEF Sound
<1> QED
  BY <1>3, CleanUpPoolSound

\* connect() hands out a handle that is then the cached one.
LEMMA ConnectSound ==
    ASSUME NEW p \in Pool, Sound(p), NEW shared \in BOOLEAN, NEW H,
           NEW r \in ConnectResults(p, shared, H)
    PROVE  /\ Sound(r.pool)
           /\ r.handle # NoHandle =>
                ~r.threw /\ r.pool.crashed = p.crashed /\ r.pool.cached = r.handle
<1>1. ASSUME NEW q \in Pool, q.gda # NoConnection, q.crashed = p.crashed,
             r \in SharedResults(q, H)
      PROVE  /\ Sound(r.pool) /\ ~r.threw
             /\ r.pool.crashed = p.crashed /\ r.pool.cached = r.handle
  <2>1. PICK h \in Handles : r = Result(ShareConnection(q, h), h, FALSE)
    BY <1>1 DEF SharedResults, FreshHandles
  <2>2. LET s == ShareConnection(q, h)
        IN  s.gda = q.gda /\ s.crashed = q.crashed /\ s.cached = h
    BY DEF ShareConnection, Pool
  <2> QED
    BY <1>1, <2>1, <2>2 DEF Result, Sound, Uncounted
<1>2. CASE r = Result(p, NoHandle, FALSE) \/ r = Result(p, p.cached, FALSE)
  BY <1>2 DEF Result
<1>3. CASE r \in BackendFailures(p)
  <2> DEFINE q == [p EXCEPT !.crashed = "connect"]
  <2>1. /\ q.gda = p.gda /\ q.refcount = p.refcount
        /\ q.listening = p.listening /\ q.crashed = "connect"
    BY DEF Pool
  <2>2. Sound(q)
    BY <2>1, SoundIsSame
  <2> HIDE DEF q
  <2>3. r = Result(p, NoHandle, TRUE) \/ r = Result(q, NoHandle, FALSE)
    BY <1>3 DEF BackendFailures, q
  <2> QED
    BY <2>2, <2>3 DEF Result
<1>4. CASE p.gda # NoConnection /\ r \in SharedResults(p, H)
  BY <1>1, <1>4
<1>5. CASE r \in OpenedResults(p, shared, H)
  <2>1. PICK k \in Connections : r \in SharedResults(OpenConnection(p, shared, k), H)
    BY <1>5 DEF OpenedResults, FreshConnections
  <2> DEFINE q == OpenConnection(p, shared, k)
  <2>2. q \in Pool
    BY OpenType
  <2>3. q.gda # NoConnection /\ q.crashed = p.crashed
    BY PoolAssumption DEF OpenConnection, Pool
  <2> HIDE DEF q
  <2>4. r \in SharedResults(q, H)
    BY <2>1 DEF q
  <2> QED
    BY <1>1, <2>2, <2>3, <2>4
<1> QED
  BY <1>2, <1>3, <1>4, <1>5 DEF ConnectResults

\* close() of the cached handle, with cleanup() right after it.
LEMMA CloseThenCleanUp ==
    ASSUME NEW p \in Pool, Sound(p), NEW h \in Handles, p.cached = h,
           NEW H, NEW stopped \in BOOLEAN
    PROVE  /\ CloseHandle(p, h).crashed = p.crashed
           /\ Sound(CleanUpPool(CloseHandle(p, h), H, stopped))
<1> DEFINE q == [p EXCEPT !.conn[h] = NoConnection]
           r == Unreference(q)
           c == EmitFinished(r, h)
<1>1. q \in Pool
  BY DEF Pool
<1>2. /\ q.gda = p.gda /\ q.refcount = p.refcount /\ q.cached = h
      /\ q.listening = p.listening /\ q.crashed = p.crashed
      /\ q.conn[h] = NoConnection
  BY DEF Pool
<1> HIDE DEF q
<1>3. r \in Pool
  BY <1>1, UnreferenceType
<1>4. /\ r.gda = q.gda /\ r.refcount = q.refcount /\ r.cached = q.cached
      /\ r.listening = q.listening /\ r.crashed = q.crashed
      /\ r.conn = q.conn
  BY <1>1 DEF Unreference, Pool
<1>5. CloseHandle(p, h) = c
  BY DEF CloseHandle, q
<1> HIDE DEF r
<1>6. Sound(r)
  BY <1>2, <1>4, SoundIsSame DEF Sound
<1>7. /\ c \in Pool /\ c.crashed = p.crashed
      /\ c.cached = h /\ c.conn[h] = NoConnection
  <2>1. c \in Pool
    BY <1>3, EmitType
  <2>2. CASE h \in r.listening
    <3>1. c = OnSharedConnectionFinished(r)
      BY <2>2 DEF EmitFinished
    <3> HIDE DEF c
    <3> QED
      BY <1>2, <1>3, <1>4, <1>6, <2>1, <2>2, <3>1, FinishedSound
  <2>3. CASE h \notin r.listening
    <3>1. c = r
      BY <2>3 DEF EmitFinished
    <3> QED
      BY <1>2, <1>3, <1>4, <3>1
  <2> QED
    BY <2>2, <2>3
<1> HIDE DEF c
<1> DEFINE z == [c EXCEPT !.ready = FALSE]
<1>8. /\ z \in Pool /\ z.crashed = c.crashed /\ z.cached = h
      /\ z.conn[h] = NoConnection
  BY <1>7 DEF Pool
<1>9. ResetCache(z, H).crashed = z.crashed
  <2> HIDE DEF z
  <2> DEFINE w == [z EXCEPT !.cached = NoHandle]
             v == [w EXCEPT !.conn[h] = NoConnection, !.listening = @ \ {h},
                            !.latest = IF @ = h THEN NoHandle ELSE @]
  <2>1. w \in Pool /\ w.crashed = z.crashed /\ w.conn[h] = NoConnection
    BY <1>8 DEF Pool
  <2>2. ResetCache(z, H) = w \/ ResetCache(z, H) = DestroyHandle(w, h)
    BY <1>8 DEF ResetCache
  <2> HIDE DEF w
  <2>3. DestroyHandle(w, h) = Unreference(v)
    BY <2>1 DEF DestroyHandle
  <2>4. Unreference(v).crashed = w.crashed
    BY <2>1 DEF Unreference, Pool
  <2> QED
    BY <2>1, <2>2, <2>3, <2>4
<1> QED
  BY <1>5, <1>7, <1>8, <1>9, CleanUpPoolSound DEF Sound

CountInv == TypeOK /\ Sound(pool)

\* on_sharedconnection_finished() never meets a null connection at zero.
THEOREM NeverFinishesNull == Spec => []FinishedNeverNull
<1>1. Init => Sound(pool)
  BY DEF Init, InitialPool, Sound, Uncounted
<1>2. CountInv /\ [Next]_vars => Sound(pool)'
  <2> SUFFICES ASSUME CountInv, [Next]_vars PROVE Sound(pool')
    OBVIOUS
  <2> DEFINE H == HeldHandles
  <2>0. /\ pool \in Pool /\ Sound(pool) /\ networkShared \in BOOLEAN
        /\ held \in [Users -> Handles \union {NoHandle}]
    BY DEF CountInv, TypeOK
  <2> HIDE DEF H
  <2>1. ASSUME NEW b \in Backends, NEW c \in Credentials, SetupFromDocument(b, c)
        PROVE  Sound(pool')
    <3> DEFINE p == [pool EXCEPT !.backend = b, !.serving = FALSE, !.cred = c]
               q == InvalidateConnection(p, H)
    <3>1. /\ p \in Pool /\ p.gda = pool.gda /\ p.refcount = pool.refcount
          /\ p.listening = pool.listening /\ p.crashed = pool.crashed
      BY <2>0 DEF Pool
    <3>2. pool' = [q EXCEPT !.ready = TRUE]
      BY <2>1 DEF SetupFromDocument, H
    <3> HIDE DEF p
    <3>3. Sound(p)
      BY <2>0, <3>1, SoundIsSame DEF Sound
    <3>4. q \in Pool /\ Sound(q)
      BY <3>1, <3>3, InvalidateType, InvalidateSound, ResetCacheSound DEF Sound
    <3> HIDE DEF q
    <3>5. /\ pool'.gda = q.gda /\ pool'.refcount = q.refcount
          /\ pool'.listening = q.listening /\ pool'.crashed = q.crashed
      BY <3>2, <3>4 DEF Pool
    <3> QED
      BY <3>4, <3>5, SoundIsSame DEF Sound
  <2>2. ASSUME NEW c \in Credentials, SetCredentials(c) PROVE Sound(pool')
    <3> DEFINE p == [pool EXCEPT !.cred = c]
    <3>1. /\ p \in Pool /\ p.gda = pool.gda /\ p.refcount = pool.refcount
          /\ p.listening = pool.listening /\ p.crashed = pool.crashed
      BY <2>0 DEF Pool
    <3>2. pool' = InvalidateConnection(p, H)
      BY <2>2 DEF SetCredentials, H
    <3> HIDE DEF p
    <3>3. Sound(p)
      BY <2>0, <3>1, SoundIsSame DEF Sound
    <3> QED
      BY <3>1, <3>2, <3>3, InvalidateSound, ResetCacheSound DEF Sound
  <2>3. CASE SetReadyToConnect
    <3>1. /\ pool'.gda = pool.gda /\ pool'.refcount = pool.refcount
          /\ pool'.listening = pool.listening /\ pool'.crashed = pool.crashed
      BY <2>0, <2>3 DEF SetReadyToConnect, Pool
    <3> QED
      BY <2>0, <3>1, SoundIsSame DEF Sound
  <2>4. ASSUME NEW ok \in BOOLEAN, StartUp(ok) PROVE Sound(pool')
    <3>1. /\ pool'.gda = pool.gda /\ pool'.refcount = pool.refcount
          /\ pool'.listening = pool.listening /\ pool'.crashed = pool.crashed
      BY <2>0, <2>4 DEF StartUp, Pool
    <3> QED
      BY <2>0, <3>1, SoundIsSame DEF Sound
  <2>5. ASSUME NEW stopped \in BOOLEAN, CleanUp(stopped) PROVE Sound(pool')
    <3>1. pool' = CleanUpPool(pool, H, stopped)
      BY <2>5 DEF CleanUp, H
    <3> QED
      BY <2>0, <3>1, CleanUpIsSound
  <2>6. ASSUME NEW u \in Users, Acquire(u) PROVE Sound(pool')
    BY <2>0, <2>6, ConnectSound DEF Acquire
  <2>7. ASSUME NEW u \in Users, Release(u) PROVE Sound(pool')
    <3>1. held[u] \in Handles
      BY <2>0, <2>7 DEF Release
    <3> QED
      BY <2>0, <2>7, <3>1, DestroySound DEF Release
  <2>8. CASE ConnectNothrow
    BY <2>0, <2>8, ConnectSound DEF ConnectNothrow
  <2>9. CASE CacheTimeout
    <3> DEFINE p == [pool EXCEPT !.timer = FALSE]
    <3>1. /\ p \in Pool /\ p.gda = pool.gda /\ p.refcount = pool.refcount
          /\ p.listening = pool.listening /\ p.crashed = pool.crashed
      BY <2>0 DEF Pool
    <3>2. pool' = ResetCache(p, H)
      BY <2>9 DEF CacheTimeout, H
    <3> HIDE DEF p
    <3>3. Sound(p)
      BY <2>0, <3>1, SoundIsSame DEF Sound
    <3> QED
      BY <3>1, <3>2, <3>3, ResetCacheSound
  <2>10. ASSUME NEW stopped \in BOOLEAN, ToggleShared(stopped) PROVE Sound(pool')
    <3>1. PICK r \in ConnectResults(pool, ~networkShared, H) :
            LET c == IF r.handle = NoHandle THEN r.pool ELSE CloseHandle(r.pool, r.handle)
                aborted == r.threw \/ c.crashed # "none"
            IN  pool' = IF aborted THEN c ELSE CleanUpPool(c, H, stopped)
      BY <2>10 DEF ToggleShared, H
    <3>2. r.pool \in Pool /\ r.handle \in Handles \union {NoHandle}
      BY <2>0, ConnectType
    <3>3. /\ Sound(r.pool)
          /\ r.handle # NoHandle =>
               ~r.threw /\ r.pool.crashed = pool.crashed /\ r.pool.cached = r.handle
      BY <2>0, ConnectSound
    <3>4. CASE r.handle = NoHandle
      BY <3>1, <3>2, <3>3, <3>4, CleanUpIsSound
    <3>5. CASE r.handle # NoHandle
      <4> DEFINE c == CloseHandle(r.pool, r.handle)
      <4>1. c.crashed = "none" /\ Sound(CleanUpPool(c, H, stopped))
        BY <2>10, <3>2, <3>3, <3>5, CloseThenCleanUp DEF ToggleShared, Running
      <4>2. pool' = CleanUpPool(c, H, stopped)
        BY <3>1, <3>3, <3>5, <4>1
      <4> QED
        BY <4>1, <4>2
    <3> QED
      BY <3>4, <3>5
  <2>11. CASE ConvertBackupBegin
    BY <2>0, <2>11 DEF ConvertBackupBegin
  <2>12. ASSUME NEW restored \in BOOLEAN, ConvertBackupEnd(restored)
         PROVE  Sound(pool')
    <3>1. /\ pool'.gda = pool.gda /\ pool'.refcount = pool.refcount
          /\ pool'.listening = pool.listening
          /\ pool'.crashed \in {pool.crashed, "convert_backup"}
      BY <2>0, <2>12 DEF ConvertBackupEnd, Pool
    <3> QED
      BY <2>0, <3>1, SoundIsSame DEF Sound
  <2>13. CASE Relaunch
    BY <2>13 DEF Relaunch, InitialPool, Sound, Uncounted
  <2>14. CASE UNCHANGED vars
    BY <2>0, <2>14 DEF vars
  <2> QED
    BY <2>1, <2>2, <2>3, <2>4, <2>5, <2>6, <2>7, <2>8, <2>9, <2>10, <2>11,
       <2>12, <2>13, <2>14 DEF Next
<1>3. Sound(pool) => FinishedNeverNull
  BY DEF Sound, FinishedNeverNull
<1> QED
  BY <1>1, <1>2, <1>3, TypeCorrect, PTL DEF Spec, CountInv

-----------------------------------------------------------------------------
(* Part 4.  What is published is published by a backend that can stop it,  *)
(* and the publisher goes with the connection.                             *)

Publishes(p) ==
    p.publishing => p.gda # NoConnection /\ p.backend \in RemoteAccess

LEMMA PublishesTheSame ==
    ASSUME NEW p, NEW q, Publishes(p),
           q.publishing = p.publishing, q.gda = p.gda, q.backend = p.backend
    PROVE  Publishes(q)
BY DEF Publishes

\* The handler that closes the connection stops the publisher.
LEMMA EmitPublishes ==
    ASSUME NEW p \in Pool, NEW h, Publishes(p)
    PROVE  /\ Publishes(EmitFinished(p, h))
           /\ ~p.publishing => ~EmitFinished(p, h).publishing
<1> DEFINE q == OnSharedConnectionFinished(p)
           n == Decrement(p.refcount)
<1>1. CASE n # 0
  <2>1. q = [p EXCEPT !.refcount = n]
    BY <1>1 DEF OnSharedConnectionFinished
  <2> HIDE DEF n
  <2>2. q.publishing = p.publishing /\ q.gda = p.gda /\ q.backend = p.backend
    BY <2>1 DEF Pool
  <2> HIDE DEF q
  <2>3. Publishes(q)
    BY <2>2, PublishesTheSame
  <2> QED
    BY <2>2, <2>3 DEF EmitFinished, q
<1>2. CASE n = 0
  <2>1. q.publishing = (p.publishing /\ p.backend \notin RemoteAccess)
    BY <1>2 DEF OnSharedConnectionFinished, Pool
  <2> HIDE DEF q
  <2>2. ~q.publishing
    BY <2>1 DEF Publishes
  <2> QED
    BY <2>2 DEF EmitFinished, Publishes, q
<1> QED
  BY <1>1, <1>2

LEMMA DestroyPublishes ==
    ASSUME NEW p \in Pool, NEW h \in Handles, Publishes(p)
    PROVE  /\ Publishes(DestroyHandle(p, h))
           /\ ~p.publishing => ~DestroyHandle(p, h).publishing
<1> DEFINE q == IF p.conn[h] = NoConnection THEN p ELSE EmitFinished(p, h)
           s == [q EXCEPT !.conn[h] = NoConnection, !.listening = @ \ {h},
                          !.latest = IF @ = h THEN NoHandle ELSE @]
<1>1. q \in Pool /\ Publishes(q) /\ (~p.publishing => ~q.publishing)
  BY EmitType, EmitPublishes
<1>2. DestroyHandle(p, h) = Unreference(s)
  BY DEF DestroyHandle
<1> HIDE DEF q
<1>3. s.publishing = q.publishing /\ s.gda = q.gda /\ s.backend = q.backend
  BY <1>1 DEF Pool
<1>4. LET t == Unreference(s)
      IN  t.publishing = s.publishing /\ t.gda = s.gda /\ t.backend = s.backend
  BY <1>1 DEF Unreference, Pool
<1> HIDE DEF s
<1> QED
  BY <1>1, <1>2, <1>3, <1>4, PublishesTheSame

LEMMA ResetCachePublishes ==
    ASSUME NEW p \in Pool, NEW H, Publishes(p)
    PROVE  /\ Publishes(ResetCache(p, H))
           /\ ~p.publishing => ~ResetCache(p, H).publishing
<1> DEFINE q == [p EXCEPT !.cached = NoHandle]
<1>1. /\ q \in Pool /\ q.publishing = p.publishing /\ q.gda = p.gda
      /\ q.backend = p.backend
  BY DEF Pool
<1>2. ResetCache(p, H) = q \/
      (p.cached \in Handles /\ ResetCache(p, H) = DestroyHandle(q, p.cached))
  BY DEF ResetCache, Pool
<1> HIDE DEF q
<1>3. Publishes(q)
  BY <1>1, PublishesTheSame
<1> QED
  BY <1>1, <1>2, <1>3, DestroyPublishes

\* invalidate_connection() starts no publisher.
LEMMA InvalidateQuiet ==
    ASSUME NEW p \in Pool, NEW H, ~ResetCache(p, H).publishing
    PROVE  ~InvalidateConnection(p, H).publishing
<1> DEFINE q == ResetCache(p, H)
           s == [q EXCEPT !.timer = FALSE, !.listening = @ \ {q.latest},
                          !.latest = NoHandle, !.open = @ \ {q.gda},
                          !.gda = NoConnection, !.refcount = 0,
                          !.fieldTypes = NoCredential]
<1>1. q \in Pool /\ ~q.publishing
  BY ResetCacheType
<1>2. InvalidateConnection(p, H) = Unreference(s)
  BY DEF InvalidateConnection
<1> HIDE DEF q
<1>3. s.publishing = q.publishing
  BY <1>1 DEF Pool
<1>4. Unreference(s).publishing = s.publishing
  BY <1>1 DEF Unreference, Pool
<1> HIDE DEF s
<1> QED
  BY <1>1, <1>2, <1>3, <1>4

\* With nobody holding a handle, the cached one takes the publisher along.
LEMMA InvalidatePublishes ==
    ASSUME NEW p \in Pool, Shares(p, Live(p, {})), Publishes(p)
    PROVE  ~InvalidateConnection(p, {}).publishing
<1> DEFINE q == ResetCache(p, {})
<1>1. Publishes(q) /\ Shares(q, {})
  BY ResetCachePublishes, ResetCacheShares
<1> HIDE DEF q
<1>2. ~q.publishing
  BY <1>1 DEF Publishes, Shares
<1> QED
  BY <1>2, InvalidateQuiet DEF q

LEMMA CleanUpPublishes ==
    ASSUME NEW p \in Pool, NEW stopped \in BOOLEAN, Publishes(p),
           Shares(p, Live(p, {})) \/ ~p.publishing
    PROVE  ~CleanUpPool(p, {}, stopped).publishing
<1> DEFINE z == [p EXCEPT !.ready = FALSE]
           q == InvalidateConnection(z, {})
<1>1. /\ z \in Pool /\ z.gda = p.gda /\ z.open = p.open /\ z.conn = p.conn
      /\ z.listening = p.listening /\ z.cached = p.cached
      /\ z.refcount = p.refcount
      /\ z.publishing = p.publishing /\ z.backend = p.backend
  BY DEF Pool
<1>2. CleanUpPool(p, {}, stopped) = [q EXCEPT !.serving = @ /\ ~stopped]
  BY DEF CleanUpPool
<1> HIDE DEF z
<1>3. Publishes(z)
  BY <1>1, PublishesTheSame
<1>4. ~q.publishing /\ q \in Pool
  <2>1. CASE Shares(p, Live(p, {}))
    <3>1. Shares(z, Live(z, {}))
      BY <1>1, <2>1, SameSharing
    <3> QED
      BY <1>1, <1>3, <3>1, InvalidatePublishes, InvalidateType
  <2>2. CASE ~p.publishing
    BY <1>1, <1>3, <2>2, ResetCachePublishes, InvalidateQuiet, InvalidateType
  <2> QED
    BY <2>1, <2>2
<1> HIDE DEF q
<1>5. [q EXCEPT !.serving = @ /\ ~stopped].publishing = q.publishing
  BY <1>4 DEF Pool
<1> QED
  BY <1>2, <1>4, <1>5

\* connect() publishes only what it has connected to.
LEMMA ConnectPublishes ==
    ASSUME NEW p \in Pool, Publishes(p), NEW shared \in BOOLEAN, NEW H,
           NEW r \in ConnectResults(p, shared, H)
    PROVE  Publishes(r.pool)
<1>1. ASSUME NEW q \in Pool, Publishes(q), r \in SharedResults(q, H)
      PROVE  Publishes(r.pool)
  <2>1. PICK h \in Handles : r = Result(ShareConnection(q, h), h, FALSE)
    BY <1>1 DEF SharedResults, FreshHandles
  <2> DEFINE s == ShareConnection(q, h)
  <2>2. s.publishing = q.publishing /\ s.gda = q.gda /\ s.backend = q.backend
    BY DEF ShareConnection, Pool
  <2>3. r.pool = s
    BY <2>1 DEF Result
  <2> HIDE DEF s
  <2> QED
    BY <1>1, <2>2, <2>3, PublishesTheSame
<1>2. CASE r.pool = p
  BY <1>2
<1>3. CASE r.pool = [p EXCEPT !.crashed = "connect"]
  <2>1. /\ r.pool.publishing = p.publishing /\ r.pool.gda = p.gda
        /\ r.pool.backend = p.backend
    BY <1>3 DEF Pool
  <2> QED
    BY <2>1, PublishesTheSame
<1>4. CASE r \in SharedResults(p, H)
  BY <1>1, <1>4
<1>5. CASE r \in OpenedResults(p, shared, H)
  <2>1. PICK k \in Connections : r \in SharedResults(OpenConnection(p, shared, k), H)
    BY <1>5 DEF OpenedResults, FreshConnections
  <2> DEFINE q == OpenConnection(p, shared, k)
  <2>2. q \in Pool
    BY OpenType
  <2>3. /\ q.gda = k /\ q.backend = p.backend
        /\ q.publishing = (p.publishing \/ (shared /\ p.backend \in RemoteAccess))
    BY DEF OpenConnection, Pool
  <2> HIDE DEF q
  <2>4. r \in SharedResults(q, H)
    BY <2>1 DEF q
  <2>5. Publishes(q)
    BY <2>3, PoolAssumption DEF Publishes
  <2> QED
    BY <1>1, <2>2, <2>4, <2>5
<1> QED
  BY <1>2, <1>3, <1>4, <1>5 DEF ConnectResults, BackendFailures, Result

\* close() of the one handle there is closes the connection, and with it the
\* publisher.
LEMMA ClosePublishes ==
    ASSUME NEW p \in Pool, NEW h \in Handles, Shares(p, {h}), Publishes(p)
    PROVE  ~CloseHandle(p, h).publishing
<1> DEFINE q == [p EXCEPT !.conn[h] = NoConnection]
           r == Unreference(q)
<1>1. q \in Pool
  BY DEF Pool
<1>2. /\ q.refcount = p.refcount /\ q.listening = p.listening
      /\ q.publishing = p.publishing /\ q.backend = p.backend
  BY DEF Pool
<1> HIDE DEF q
<1>3. /\ r \in Pool /\ r.refcount = q.refcount /\ r.listening = q.listening
      /\ r.publishing = q.publishing /\ r.backend = q.backend
  BY <1>1, UnreferenceType DEF Unreference, Pool
<1> HIDE DEF r
<1>4. h \in r.listening /\ Decrement(r.refcount) = 0
  <2>1. Decrement(Cardinality({h})) = Cardinality({h} \ {h})
    BY CountDown
  <2>2. Cardinality({h} \ {h}) = 0
    BY FS_EmptySet
  <2> QED
    BY <1>2, <1>3, <2>1, <2>2 DEF Shares, Counts
<1>5. OnSharedConnectionFinished(r).publishing =
        (r.publishing /\ r.backend \notin RemoteAccess)
  BY <1>3, <1>4 DEF OnSharedConnectionFinished, Pool
<1>6. CloseHandle(p, h) = OnSharedConnectionFinished(r)
  BY <1>4 DEF CloseHandle, EmitFinished, q, r
<1> QED
  BY <1>2, <1>3, <1>5, <1>6 DEF Publishes

\* The document is never advertised without a connection.
THEOREM NeverPublishedAlone ==
    ASSUME ~Stragglers
    PROVE  Spec => []PublishedOnlyWhileConnected
<1>1. Init => Publishes(pool)
  BY DEF Init, InitialPool, Publishes
<1>2. SharingInv /\ Publishes(pool) /\ [Next]_vars => Publishes(pool)'
  <2> SUFFICES ASSUME SharingInv, Publishes(pool), [Next]_vars
               PROVE  Publishes(pool')
    OBVIOUS
  <2> DEFINE H == HeldHandles
  <2>0. /\ pool \in Pool /\ Shares(pool, Live(pool, H)) /\ networkShared \in BOOLEAN
        /\ held \in [Users -> Handles \union {NoHandle}]
    BY DEF SharingInv, TypeOK
  <2>a. MayInvalidate => H = {}
    BY Disciplined
  <2> HIDE DEF H
  <2>1. ASSUME NEW b \in Backends, NEW c \in Credentials, SetupFromDocument(b, c)
        PROVE  Publishes(pool')
    <3> DEFINE p == [pool EXCEPT !.backend = b, !.serving = FALSE, !.cred = c]
               q == InvalidateConnection(p, {})
    <3>1. /\ p \in Pool /\ p.gda = pool.gda /\ p.open = pool.open
          /\ p.conn = pool.conn /\ p.listening = pool.listening
          /\ p.cached = pool.cached /\ p.refcount = pool.refcount
          /\ p.publishing = pool.publishing /\ p.backend = b
      BY <2>0 DEF Pool
    <3>2. H = {} /\ (pool.gda # NoConnection => b = pool.backend)
      BY <2>1, <2>a DEF SetupFromDocument
    <3>3. pool' = [q EXCEPT !.ready = TRUE]
      BY <2>1, <3>2 DEF SetupFromDocument, H
    <3> HIDE DEF p
    <3>4. Publishes(p)
      BY <3>1, <3>2 DEF Publishes
    <3>5. Shares(p, Live(p, {}))
      BY <2>0, <3>1, <3>2, SameSharing
    <3>6. q \in Pool /\ ~q.publishing
      BY <3>1, <3>4, <3>5, InvalidateType, InvalidatePublishes
    <3> HIDE DEF q
    <3> QED
      BY <3>3, <3>6 DEF Publishes, Pool
  <2>2. ASSUME NEW c \in Credentials, SetCredentials(c) PROVE Publishes(pool')
    <3> DEFINE p == [pool EXCEPT !.cred = c]
    <3>1. /\ p \in Pool /\ p.gda = pool.gda /\ p.open = pool.open
          /\ p.conn = pool.conn /\ p.listening = pool.listening
          /\ p.cached = pool.cached /\ p.refcount = pool.refcount
          /\ p.publishing = pool.publishing /\ p.backend = pool.backend
      BY <2>0 DEF Pool
    <3>2. H = {}
      BY <2>2, <2>a DEF SetCredentials
    <3>3. pool' = InvalidateConnection(p, {})
      BY <2>2, <3>2 DEF SetCredentials, H
    <3> HIDE DEF p
    <3>4. Publishes(p) /\ Shares(p, Live(p, {}))
      BY <2>0, <3>1, <3>2, SameSharing, PublishesTheSame
    <3> QED
      BY <3>1, <3>3, <3>4, InvalidatePublishes DEF Publishes
  <2>3. CASE SetReadyToConnect
    <3>1. /\ pool'.publishing = pool.publishing /\ pool'.gda = pool.gda
          /\ pool'.backend = pool.backend
      BY <2>0, <2>3 DEF SetReadyToConnect, Pool
    <3> QED
      BY <3>1, PublishesTheSame
  <2>4. ASSUME NEW ok \in BOOLEAN, StartUp(ok) PROVE Publishes(pool')
    <3>1. /\ pool'.publishing = pool.publishing /\ pool'.gda = pool.gda
          /\ pool'.backend = pool.backend
      BY <2>0, <2>4 DEF StartUp, Pool
    <3> QED
      BY <3>1, PublishesTheSame
  <2>5. ASSUME NEW stopped \in BOOLEAN, CleanUp(stopped) PROVE Publishes(pool')
    <3>1. H = {}
      BY <2>5, <2>a DEF CleanUp
    <3>2. pool' = CleanUpPool(pool, {}, stopped)
      BY <2>5, <3>1 DEF CleanUp, H
    <3> QED
      BY <2>0, <3>1, <3>2, CleanUpPublishes DEF Publishes
  <2>6. ASSUME NEW u \in Users, Acquire(u) PROVE Publishes(pool')
    BY <2>0, <2>6, ConnectPublishes DEF Acquire
  <2>7. ASSUME NEW u \in Users, Release(u) PROVE Publishes(pool')
    <3>1. held[u] \in Handles
      BY <2>0, <2>7 DEF Release
    <3> QED
      BY <2>0, <2>7, <3>1, DestroyPublishes DEF Release
  <2>8. CASE ConnectNothrow
    BY <2>0, <2>8, ConnectPublishes DEF ConnectNothrow
  <2>9. CASE CacheTimeout
    <3> DEFINE p == [pool EXCEPT !.timer = FALSE]
    <3>1. /\ p \in Pool /\ p.publishing = pool.publishing /\ p.gda = pool.gda
          /\ p.backend = pool.backend
      BY <2>0 DEF Pool
    <3>2. pool' = ResetCache(p, H)
      BY <2>9 DEF CacheTimeout, H
    <3> HIDE DEF p
    <3> QED
      BY <3>1, <3>2, PublishesTheSame, ResetCachePublishes
  <2>10. ASSUME NEW stopped \in BOOLEAN, ToggleShared(stopped)
         PROVE  Publishes(pool')
    <3>1. H = {} /\ pool.crashed = "none"
      BY <2>10, <2>a DEF ToggleShared, Running
    <3>2. PICK r \in ConnectResults(pool, ~networkShared, {}) :
            LET c == IF r.handle = NoHandle THEN r.pool ELSE CloseHandle(r.pool, r.handle)
                aborted == r.threw \/ c.crashed # "none"
            IN  pool' = IF aborted THEN c ELSE CleanUpPool(c, {}, stopped)
      BY <2>10, <3>1 DEF ToggleShared, H
    <3>3. r.pool \in Pool /\ r.handle \in Handles \union {NoHandle}
      BY <2>0, ConnectType
    <3>4. /\ Shares(r.pool, Live(r.pool, {})) /\ Publishes(r.pool)
          /\ r.handle # NoHandle => r.pool.cached = r.handle
      <4>1. Shares(pool, Live(pool, {})) /\ (~networkShared) \in BOOLEAN
        BY <2>0, <3>1
      <4>2. Publishes(r.pool)
        BY <2>0, <4>1, ConnectPublishes
      <4> QED
        BY <2>0, <4>1, <4>2, ConnectShares
    <3>5. CASE r.handle = NoHandle
      <4>1. pool' = r.pool \/ pool' = CleanUpPool(r.pool, {}, stopped)
        BY <3>2, <3>5
      <4> QED
        BY <3>3, <3>4, <4>1, CleanUpPublishes DEF Publishes
    <3>6. CASE r.handle # NoHandle
      <4> DEFINE c == CloseHandle(r.pool, r.handle)
      <4>1. Live(r.pool, {}) = {r.handle}
        BY <3>4, <3>6 DEF Live
      <4>2. c \in Pool /\ ~c.publishing
        BY <3>3, <3>4, <3>6, <4>1, ClosePublishes, CloseType
      <4>3. pool' = c \/ pool' = CleanUpPool(c, {}, stopped)
        BY <3>2, <3>6
      <4> HIDE DEF c
      <4> QED
        BY <4>2, <4>3, CleanUpPublishes DEF Publishes
    <3> QED
      BY <3>5, <3>6
  <2>11. CASE ConvertBackupBegin
    BY <2>11 DEF ConvertBackupBegin
  <2>12. ASSUME NEW restored \in BOOLEAN, ConvertBackupEnd(restored)
         PROVE  Publishes(pool')
    <3>1. /\ pool'.publishing = pool.publishing /\ pool'.gda = pool.gda
          /\ pool'.backend = pool.backend
      BY <2>0, <2>12 DEF ConvertBackupEnd, Pool
    <3> QED
      BY <3>1, PublishesTheSame
  <2>13. CASE Relaunch
    BY <2>13 DEF Relaunch, InitialPool, Publishes
  <2>14. CASE UNCHANGED vars
    BY <2>14 DEF vars
  <2> QED
    BY <2>1, <2>2, <2>3, <2>4, <2>5, <2>6, <2>7, <2>8, <2>9, <2>10, <2>11,
       <2>12, <2>13, <2>14 DEF Next
<1>3. Publishes(pool) => PublishedOnlyWhileConnected
  BY DEF Publishes, PublishedOnlyWhileConnected
<1> QED
  BY <1>1, <1>2, <1>3, SharingInvariant, PTL DEF Spec
=============================================================================
