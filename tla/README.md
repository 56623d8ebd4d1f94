# A verification of Glom

TLA+ models of Glom, a database front end: TLC checks them on small instances,
TLAPS proves theorems about them for all instances. Paths are relative to the
repository root (`src/glom/...`).

1. The system
2. What is modelled, and how it corresponds to the code
3. The runs: properties, bounds, fairness, environment
4. The proofs
5. What the models found
6. What is not modelled
7. Plan


## 1. The system

Glom is a single-threaded Gtkmm application around libglom. A *document* (an XML
file) holds the structure of a database: tables, fields, relationships, layouts,
reports, groups. The data is in a PostgreSQL (or MySQL, SQLite) database, whose
server Glom starts itself when the document is self-hosted. "Single-threaded"
hides a good deal: every wait (for `pg_ctl`, `pg_dump`, `initdb`, for a second
between two attempts to connect, for a modal dialog) is a *nested* GLib main loop,
in which timers, child watches and user events run; several Glom processes share
one computer, its ports and the documents' data directories; and libepc answers
network requests from a thread of its own.

| component | state | operations | correct when |
|---|---|---|---|
| Connection pool (`libglom/connectionpool.cc`) | one shared libgda connection, its reference count, the static cache with its timer, the signal connections, user/password/database, backend, the Avahi publisher, the SIGSEGV handler | `get_and_connect`, `connect`, `SharedConnection::close`/destructor, `set_user`..., `setup_from_document`, `startup`, `cleanup`, `convert_backup`, cache timeout | a holder's connection is open and is *the* connection, it was opened with the current credentials, it is closed after the last user |
| Self-hosted backend (`connectionpool_backends/postgres_self.cc`, `spawn_with_feedback.cc`) | `m_port`, the data directory, the config files, the server process | `initialize`, `startup`, `connect` with retries, `cleanup`, `set_network_shared` | the server a Glom started is known and stopped, only it is stopped, every wait ends |
| Other backends (`postgres_central.cc`, `mysql*.cc`, `sqlite.cc`) | host, port | the same interface | as above, without a server |
| Network sharing (`frame_glom.cc:664-870`, `privs.cc`, `dialog_users_list.cc`) | the document's flag, `pg_hba.conf`, the database's users and groups | `attempt_toggle_shared`, the dialog of users | some developer can log in after every partial failure; the well-known default user cannot while the document is shared |
| Document life cycle (`bakery/appwindow*.cc`, `appwindow.cc`, `document.cc:1690-1892`) | file URI, modified flag, autosave, user level, server | new, open, open an example, save as an example, close, cancel, change of user level | the modified flag knows of every unsaved change; no file is written too early; no server is forgotten |
| Document schema (`document.cc:600-1137`, `2519-2990`, `3576-3924`, `data_structure/layout/`) | tables, fields, relationships, layouts, the file | add, rename and remove, with their cascades; save, load | relationships join what exists; items hold relationships that exist; names in the file mean what the pointers mean |
| Privileges of groups on tables (`privs.cc:191-526`, `dialog_groups_list.cc`) | the groups and what is granted to them, the document's copy, a cache per process | make and delete a group, grant, revoke, make a database from the document, read | who may create records may fetch keys; a database made again gives no new rights; a lost right is noticed |
| Calculations and lookups (`base_db.cc:515-1070`) | the fields in calculation, the record | recalculate dependents, look up | terminates; every dependent has the value of its formula |
| Record editing (`base_db_table_data.cc`, `db_adddel.cc`, `box_data*.cc`) | the record shown, its key | add, link a related record, delete | what is shown or referred to as new is new |
| Auto-increment (`db_utils.cc:1387-1568`) | a row per key in a system table | next value, recalculate, remove | keys are distinct |
| CSV import and export (`import_csv/`, `db_utils_export.cc`) | stream, buffer, parser state, rows, the import's row | asynchronous reads, idle handlers, another encoding, import, cancel | every row once, as the file has it |
| SQL, conversions, layout trees, print layouts, widgets, Python, tools, translations | - | mostly pure | out of scope, see section 6 |

How they interact: the document's `setup_from_document()` sets the pool's backend
and credentials; `frame_glom.cc` asks the pool to start the server and then to
connect; every query asks `ConnectionPool::get_and_connect()` for a
`SharedConnection` and drops it; dropping the last one closes the connection, by a
signal to the pool; `on_document_close()` and `cleanup_connection()` stop the
server. The hard behaviours are all at these edges: a handle that outlives a
change of user, a timer that fires in a nested main loop, a server that dies,
refuses or loses its port while somebody waits for it, a crash between two steps,
an operation that fails half-way, a save in the middle of an operation, two clients
of one database. `PROJECT.json` lists them at their lines.


## 2. What is modelled

### ConnectionPool

The members of the singleton and its heap are one record, `pool`; each private
method is an operator from pool to pool, so that an action (one public method or
callback) is the composition that the code makes. `conn[h]` is what the
`SharedConnection` object `h` refers to, `listening` the set of objects whose
`signal_finished` still reaches the pool, `latest` the one signal connection that
`connect()` remembers.

| TLA+ | code |
|---|---|
| `Acquire(u)`, `ConnectResults` | `get_and_connect()`, `connect()`: cached handle, shared connection, or a new one; throws, or dereferences a backend's null |
| `Release(u)`, `DestroyHandle`, `EmitFinished`, `OnSharedConnectionFinished` | the last `shared_ptr` goes; `~SharedConnection`; the pool's handler and its unsigned decrement |
| `SetCredentials`, `SetupFromDocument`, `InvalidateConnection` | the setters, each of which invalidates |
| `CacheTimeout` | the 30 second timer of the static cache |
| `StartUp`, `CleanUp`, `RestoreSignal` | server and SIGSEGV handler |
| `ConnectNothrow` | the schema changes (`add_column()`...) |
| `ToggleShared` | `Frame_Glom::attempt_toggle_shared()`, its effect on the pool |
| `ConvertBackupBegin`, `ConvertBackupEnd` | either end of the nested main loop of `pg_restore` |
| `Relaunch` | the crash handler, and a new process |

`ConnectionPromise` is the abstract specification: what
`connectionpool.h:148-155` promises to callers. It has no count, cache or signal,
only who uses the connection and whether it is open; an idle connection is
closed some time (`WF_vars(CloseIdle)`). `ConnectionPool` implements it
(`KeepsPromise`) with `using` = who holds a handle and `open` = `m_gda_connection`
is set.

### SelfHosting

Several Glom processes, the documents of one computer, server processes and ports.
`glom[g].step` names the wait a process is in (`starting`, `connecting`,
`stopping`), because each is a nested main loop in which everything else goes on;
`port` is `m_port`, `child` the process that `startup()` watches, `retries` the
count of `connect()`. A server takes the lock of its directory (`ServerLocks`) or
finds it taken and exits (`ServerRefuses`); then it binds its port, or exits
(`ServerBinds`); it may die. A child that fails ends `startup()`; one that ends with the
status of success, because another Glom's `pg_ctl stop` stopped it, is taken for a
command that has done its work, and `startup()` goes on to connect (`ChildExited`).
`pg_ctl status` and `pg_ctl stop` go by the directory
lock, `connect()` by the port: that difference is what the model is about.

| TLA+ | code |
|---|---|
| `Open`, `Create`, `StartUp` | `connection_request_password_and_attempt()`, `initialize()`, `startup()` up to its nested main loop |
| `FirstFreePort` | `discover_first_free_port()` |
| `PollSaysRunning`, `ChildExited` | `second_command_on_timeout()`, `on_child_watch()`: the two ways out of that loop |
| `ConnectSucceeds`, `FailToConnect`, `NoDatabase`, `CancelDialog` | `attempt_connect()`, the retries, the callers' handling |
| `Use` | a later connection of an open document |
| `Close`, `StopSucceeds`, `StopFails` | `cleanup()`; its failure path crashes in `show_active_connections()` |
| `EndAfterCrash`, `Kill` | `on_linux_signal()`; a process that is killed |
| `Server*`, `OtherProgram`, `Holders`, `Bound` | external: postgres and the operating system |

The two modules meet where the pool calls its backend: `ConnectionPool` has the
backend's answers as nondeterministic outcomes (`StartUp(ok)`, `CleanUp(stopped)`,
`BackendFailures`), and `SelfHosting` shows how each of them comes about.

### NetworkSharing

One document, its self-hosted database and one window. `roles`, `logins` and
`groups` are what `pg_shadow` and the groups say; `open` is what `pg_hba.conf`
says, `shared` what the document says and `saved` what its `.glom` file says, since the
save may fail. `step` is where `attempt_toggle_shared()` is: each SQL statement is an
action with its failure beside it, so that a crash (`Kill`) or the end of the server
(`ServerEnds`) comes between any two. A failed query for a user gives an empty list, and
that means to the code that there is no such user: `UseInitialUser` and `StopSharing`
have that branch. `server = "lost"` is `SelfHosting`'s orphan: it runs, and no
backend knows its port.

| TLA+ | code |
|---|---|
| `Open`, `OpenBesideLostServer`, `Close`, `Kill`, `LeaveDocument` | `connection_request_password_and_attempt()`, `on_document_close()`, a process that is killed; `startup()` rewrites the access file, and a flag that was not saved is lost |
| `ChangeToDeveloper` | `attempt_change_usermode_to_developer()`: a developer of the database |
| `AddInitialUser`, `UseInitialUser`, `InitialUserNotGrouped` | the first branch of `attempt_toggle_shared()`: `add_user()` in its two statements, the pool's new user |
| `AskForDeveloper` | its other branch: a developer exists, and is asked for |
| `Reown` | `set_database_owner_user()` |
| `DropDefault`, `DefaultNotDropped`, `DisableDefault`, `DefaultNotDisabled` | `remove_user()`, then `disable_user()`, with what is done after each failure |
| `StopSharing`, `GroupDefault`, `DefaultNotGrouped` | the default user is made again if the server does not list it |
| `SetFlag`, `SaveAgain`, `Restart` | `set_network_shared()` of the document, which saves it or fails to; a later save; then of the backend between `cleanup()` and `startup()` |
| `NewUser`, `AddUser`, `RemoveUser`, `DeleteUser`, `MayShrink` | the buttons of `Dialog_UsersList`, and `warn_about_empty_standard_group()` |

### Privileges

What groups other than the developers' may do. `granted` is the server's, `keepers`
the groups that may use the key table, `saved` the document's copy, which
`fill_table_list()` makes when a group is selected in the dialog, and only then.
`cache`, `timers` and `reading` are those of another process, whose user is a member
of `member`: it reads his groups, then the rights of each, while the rest goes on.
Any query or statement may fail.

| TLA+ | code |
|---|---|
| `SelectGroup`, `Select`, `SelectFirst`, `CloseDialog` | `on_treeview_groups_selection_changed()`, `fill_table_list()`, `fill_group_list()`; the dialog is modal |
| `NewGroup`, `DeleteGroup`, `ChangeMember` | its buttons, with `DbUtils::add_group()` |
| `Grant`, `Revoke`, `RevokeView`, `Toggle` | its boxes, `set_table_privilege()` |
| `AddTable`, `RemoveTable` | `create_table()`, `drop_table()` |
| `Recreate`, `RecreateByTool`, `Recreated` | a database from an example, by Glom or by `glom_create_from_example`: `add_groups_from_document()`, `set_table_privileges_groups_from_document()`, `set_table_privileges()` |
| `BeginReading`, `AskGroup`, `ReadGroup`, `Remember` | `get_current_privs()`, `get_groups_of_user()`, `get_table_privileges()` |
| `CacheTimeout` | `on_privs_privileges_cache_timeout()` |

### DocumentSession

The life of a document in one window: its URI, modified flag, level, autosave and
example flags, the files, and whether a server runs (`server`) or runs unknown
(`lost`). `content` is a version number for all that a developer designs. Each
setter of `Document` is an operator from document and disk to document and disk,
because a setter may save; an action composes the setters that the handler calls,
in its order.

| TLA+ | code |
|---|---|
| `SetModified`, `SetUnmodified`, `SaveChanges`, `Save`, `SetAllowAutosave` | `set_modified()`, which saves; `save_changes()`, `save()`, `set_allow_autosave()` |
| `SetUserLevel`, `Level`, `SetFileUri`, `SetIsExample`, `SaveAs`, `Change` | the setters by these names, "Save As", and any other setter |
| `NewDocument`, `CancelNew` | `existing_or_new_new()` |
| `OpenDocument`, `OpenExample`, `CancelExample`, `LeaveDialog` | `open_document()`, `on_document_load()`, `offer_new_or_existing()` |
| `ChangeUserLevel`, `ChangeDocument` | `attempt_change_usermode_to_*()`; any setter of a developer |
| `ChangeLanguage`, `Read` | `on_menu_developer_changelanguage()`, which loads the document from its file again; what a load leaves |
| `ShowNewTable` | `get_data_layout_groups_plus_new_fields()` |
| `SaveAsExample`, `CancelSaveAsExample` | `on_menu_file_save_as_example()` |
| `CloseUnmodified`, `CloseSaving`, `CloseDiscarding`, `CloseCancelled` | `on_menu_file_close()` with each answer to its question |
| `Launch`, `Environment` | a new process; a folder that becomes unwritable (external) |

### DocumentSchema

Tables, fields and `Relationship` objects in memory (`rel`: those that something
holds; `listed`: those that the document lists), the items of the layouts, and what
the file says. An item refers to relationships by pointer and to its field by name;
it is told by the place where it is, because removals and renames walk some places
and not others. `Saved` and `LoadedUse` are the translation to names and back.

| TLA+ | code |
|---|---|
| `AddTable`, `AddField` | `Box_Tables`, `Box_DB_Table_Definition` |
| `AddUse`, `RemoveUse` | the layout dialogs, which give the document a changed copy of a layout |
| `ChoosePortal`, `CopyPortal` | `offer_relationship_list()` of the layout dialog: a relationship of the list or, if the chooser is cancelled, a clone of the current one |
| `RemoveRelationship`, `RemoveField`, `RemoveTable` | `Document::remove_*()` with their cascades |
| `CloseRelationships` | `Box_DB_Table_Relationships::save_to_document()` |
| `RenameField`, `RenameTable` | `Document::change_field_name()`, `change_table_name()` |
| `Translate` | a title of a relationship, which the comparison of two relationships looks at, too |
| `Reload` | `save_before()`, `load_after()` |

Relationships are compared by value (`remove_relationship()`, `change_field_name()`), so an
object that is not in the document's list is found as long as it equals one that is. The
objects that a renaming or a new title made different from theirs are `adrift`
(`LeftBehind`), as are those that the relationships dialog dropped.

### Calculations

The mutual recursion of `set_field_value_in_database()`, `do_lookups()`,
`do_calculations()` and `calculate_field()`, over one record. The stack of the model
is the stack of these calls, with what each still has to do; `progress` is
`m_FieldsCalculationInProgress`. Instead of values there is the set of stale fields
(`Changed`, `Overwritten`). `first` tells the calls that have
`use_current_calculations` false, which clear the table of fields in progress; what is
left of a loop is a set, taken in the document's order (`FirstOf`) or, for the fields of
a formula, in any. A developer may give one field both a formula and a lookup. The
constant `Designs` gives the tables to look at. When the SELECT of a formula's inputs
fails (`EvaluateUnread`), the formula runs without them, and its result is stored and
marked finished.

| TLA+ | code |
|---|---|
| `Edit`, `ChangeFormula` | a user's edit; `calculate_field_in_all_records()` |
| `CalculateNeeded`, `Evaluate`, `EvaluateUnread`, `UpdateFails`, `CalculatedMeanwhile`, `NoLongerInProgress` | `calculate_field()` |
| `LookUp`, `LookupsDone`, `UseClearedValue` | `do_lookups()`; the reference it uses after the table was cleared |
| `BeginCalculations`, `Trigger`, `CalculationsDone` | `do_calculations()` |
| `Overflow`, `StartAgain` | the end of the C++ stack; the user starts Glom again (external) |

### Records

Several Gloms, one table with an auto-increment key. Each SQL statement is an
action. `client[c]` says which statement the process is at and who asked for the key
(`details`, `list`, `related`, `import`, `setup`, or `hand` for a key that the user
entered), since that decides what happens when a statement fails. `rows` is a set,
because two rows for one key are possible and the table has no unique key. Queries fail,
too: one for the next value that fails is taken for no row (`BeginFetch`), one for
uniqueness for "unique" (`CheckUnique`).

| TLA+ | code |
|---|---|
| `BeginFetch`, `InsertFirst`, `Increment` | `auto_increment_insert_first_if_necessary()`, `get_next_auto_increment_value()` |
| `SetNextValue`, `RemoveNextValue` | the preferences; `remove_auto_increment()` |
| `EnterKey`, `CheckUnique` | the list, `check_entered_value_for_uniqueness()` |
| `Insert`, `InsertFails`, `AfterInsert` | `record_new()`, and its callers with its result |
| `Link`, `Delete` | `add_related_record_for_field()`, `record_delete()` |

### CsvImport

One file, one import dialog, one progress dialog. A file is a sequence of bytes of
a few kinds, some of them of a character that takes two; the answers of the
asynchronous reads and the calls of the idle handlers come in any order. Files are
exports of small tables (`Exported`, which is `export_data_to_stream()`) or come from
elsewhere. What the parser should find is said independently of it: `RowsOf` looks for
the newlines with an even number of quotes before them, and takes the lines between them
by rank. The first row that the dialog hears of decides the number of columns
(`ScannedFirst`, `columns`); the user gives fields to some of them, and a record has the
columns that have a field (`fields`). A number is there as the text it is written as.

| TLA+ | code |
|---|---|
| `Opened`, `NotOpened`, `BufferRead`, `EndRead`, `ReadFails`, `LateAnswer` | `on_file_read()`, `on_buffer_read()`; an answer after the dialog is gone |
| `ParsePiece`, `Converted`, `Scanned`, `FieldsOf` | `on_idle_parse()`, `iconv()` (`ConvertedByte`), `do_line_scanned()`, `advance_field()` |
| `EncodingError`, `ChangeEncoding` | `on_parser_encoding_error()`, `begin_parse()`, `on_combo_encoding_changed()` |
| `ScannedFirst`, `ChooseField`, `PressImport` | `on_parser_line_scanned()` for the first row, `on_field_edited()`, `validate_primary_key()`, `Dialog_Import_CSV_Progress::import()` |
| `ImportRow`, `FetchRowForEver`, `CancelImport`, `CancelWithinImport`, `CloseDialog` | `on_idle_import()`, `fetch_next_row()`, the dialogs' responses |

### How the modules meet

`DocumentSession` has a server that runs or does not, and one that is lost: the
outcomes of `SelfHosting`'s `StartUp` and `Close` as the window sees them, and
`ReplaceServer` is the pool's `SetupFromDocument`. `NetworkSharing` has the same
server with its access file, and its `user` is the credentials of `ConnectionPool`;
`Privileges` has the groups that it leaves out. Whoever fetches keys in `Records` needs
what `CreatorsMayFetchKeys` in `Privileges` says he has.
`DocumentSchema` opens up what is one number, `content`, in `DocumentSession`;
its `Remove` saves in the middle, as `SetModified` does there. `CsvImport` makes a
record per row, and `Records` (kind `import`) says whether the database accepts it; a
stored record then starts the recursion of `Calculations`.


## 3. The runs

`tlc -config X.cfg M` in this directory.

| run | module | expected | what it shows |
|---|---|---|---|
| `pool_stragglers` | MCConnectionPool | pass | whatever callers do: `TypeOK`, `CredentialsCurrent`, `FinishedNeverNull` |
| `pool_disciplined` | MCConnectionPool | pass | no handle outlives an invalidation: `HoldersShareOpenConnection`, `PublishedOnlyWhileConnected`, `OnlyLastUserCloses`, `KeepsPromise` |
| `pool_stale_signal` | MCConnectionPool | violation | `OnlyLastUserCloses` without that discipline |
| `hosting` | MCSelfHosting | pass | `TypeOK`, `KnowsItsServer`, `EveryWaitEnds` |
| `sharing` | MCNetworkSharing | pass | whatever fails and wherever Glom ends: `TypeOK`, `SharingKeepsADeveloper`, `SharedWithoutDefault`, `UnsharedHasDefault`, `OpenOnlyWhileShared` |
| `privileges` | MCPrivileges | pass | `TypeOK`, `CreatorsMayFetchKeys`, `RecreatingInventsNoRights`, `RevokedIsNoticed` |
| `session` | MCDocumentSession | pass | `TypeOK`, `OnlyTwoOperationsForget` the flag of unsaved changes, `OpeningForgetsNoServer` |
| `schema` | MCDocumentSchema | pass | `TypeOK`, `RelationshipsJoin`, `LayoutsKeepRelationships`, `ReloadAgrees`, `FileKnowsTheSchema` |
| `calculations` | MCCalculations | pass | `TypeOK`, `ConsistentWhenDone`, `CrashesOnlyAfterLookups`, `ChangesEnd` |
| `calculations_stale` | MCCalculations | violation | `FinishedIsCorrect` |
| `records` | MCRecords | pass | `TypeOK`, `CalmKeysAreFree`, `UsedKeysWereMade`, `CalmDetailsShowTheNewRecord` |
| `import` | MCCsvImport | pass | `ImportTypeOK`, `RowsFollowTheFile`, `ImportsEachRowOnce`, `ExportedComesBack`, `ParsingEnds` |

Every property of a passing run has a mutant: a plausible slip in the code (a cache
that survives a change of user, a handler that is not connected, one retry too many)
under which TLC finds it violated. The mutated operators are in the modules, marked
"Mutant".

**Bounds.** Pool: 2 callers, 3 handles, 3 connections, 2 credentials, a self-hosting and
a plain backend, a counter modulo 8. Two callers and the cache are three independent
holders; two stale handles and a current one are what it takes for a stale signal to
close a connection in use, so a third of each suffices. The counter's width matters only
for its wrap from zero, which any modulus above the number of handles has (assumed: a
process makes fewer than 2^32 handles at a time). 28,048 states up to symmetry with
stragglers, 31,248 without. Hosting: 2 Gloms, 1 document, 2 servers, 2 ports, 1 retry
(54,820 states): two processes in each other's way need one document and two servers; a
taken port needs two; one retry separates "again" from "give up". The inductive
invariant of the proofs was also checked with two documents and three servers.

Sharing (120,068 states): three users beside the default one, enough for one who creates,
one who is deleted and one who is left. Privileges (131,570): one group, one table and all
four rights, since every property is about one group's right on one table and groups and
tables share nothing but the order in which they are read; two groups with the rights to
view and to create (698,356) pass too, in more time than a run should take. Session
(179,232): three files, one of them read-only, and `MaxContent` 3, the two changes of a
creation and one more. Schema (865,219): `MaxTables` 2 of three names, so that a name can be
taken, free or just freed; two fields, one of them the key; two relationship objects that
may have the same name; `MaxUses` 1, since no operation looks at two items together.
Calculations (659,441): every acyclic graph over four fields in every document order, three
fields with circles and one lookup from and to any of them, one design with two lookups:
1289 designs. A stale value takes a chain of three, so four fields leave one for a branch.
`MaxDepth` 10 is more than the calls of any acyclic design here nest; only circles reach it.
Records (883,961): two clients, keys 0 and 1 (`MaxKey`), a next value up to 2. Import
(293,887): every exported table of at most two rows over two numbers and five texts, one
with a row of its own, and ten foreign files of at most eight bytes, with reads of three
bytes and conversions of two characters, so that pieces end within characters, quotes and
lines as 1024-byte pieces of a long file do. Two rows, since the first decides the columns
of the others. `MaxStarts` 2, since what a second start finds wrong a third finds, too;
eight of the files are started twice (`Reread`).

**Fairness.** `pool_disciplined`: weak fairness of `CacheTimeout`: GLib fires a timer as
long as the main loop turns, which it also does in nested loops. Nothing is assumed of
the callers. `hosting`: weak fairness of a server's own steps (the operating system runs
it), of the ways out of each nested main loop (the poll comes every second, the child
watch is dispatched, the delay is a timer, `pg_ctl` returns), and of the crash handler.
Nothing is assumed of users, of other programs or of a server's death. `calculations`:
weak fairness of `Step`: the thread goes on with its calls. `import`: weak fairness of
`Opening`, `Reading` and `Parsing`: GIO answers an asynchronous request some time, with
an error if need be, and the main loop dispatches idle handlers. Nothing is assumed of
the user. `privileges`: weak fairness of the reading process, whose
`get_current_privs()` is a sequence of queries that each end; strong fairness of
`CacheTimeout`, because the main loop dispatches a timeout that is due whenever it runs,
and it does not run while a handler reads: a process that reads again and again disables
it again and again. The others state safety only.

**Environment.** Two constants name assumptions that the code relies on and does not
enforce. `Stragglers`: may a caller hold a handle while the connection is invalidated? Most
callers drop theirs within one handler; a nested main loop in the middle is how one
survives. `SlowServers`: may a server look at its lock only after the first poll, one second
after it was spawned? With slow servers a Glom takes another's server for its own child's
and `KnowsItsServer` does not hold. History variables name the exceptions that properties
need. Of `NetworkSharing`: `bereft` (Glom ended after sharing had taken the default user
away and before the file said "shared", or a developer deleted him), `unlisted` (the last
sharing could not read the list of users) and `unfinished` (since the server was last
started, Glom ended with the flag not saved or the access file not written). Of
`DocumentSchema`: `adrift`, as above. Of `Calculations`: `failed` (a record could not be
read or a value not stored). Of `Records`: `calm` (no two fetches of a key overlap, no
statement of a fetch fails, nobody sets the next value or enters a key by hand). Of
`Privileges`: `spoiled` (where a right to create records was given by hand in the dialog, or
the second GRANT failed). Of `CsvImport`: `stale` (a second start kept a part of a line).
What happens in each of these cases is the code's behaviour; the models go there, and
section 5 says what they find. `ever` of `Privileges` only remembers what was granted;
nothing depends on it.

`CHECK_DEADLOCK` is off in two runs, whose systems really stop. In `sharing`, a
document that was unshared after the default user was disabled can never be opened
again (section 5). In `import`, the dialogs are closed, or Glom has crashed.


## 4. The proofs

| theorem (module) | says |
|---|---|
| `TypeCorrect` (ConnectionPool_proofs) | `Spec => []TypeOK` |
| `CredentialsStayCurrent` (ConnectionPool_proofs) | `Spec => []CredentialsCurrent`, stragglers or not |
| `NeverFinishesNull` (ConnectionPool_proofs) | `Spec => []FinishedNeverNull`, stragglers or not |
| `NeverPublishedAlone` (ConnectionPool_proofs) | `~Stragglers`: `Spec => []PublishedOnlyWhileConnected` |
| `SharingInvariant` (ConnectionPool_proofs) | `~Stragglers`: `Spec => []SharingInv` |
| `HoldersAlwaysShare`, `LastUserCloses` | `~Stragglers`: the properties of `pool_disciplined` by these names |
| `CacheAlwaysConnected` | `~Stragglers`: `Spec => []CacheIsConnected` |
| `StepsKeepPromise` | `~Stragglers`: initial states and steps map to those of `ConnectionPromise` |
| `HostingTypeCorrect` (SelfHosting_proofs) | `Spec => []TypeOK` |
| `HostingInvariant`, `NoServerIsForgotten` | `~SlowServers`: `Spec => []HostingInv`, `Spec => []KnowsItsServer` |
| `TypeCorrect` (NetworkSharing_proofs) | `Spec => []TypeOK` |
| `DefaultIsRestored`, `StaysClosed` | `Spec => []UnsharedHasDefault`, `Spec => []OpenOnlyWhileShared` |
| `SharesWithoutDefault`, `KeepsADeveloper`, `DevelopersStay` | `SharedWithoutDefault`, `SharingKeepsADeveloper`, `EmptiedFromAnotherList` |
| `TypeCorrect`, `KeysSafe` (Privileges_proofs) | `Spec => []TypeOK`, `Spec => []CreatorsMayFetchKeys` |
| `NoInventedRights` | `Spec => RecreatingInventsNoRights` |
| `SchemaInvariant`, `TypeCorrect` (DocumentSchema_proofs) | `Spec => []Inv`, `Spec => []TypeOK` |
| `RelationshipsAlwaysJoin`, `LayoutsAlwaysKeepRelationships`, `FileAlwaysKnowsTheSchema` | the invariants of `schema` by these names |
| `NamesStayUnique`, `ReloadAlwaysAgrees` | `Spec => []UniqueNames`, `Spec => []ReloadAgrees` |
| `SessionInvariant`, `TypeCorrect` (DocumentSession_proofs) | `Spec => []Inv`, `Spec => []TypeOK` |
| `OnlyTwoEverForget`, `NoServerIsForgotten` | the action properties of `session` |
| `ExamplesAreKept` | `FilesOfExamplesAreKept` |
| `CallsTypeCorrect` (Calculations_proofs) | `Spec => []TypeOK` |
| `NoneMissingWithoutLookups`, `ChangesReachAll` | `Spec => []CrashesOnlyAfterLookups`, `Spec => []ConsistentWhenDone` |
| `TypeCorrect`, `UsedWereMade`, `CalmKeys`, `CalmDetails` (Records_proofs) | the invariants of `records` |
| `ImportTypeCorrect` (Records_proofs) | `ImportSpec => []ImportTypeOK` |
| `RowsAreTheFiles`, `RecordsAreTheRows` | `ImportSpec => []RowsFollowTheFile`, `ImportSpec => []ImportsEachRowOnce` |
| `ExportsComeBack` | `ImportSpec => []ExportedComesBack` |
| `PieceConverted`, `AllRowsFound` | what a conversion in pieces gives; which rows the scan of a text finds |
| `RowsOfTable`, `PiecesAreValid` | the text of an exported table has its rows; no piece of a file that can be converted in one go is invalid |

Three of these are proved and not part of a run: `CacheIsConnected`,
`FilesOfExamplesAreKept`, and `EmptiedFromAnotherList` (the group of developers becomes
empty only through another group's list).

They hold for all sets of callers, handles, credentials, Gloms, documents, servers, ports,
users, groups, rights, files, tables, fields, relationships and clients, for all designs of
a table's formulas and lookups, and for all values of the bounds. The assumptions are those
of the modules: the special values are not members of the sets, the ports are positive
numbers, the handles are finitely many and fewer than the counter's modulus, the users are
finitely many, the key of a new table is a field name, the read-only files are files, a file
is a sequence of bytes and the rows of a table to export are pairs of a number and a text.

*The pool.* `HoldersShareOpenConnection` is not inductive: nothing in it says that a
release does not take the count to zero. `SharingInv` adds that the count is the
cardinality of the set of live handles (those held, and the cached one), that exactly
those listen, that all have the pool's connection, and that there is a connection
iff that set is not empty. The proof has a lemma per method (what it does to a pool
whose count is exact) and composes them per action, as the code composes the methods.
`InvalidateShares` needs only that nobody but the cache listens: that is where the
discipline enters, and where `pool_stale_signal` breaks. `NeverFinishesNull` needs no
discipline: its invariant, `Sound`, is that without a connection the count is zero or
greater than the number of listening handles, so that what is left of them cannot
count it down to one. `Publishes` says that what is published has a connection
and a backend with remote access, which is what makes the last release reach the
publisher.

*The servers.* `KnowsItsServer` speaks of one server at a time; to keep it when
`pg_ctl stop` stops a server by directory, one has to know that the Glom has no
other server there. `HostingInv` says who watches whom: a starting Glom has exactly
its child, every other server of a living Glom runs at the port it remembers, an
exited process is somebody's child, and a data directory has one holder.

*Sharing.* `StepsRelyOn` says what each step of `attempt_toggle_shared()` may rely on:
that another developer who may log in is in the group before the default user is
dropped or disabled, that the default user is gone or disabled before the flag is set,
that he is listed before it is taken back. `UnsharedHasDefault` and `OpenOnlyWhileShared`
have `saved` in them through their histories: what a process leaves when it ends is the flag
of the file. Beside the types, the three are inductive together.

*Privileges.* `EverCovers` says that what is granted and what the document's copy says
were both possible at some time. Together with the types, and because the groups are made
before the tables, that is all a database made from an example can grant.
`CreatorsMayFetchKeys` is inductive by itself beside the types.

*The schema.* Items hold relationships by pointer, and a removal takes from the list. `Inv`
adds to the properties that an object that is adrift is not listed, and that only an item in
a portal has a portal, in memory and in the file; without it a loaded item could hold a
relationship that no removal looks for. That an object which is not adrift equals one of the
list is `LayoutsKeepRelationships` itself; renamings keep it because they put adrift exactly
the equal objects that they leave behind. `ReloadAgrees` says that pointers survive being
written as names. It rests on `NamesInv`: no two relationships of a table have one name, and
an item has a related relationship only beside a direct one. The dialogs refuse equal names,
a removal takes names away, and a reload makes one object of each relationship of the file;
the use that comes back is then the one that was saved, because its relationship is found by
its name and is the only one; a copy comes back as the original.

*The session.* `Inv` adds that behind the dialog there is no example and that a
document that is still new is exactly `NewDoc` with no server: that is why opening
one forgets no server. Each setter has a lemma: it keeps `FlagKnows`, or it is one of
those that reset the flag.

*The calculations.* Their actions replace the innermost call by up to three others; the
first lemmas say which, the invariants look at no more. `CrashInv`: as long as no lookup
goes from a calculated field, the calls that clear the table of fields in progress have
below them only the user's edit and the lookups that follow from it
(`FirstBelowOthers`), so that a field that is being calculated has an entry that says
so, is being calculated once, and keeps the entry until it is used
(`CalculatingOnce`, `StoredThere`). `ConsistentInv` is what carries a change on: every
stale field is *covered* by a call, its own calculation or a `do_calculations()` that
will come to it and not find it finished (`StaleAreCovered`). When a field is
evaluated, one has to know that no field that uses it is finished already and that the
fields it needs are: `FinishedFromFinished`, which `NeededAreBegun` and `BegunAreCalled`
keep, because a needed field that is begun and not finished would have a call on the
stack, and `LeavesOnTop` says that such a call is the innermost where there is no chain
of three. `ConsistentWhenDone` is `StaleAreCovered` for an empty stack. All this is of
changes that have not `failed`: a field that was evaluated without its inputs is stale,
finished and covered by nothing.
`pool_stale_signal`'s counterpart here is `calculations_stale`: with a chain of three
`LeavesOnTop` is false, and so is the rest.

*The records.* A key that was fetched is free only while nothing disturbs the next
value. `Calm` says, under `calm`, that one process at most is fetching, that every row
of the next value is greater than every record and every key in hand (but for the one
that is being fetched), and that no two processes have the same key. `LinkingMadeIt`
is what the foreign keys rest on.

*The import.* Its properties compare what was computed in pieces with what one computation
over the whole file gives, for files of any length. Induction with an operator as parameter
is out of the provers' reach; what serves instead is that a set of numbers that is not empty
has a least one (`LeastNumber`, from the theorem that `<` on the numbers is well-founded),
hence that a *set* that has 0, and `i + 1` with every `i`, has all numbers up to a bound
(`UpTo`). On that rests a small theory of what is computed along a sequence: the values
after each step are a function (`IsTrace`), which exists and is unique, so that the steps
over `s \o t` lead from where those over `s` lead to (`RanConcat`). `Converted` and
`Scanned` are such steps (`ConvertedIsConversion`, `ScannedIsScan`). `PieceConverted` is the
fact about `iconv()`: from a place between two characters a piece gives what the whole file
has there, whether it ends because the buffer is full, because the bytes are, or in the
middle of a character. `ScanAgrees` is the one about the scan: after `i` characters it has
the rows that end by then, each at its rank, the line since the last edge, and the parity of
the quotes; at the end those are the rows of `RowsOf` (`AllRowsFound`).

Of the protocol, `SoFar` says for a parser that was started once and kept no part of a line:
there is one stream, and `m_raw` is what it has delivered (`OneStream`); the conversion of
the file up to `m_input_position` would go on between two characters, and the scan of
what it gave is where the parser is (`ParsedSoFar`); a parser that says that it has
parsed has all rows and is left alone, by reads, idle handlers and `clear()`; and the
records are of the rows up to `m_row_index` (`ImportedSoFar`). It is inductive beside
`ImportInv`, which has the types. The invariant shows what the exception is for: `clear()`
keeps `m_current_line`, and `ClearedSoFar` is false without `~stale`.

That an exported table comes back (`ExportedComesBack`) rests on both, and on the way of a
text through the file. The bytes of the export convert to its text (`Decoded`). A quote
within a field is written twice, so two of them leave the scan where it was; what is between
the quotes ends no row (`TextScanned`) and no field (`TextAdvanced`); so a written row is
scanned as one row (`RowScanned`) and read as its number and its text (`RowRead`), and a
table as its rows (`RowsOfTable`). How many columns an import has is decided by its first
row, which is the table's first (`FirstRowDecides`, `FirstRowAlways`), so that each record
is its row's number and text as far as their columns exist and have fields: after a first
row that has no number nothing but the first column is imported. `from_file_format()` leaves
a text as it is in which no two quotes are next to each other (`PlainTextStays`). All that
is of the whole text; to use it one has to know that the encoding tried first, UTF-8, is the
one that is kept, and that is `FromTable`, which is inductive beside `SoFar`: a piece is
never invalid, since what is stuck in a piece is stuck in one go (`StuckStays`,
`ConversionStops`), and the file's conversion is not (`PiecesAreValid`).

Only model-checked: liveness (`EveryWaitEnds`, `ChangesEnd`, `ParsingEnds`,
`RevokedIsNoticed`, the fairness half of `KeepsPromise`) is beyond TLAPS. Every invariant
and action property of the passing runs has its theorem, and nothing is assumed without
proof.


## 5. What the models found

Two runs find disagreements between the code and its own comments, each with a
trace and quoted in `PROJECT.json`.

1. `pool_stale_signal`: `connect()` remembers one signal connection, so a handle that
   outlives two new connections still decrements the count and closes a connection in
   use; the comment above that line fears it (`connectionpool.cc:292`).
2. `calculations_stale`: "The correct value is already in the database and layout"
   (`base_db.cc:594`). A field that was calculated while one of its inputs was in
   progress, because another input triggered it, is finished with the old value, and
   is not calculated again. A chain of three calculated fields is enough.

What follows are states and steps of the models, or was seen while reading; no run is
about it.

*Connections.* `convert_backup()` uses `m_gda_connection` after `pg_restore`'s nested
main loop, in which the cache's timer may have closed it (`connectionpool.cc:429`).
`connect()` dereferences the backend's answer before testing it (`:321`), and the
self-hosting backend answers null when its retries run out. `cleanup()` leaves the
SIGSEGV handler in place, because what it restores was `SIG_DFL` (`:645`).

*Servers.* "Don't try to stop it if we have not started it" (`postgres_self.cc:400`)
tests that *some* server was once started; `pg_ctl stop` (`:431`) then stops whichever
runs in the directory. `SelfHosting` reaches it: the server of one Glom dies, a second
Glom opens the document and starts its own, and closing the first stops it. A server that
is stopped while its Glom waits for it to start counts as started, because it exits with
the status of success (`spawn_with_feedback.cc:587`): Glom then tries to connect to nothing
until its retries run out.

*Sharing.* Sharing and unsharing may end with the default user disabled and the document not
shared: it exists, so it is not made again, and nobody can open the document any more
(`privs.cc:67`). The same happens when the database could not be reowned. When another
developer exists already, sharing always fails and leaves the server lost or stopped
(`AskForDeveloper`). Unsharing that fails after the default user was made leaves him able to
log in to a shared database. So does a failed query for the default user when a document is
shared: he counts as not existing, nobody drops or disables him, and the document is shared
all the same (`frame_glom.cc:743`, `UseInitialUser`), though `privs.cc:109` says that "the
caller should interpret an empty result for group_name="" as an error";
`SharedWithoutDefault` without its exception is violated after five steps. Every caller of
`startup()` leaves `network_shared` at `false`, also the one at `frame_glom.cc:851`, two
lines after the access file was written: sharing "will allow other users on the network to
use this database" (`:687`), and the server is started for this computer only
(`postgres_self.cc:245`). A crash between the flag and the restart of unsharing leaves a
lost server open, and the document not shared, until the document is opened again.
`attempt_toggle_shared()` returns `true` although nothing changed. The group of developers
can be emptied from another group's list (`dialog_users_list.cc:407`).

*Privileges.* `add_group()` asks for `get_table_names_from_database(true)`, "plus system
prefs", but that parameter leaves the system's tables out, so that "Let them edit the
autoincrements too" (`db_utils.cc:2208`) is never reached. A group that is given the
right to create records in the dialog can therefore not fetch keys, although
`db_utils.cc:1441` says that "Any user who has create rights for a table should have
edit rights to the autoincrements table". `glom_create_from_example` makes the tables
before the groups, so that every group gets the default rights on all of them
(`RecreateByTool`). The document's copy is written when a group is selected: later
changes, and groups that were never selected, are not in it, and the restore of a backup
fails for such a group (`appwindow.cc:1725`); deleted groups stay. A GRANT of no
privilege is an SQL error, and where the copy has less than a group was given, nothing
is revoked. Revoking "view" revokes the rest, "If the group cannot view", but the rest
can be granted again without it. A group with the key table granted can never be
deleted. While groups, members and grants change, a process may for 30 seconds believe
in a right that its user has lost or never held, and a failed query is remembered as no
rights at all; the cache is by table, not by user.

*Sessions.* `document.cc:1508` resets the modified flag though the autosave may have failed,
as does Save as Example when it cannot write the document back: closing then asks nothing.
Changes made while a document is loading stay unsaved in operator mode. Save As of an
unmodified document writes no file. Changing the language loads the document again
(`appwindow.cc:2326`): changes that could not be saved are gone without a question.
Cancelling Save as Example, then closing an unmodified document, leaves the window open
without its server (`appwindow.cc:2076`), as does cancelling the close of a modified one
(`appwindow_withdoc.cc:59`). `existing_or_new_new()` leaves the server running when the
database could not be created, and the next attempt loses it. After a failed New, Open
starts another process.

*The schema.* The test for an equal name at `box_db_table_relationships.cc:152` is inverted,
so closing the dialog empties the table's list of relationships; the same use of
`find_if_same_name_exists` is at `document.cc:630`, `1158`, `1181` and `db_utils.cc:1224`.
`remove_field()` leaves items in portals and print layouts, and the fields that reports
group by, though `document.h:216` says that the field is then "not used anymore in
relationships, layouts, reports, etc.". Removals erase top-level portals from a copy of the
layout (`document.cc:676`), do not look at related relationships, and clean layouts after
the file was saved. `set_relationship()` replaces a pointer and does not save. The chooser
of a portal's relationship, when it is cancelled, leaves the portal with a clone of the
relationship it had (`dialog_layout_details.cc:583`): a later renaming of a field or table,
or a new title, reaches the original, and after it the clone equals nothing, joins what is
no longer there, and is not found by `remove_relationship()`; a reload makes the two one
again. The navigation relationship of a portal is never saved. Renaming a field also renames
items of that name in nested groups of other tables' layouts. `frame_glom.cc:2333` renames a
print layout with `remove_report()`. A load that fails leaves `m_block_modified_set` set
(`document.cc:2552`, `2618`).

*Calculations.* Neither `do_calculations()` nor `do_lookups()` looks for circles: they
recurse until the stack ends (`Overflow`). A lookup from a calculated field clears the
table of fields in progress under references into it (`base_db.cc:1063`). When the SELECT of a
formula's inputs fails (`base_db.cc:645`), the formula runs with empty values, and the
result is stored and marked finished.

*Records.* The details view ignores the result of `record_new()`
(`box_data_details.cc:435`, `:872`): after a developer has set the next value to a key in
use it shows another record as the new one. The import loses rows whose key is refused.
A failed increment still returns the value. A failed query for the next value is taken for
no row: a second one is inserted, and the key is 0 (`db_utils.cc:1451`). Two rows may
appear for one key. Turning on
auto-increment for a field that has data starts at 0 (`connectionpool.cc:760`). An UPDATE
of a record that somebody has deleted changes nothing and counts as success.

*Import.* `fetch_next_row()` guards itself with two checks of which one fails in every
state, and each calls `fetch_next_row()` again (`csv_parser.cc:129-130`): unless Glom is
built without GLib's checks, every import ends there. `clear()` keeps `m_raw`,
`m_current_line`, `m_stream` and `m_row_index`: a second encoding parses the file appended
to what was read of it before, after a stale beginning of a line. An unanswered read then
writes to a buffer that is gone. After an encoding error the parser is not started again,
and goes on only when a read happens to be unanswered. A read error during the wait reaches
`g_assert_not_reached()` (`dialog_import_csv_progress.cc:141`). Cancelling within
`on_idle_import()`'s event loop dereferences null; closing the dialog while a read is
pending calls a deleted parser. An export omits the comma after an empty first field
(`db_utils_export.cc:130`), so that a table whose first row has no number there is imported
with one column, and the texts of all other rows are left out; and `from_file_format()`
unescapes quotes a second time. These are the exceptions of `ExportedComesBack`.


## 6. What is not modelled

The map covers a small share of the repository, most of which has no state to explore:
widgets and dialogs that show and edit one value at a time (about half of the
code), XML element by element, SQL text, drawing. Of the parts that have state:

- *Connections and servers*: the fake connections of the tests; the thread of libepc's
  authentication callback (it shares only the backend pointer); a document that has only
  its backup directory; the second attempt inside `show_active_connections()`, which
  cannot get that far; a window closed during a nested wait; MySQL's self-hosting, which
  repeats the structure of PostgreSQL's; central and SQLite backends, which have no
  server to run.
- *Sessions*: documents from the network, backups, the history, a file that another
  program changes.
- *Schema*: the dialog for a related table, whose creation is commented out
  (`frame_glom.cc:953`), so that its handler is never called; groups of items other than as
  places, translations other than the title of a relationship, print layouts other than as
  a place that nothing walks, settings that nothing else names.
- *Privileges*: the renaming of tables, the system's tables other than that of the keys,
  groups of developers, a restored backup.
- *Records*: the editing of fields other than the key, placeholder rows, find mode; the
  order of rows.
- *Import*: the preview, null bytes, the title in the first line; the conversion of numbers
  to and from a `double`, which rounds long ones (`glomconversions.cc:481`, `:656`).
- *Not at all*: SQL and report building, locale-dependent conversion of values and
  translations (pure text); layout trees, print-layout geometry and widgets; Python, which
  runs the users' scripts; command-line tools, which are sequential uses of libglom.


## 7. Plan

Done, in the order of the plan: the pool and its promise; self-hosting; sharing;
sessions; the schema; calculations; records; import and export; privileges; the
proofs of section 4.

Left, in order of what it would add: self-hosting with MySQL as an instance of
`SelfHosting`; placeholder rows and the editing of records that others delete; a proof that
`DocumentSession`'s setters implement an editor whose flag says exactly whether the file is
behind, with the two exceptions of `OnlyTwoOperationsForget`; the order of items in layouts.
