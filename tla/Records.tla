------------------------------ MODULE Records ------------------------------
(***************************************************************************)
(* Several users add, edit and delete records of one table whose primary   *)
(* key is auto-incremented.  Glom makes the keys itself: the next one is   *)
(* in a row of the system table glom_system_autoincrements, which          *)
(* get_next_auto_increment_value() reads, and writes in a statement of its *)
(* own, before the record is inserted in a third.  What is done with the   *)
(* key next depends on who asked: the details view, the list, the creation *)
(* of a related record from a field of another table, or the import of a   *)
(* CSV file.                                                               *)
(*                                                                         *)
(* Every statement is an action, executed by the database as a whole; any  *)
(* may fail (a connection is lost, the user lacks a privilege).  The table *)
(* of records has a unique key, glom_system_autoincrements has none for    *)
(* the pair of names that a row belongs to.                                *)
(***************************************************************************)
EXTENDS Naturals

CONSTANTS
  Clients,   \* Glom processes that have the document open
  MaxKey,    \* bound on the keys
  None

ASSUME RecordsAssumption ==
  /\ MaxKey \in Nat
  /\ None \notin Clients /\ None \notin Nat

Keys == 0..MaxKey

VARIABLES
  rows,      \* next_value of the rows that the table's key has
  records,   \* keys of the records in the table
  client,    \* what each process is doing
  used,      \* history: keys a process put in its list or in a foreign key
  made,      \* history: which process inserted a record at which key
  calm       \* history: nothing has disturbed the next value

vars == <<rows, records, client, used, made, calm>>

(* Who asks for a key; "setup" is a dialog that makes sure of the row, and *)
(* "hand" the user, of a key that is not auto-incremented (any more).      *)
Kinds == {"details", "list", "related", "import", "setup", "hand"}

(* first: no row was found; fetched: the value was read, and is to be      *)
(* incremented; key: there is a key; unique: nobody has it; linking: the   *)
(* related record is inserted.  An idle process with a key shows, in the   *)
(* details view, the record with that key as the one just added.           *)
Steps == {"idle", "first", "fetched", "key", "unique", "linking"}

Client == [at : Steps, kind : Kinds, key : Keys \cup {None}]

TypeOK ==
  /\ rows \subseteq 0..(MaxKey + 1)
  /\ records \subseteq Keys
  /\ client \in [Clients -> Client]
  /\ used \in [Clients -> SUBSET Keys]
  /\ made \subseteq Clients \X Keys
  /\ calm \in BOOLEAN
  /\ \A c \in Clients : client[c].at # "idle" => client[c].key # None

----------------------------------------------------------------------------
Idle == [at |-> "idle", kind |-> "setup", key |-> None]
Showing(k) == [at |-> "idle", kind |-> "details", key |-> k]

(* A new database: insert_example_data() has inserted the records of the   *)
(* example and recalculated the next value from the greatest key, which is *)
(* taken for 0 where there is none; or there was nothing to insert.        *)
Init ==
  /\ \E n \in Keys :
        /\ records = {k \in Keys : k < n}
        /\ \/ n # 0 /\ rows = {n}
           \/ n = 0 /\ rows \in {{}, {1}}
  /\ client = [c \in Clients |-> Idle]
  /\ used = [c \in Clients |-> {}]
  /\ made = {}
  /\ calm = TRUE

Goto(c, step) == client' = [client EXCEPT ![c].at = step]
Become(c, state) == client' = [client EXCEPT ![c] = state]

Fetching(c) == client[c].at \in {"first", "fetched"}

----------------------------------------------------------------------------
(* The next value                                                          *)

(* The value that the SELECT of auto_increment_insert_first_if_necessary() *)
(* finds, or the one to start with.                                        *)
Found == IF rows = {} THEN {0} ELSE rows

(* A user presses New or enters a value (details), adds a row (list), a    *)
(* row is imported, a value is entered in a related field whose record     *)
(* does not exist yet (add_related_record_for_field(), if the relationship *)
(* creates records), or a dialog makes sure that there is a next value.    *)
(* A SELECT that fails is taken for one that found no row.                 *)
BeginFetch(c, kind) ==
  /\ client[c].at = "idle"
  /\ kind # "hand"
  /\ \/ /\ rows = {} \/ kind # "setup"
        /\ \E v \in Found \cap Keys :
             Become(c, [at |-> IF rows = {} THEN "first" ELSE "fetched",
                        kind |-> kind, key |-> v])
        /\ calm' = (calm /\ \A d \in Clients : ~Fetching(d))
     \/ /\ Become(c, [at |-> "first", kind |-> kind, key |-> 0])
        /\ calm' = FALSE
  /\ UNCHANGED <<rows, records, used, made>>

(* The row is inserted; a failure is reported on the terminal.             *)
InsertFirst(c) ==
  /\ client[c].at = "first"
  /\ \/ rows' = rows \cup {0} /\ UNCHANGED calm
     \/ UNCHANGED rows /\ calm' = FALSE
  /\ IF client[c].kind = "setup" THEN Become(c, Idle) ELSE Goto(c, "fetched")
  /\ UNCHANGED <<records, used, made>>

(* Mutant: the row is left as it is.                                       *)
IncrementLater(c) ==
  /\ client[c].at = "fetched"
  /\ Goto(c, "key")
  /\ UNCHANGED <<rows, records, used, made, calm>>

(* get_next_auto_increment_value() writes the value it read and one, in    *)
(* every row, and in none if somebody has removed it.  When that fails it  *)
(* still returns the value.                                                *)
Increment(c) ==
  /\ client[c].at = "fetched"
  /\ \/ rows' = {client[c].key + 1 : r \in rows} /\ UNCHANGED calm
     \/ UNCHANGED rows /\ calm' = FALSE
  /\ Goto(c, "key")
  /\ UNCHANGED <<records, used, made>>

(* The developer changes the next value in the preferences.                *)
SetNextValue(v) ==
  /\ rows # {}
  /\ rows' = {v}
  /\ calm' = FALSE
  /\ UNCHANGED <<records, client, used, made>>

(* remove_auto_increment(): the field is not auto-incremented any more, or *)
(* is removed.                                                             *)
RemoveNextValue ==
  /\ rows # {}
  /\ rows' = {}
  /\ calm' = FALSE
  /\ UNCHANGED <<records, client, used, made>>

(* The user enters the key of a new record.                                *)
EnterKey(c, k) ==
  /\ client[c].at = "idle"
  /\ Become(c, [at |-> "key", kind |-> "hand", key |-> k])
  /\ calm' = FALSE
  /\ UNCHANGED <<rows, records, used, made>>

----------------------------------------------------------------------------
(* Adding the record                                                       *)

(* Mutant: the value is left blank, and the record is added nevertheless.  *)
CheckUniqueAndGoOn(c) ==
  /\ client[c].at = "key"
  /\ client[c].kind \in {"list", "hand"}
  /\ Become(c, [client[c] EXCEPT !.at = "unique",
                    !.key = IF @ \in records THEN None ELSE @])
  /\ UNCHANGED <<rows, records, used, made, calm>>

(* check_entered_value_for_uniqueness(), in the list and of a key that was *)
(* entered; the user is told, and the row left blank.  A key that cannot   *)
(* be looked up counts as unique.                                          *)
CheckUnique(c) ==
  /\ client[c].at = "key"
  /\ client[c].kind \in {"list", "hand"}
  /\ \/ client[c].key \in records /\ Become(c, Idle)
     \/ Goto(c, "unique")
  /\ UNCHANGED <<rows, records, used, made, calm>>

MayInsert(c) ==
  \/ client[c].at = "key" /\ client[c].kind \notin {"list", "hand"}
  \/ client[c].at = "unique"

(* What a process does next.  The details view shows the record with the   *)
(* key, without looking at what record_new() returned.                     *)
AfterInsert(c) ==
  /\ CASE client[c].kind = "details" -> Become(c, Showing(client[c].key))
       [] client[c].kind = "related" -> Goto(c, "linking")
       [] OTHER -> Become(c, Idle)
  /\ used' = [used EXCEPT ![c] =
       IF client[c].kind = "list" THEN @ \cup {client[c].key} ELSE @]

Insert(c) ==
  /\ MayInsert(c)
  /\ client[c].key \notin records
  /\ records' = records \cup {client[c].key}
  /\ made' = made \cup {<<c, client[c].key>>}
  /\ AfterInsert(c)
  /\ UNCHANGED <<rows, calm>>

(* Mutant: the list and the related fields ignore what record_new()        *)
(* returned, as the details view does.                                     *)
InsertFailsUnnoticed(c) ==
  /\ MayInsert(c)
  /\ AfterInsert(c)
  /\ UNCHANGED <<rows, records, made, calm>>

(* The INSERT fails, always where the key is in use.  The import goes on   *)
(* with its next row.                                                      *)
InsertFails(c) ==
  /\ MayInsert(c)
  /\ Become(c, IF client[c].kind = "details"
                  THEN Showing(client[c].key) ELSE Idle)
  /\ UNCHANGED <<rows, records, used, made, calm>>

(* The new key is shown in the field that triggered the creation, and      *)
(* stored there.                                                           *)
Link(c) ==
  /\ client[c].at = "linking"
  /\ Become(c, Idle)
  /\ used' = [used EXCEPT ![c] = @ \cup {client[c].key}]
  /\ UNCHANGED <<rows, records, made, calm>>

(* record_delete(), in the details view or the list: any record can be     *)
(* opened there.                                                           *)
Delete(c, k) ==
  /\ client[c].at = "idle"
  /\ k \in records
  /\ records' = records \ {k}
  /\ Become(c, Idle)
  /\ UNCHANGED <<rows, used, made, calm>>

Next ==
  \/ \E c \in Clients :
       \/ \E kind \in Kinds : BeginFetch(c, kind)
       \/ InsertFirst(c) \/ Increment(c) \/ CheckUnique(c)
       \/ Insert(c) \/ InsertFails(c) \/ Link(c)
       \/ \E k \in Keys : EnterKey(c, k) \/ Delete(c, k)
  \/ \E v \in Keys : SetNextValue(v)
  \/ RemoveNextValue

Spec == Init /\ [][Next]_vars

----------------------------------------------------------------------------
Holds(c, k) == client[c].at \in {"key", "unique"} /\ client[c].key = k
Shows(c, k) == client[c].at = "idle" /\ client[c].key = k

(* As long as no two fetches overlap, every statement of a fetch succeeds  *)
(* and nobody meddles with the next value, a key that was fetched is free, *)
(* and is nobody else's: get_next_auto_increment_value() needs no lock     *)
(* then, and no INSERT is refused for its key.                             *)
CalmKeysAreFree ==
  calm =>
    \A c \in Clients, k \in Keys : Holds(c, k) =>
      /\ k \notin records
      /\ \A d \in Clients \ {c} : ~Holds(d, k)

(* Whatever happens to the next value, a row of the list gets its key, and *)
(* a foreign key that of a related record, only when this very process     *)
(* inserted the record: what the user goes on to enter in the row or the   *)
(* related field is for a new record.  Several users who create a related  *)
(* record at once leave some that nothing refers to, and never a reference *)
(* to a record that never was.                                             *)
UsedKeysWereMade ==
  \A c \in Clients : \A k \in used[c] : <<c, k>> \in made

(* "Just make a new record, and show it": the record that the details view *)
(* shows as just added was added by this process.                          *)
DetailsShowTheNewRecord ==
  \A c \in Clients, k \in records :
     Shows(c, k) => <<c, k>> \in made

(* It is as long as the next value is left in peace.                       *)
CalmDetailsShowTheNewRecord == calm => DetailsShowTheNewRecord
============================================================================
