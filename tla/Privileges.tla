----------------------------- MODULE Privileges -----------------------------
(***************************************************************************)
(* What groups of users may do with the tables of a document.              *)
(*                                                                         *)
(* A developer grants and revokes on the database server, in               *)
(* Dialog_GroupsList; the document keeps a copy of what a group may do,    *)
(* made when the group is selected in the dialog, from which the groups    *)
(* are made again when a database is created from an example.  Somebody    *)
(* who may create records needs the autoincrements table for their keys,   *)
(* so that Privs::set_table_privileges() grants that too.  The user of     *)
(* another Glom process reads his privileges from the server, group by     *)
(* group and while they change, and keeps them for 30 seconds.             *)
(*                                                                         *)
(* Any SQL statement may fail.  What is granted on the autoincrements      *)
(* table is always to view and to edit it.  The group of developers may do *)
(* everything always, and is left out; NetworkSharing has its members.     *)
(***************************************************************************)
EXTENDS FiniteSets

CONSTANTS
  Groups,   \* names of groups, other than the developers'
  Tables,   \* names of tables, other than the system's
  Rights,   \* the privileges that are told apart
  None

ASSUME PrivilegesAssumption ==
  /\ {"view", "create"} \subseteq Rights
  /\ Rights \subseteq {"view", "edit", "create", "delete"}
  /\ None \notin Groups \cup Tables

(* What add_group() gives to a new group.                                  *)
Default == {"view", "edit"} \cap Rights

VARIABLES
  tables,    \* the tables of the document and of the database
  groups,    \* the groups on the server
  granted,   \* what each group may do with each table
  keepers,   \* the groups that may view and edit the autoincrements table
  spoiled,   \* history: where a group was granted "create" without that, by
             \* hand or because the second GRANT failed
  ever,      \* history: what a group with the name could do at some time with
             \* a table with the name
  saved,     \* the document's copy: the rights of each group, or None
  shown,     \* the group selected in Dialog_GroupsList; None for the group of
             \* developers, or if the dialog is closed
  member,    \* the groups of the current user of the other process
  cache,     \* m_privileges_cache of that process, None for no entry
  timers,    \* the tables of m_map_cache_timeouts that are still to run
  reading    \* get_current_privs(): the table, the groups whose members it has
             \* still to ask for, the user's groups whose rights it has still to
             \* ask for, and the rights so far; or None

server == <<groups, granted, keepers, spoiled, ever>>
process == <<cache, timers, reading>>
vars == <<tables, server, saved, shown, member, process>>

NoRights == [t \in Tables |-> {}]
PerTable == [Tables -> SUBSET Rights]
Reading ==
  [table : Tables, ask : SUBSET Groups, mine : SUBSET Groups, rights : SUBSET Rights]

TypeOK ==
  /\ tables \subseteq Tables
  /\ groups \subseteq Groups
  /\ granted \in [Groups -> PerTable]
  /\ \A g \in Groups, t \in Tables :
       granted[g][t] # {} => g \in groups /\ t \in tables
  /\ keepers \subseteq groups
  /\ spoiled \subseteq Groups \X Tables
  /\ ever \in [Groups -> PerTable]
  /\ saved \in [Groups -> PerTable \cup {None}]
  /\ shown \in groups \cup {None}
  /\ member \subseteq groups
  /\ cache \in [Tables -> (SUBSET Rights) \cup {None}]
  /\ timers \subseteq Tables
  /\ reading \in Reading \cup {None}

(* A new document, of which no group but the developers' exists.           *)
Init ==
  /\ tables \in SUBSET Tables
  /\ groups = {}
  /\ granted = [g \in Groups |-> NoRights]
  /\ keepers = {} /\ spoiled = {}
  /\ ever = [g \in Groups |-> NoRights]
  /\ saved = [g \in Groups |-> None]
  /\ shown = None
  /\ member = {}
  /\ cache = [t \in Tables |-> None] /\ timers = {}
  /\ reading = None

----------------------------------------------------------------------------
(* Dialog_GroupsList                                                       *)

(* The server has these privileges from now on.                            *)
Grants(rights) ==
  /\ granted' = rights
  /\ ever' = [g \in Groups |-> [t \in Tables |-> ever[g][t] \cup rights[g][t]]]

(* fill_table_list(): the dialog shows, and the document gets, what the    *)
(* server says of each table of the document, or nothing for a table for   *)
(* which the query fails.                                                  *)
Select(g) ==
  /\ shown' = g
  /\ IF g = None
     THEN UNCHANGED saved
     ELSE \E failed \in SUBSET tables :
            saved' = [saved EXCEPT ![g] =
              [t \in Tables |-> IF t \in failed THEN {} ELSE granted'[g][t]]]

(* fill_group_list() selects the first group, in the order of the server.  *)
SelectFirst == \E g \in groups' \cup {None} : Select(g)

(* The dialog is opened, or another group is selected in it.               *)
SelectGroup ==
  /\ UNCHANGED <<tables, server, member, process>>
  /\ SelectFirst

CloseDialog ==
  /\ shown # None
  /\ shown' = None
  /\ UNCHANGED <<tables, server, saved, member, process>>

(* DbUtils::add_group(): the group gets the default privileges on the      *)
(* tables that are not the system's, until a GRANT fails.                  *)
NewGroup(g) ==
  /\ g \notin groups
  /\ groups' = groups \cup {g}
  /\ \E done \in SUBSET tables :
       Grants([granted EXCEPT ![g] =
                 [t \in Tables |-> IF t \in done THEN Default ELSE {}]])
  /\ SelectFirst
  /\ UNCHANGED <<tables, keepers, spoiled, member, process>>

(* Mutant: the dialog still shows the group.                               *)
DeleteShown ==
  /\ shown # None
  /\ granted[shown] = NoRights /\ shown \notin keepers
  /\ groups' = groups \ {shown}
  /\ member' = member \ {shown}
  /\ UNCHANGED <<tables, granted, keepers, spoiled, ever, saved, shown, process>>

(* on_button_group_delete(): the server refuses to drop a group to which   *)
(* something is granted.  The document is not told.                        *)
DeleteGroup ==
  /\ shown # None
  /\ IF granted[shown] = NoRights /\ shown \notin keepers
     THEN /\ groups' \in {groups, groups \ {shown}}
          /\ member' = member \cap groups'
     ELSE UNCHANGED <<groups, member>>
  /\ UNCHANGED <<tables, granted, keepers, spoiled, ever, process>>
  /\ SelectFirst

(* set_table_privilege() for the box of one right; the document's copy     *)
(* stays as it is, and so does the autoincrements table.                   *)
Toggle(t, rights) ==
  /\ Grants([granted EXCEPT ![shown][t] = rights])
  /\ spoiled' = IF "create" \notin rights THEN spoiled \ {<<shown, t>>}
                ELSE IF "create" \in granted[shown][t] THEN spoiled
                ELSE spoiled \cup {<<shown, t>>}
  /\ UNCHANGED <<tables, groups, keepers, saved, shown, member, process>>

(* on_treeview_tables_toggled_edit(), ..._toggled_create(), and            *)
(* ..._toggled_view() when it grants.                                      *)
Grant(t, r) ==
  /\ shown # None /\ t \in tables
  /\ r \notin granted[shown][t]
  /\ Toggle(t, granted[shown][t] \cup {r})

Revoke(t, r) ==
  /\ shown # None /\ t \in tables
  /\ r \in granted[shown][t] /\ r # "view"
  /\ Toggle(t, granted[shown][t] \ {r})

(* on_treeview_tables_toggled_view(): a group that may not view may not do *)
(* anything else either; each right is revoked by a statement of its own.  *)
RevokeView(t) ==
  /\ shown # None /\ t \in tables
  /\ "view" \in granted[shown][t]
  /\ \E left \in SUBSET granted[shown][t] : Toggle(t, left)

(* Dialog_UsersList, opened from the list of groups, which is filled again *)
(* afterwards; or the process connects as another user.                    *)
ChangeMember ==
  /\ \E gs \in SUBSET groups : gs # member /\ member' = gs
  /\ UNCHANGED <<tables, server, process>>
  /\ SelectFirst

----------------------------------------------------------------------------
(* Tables                                                                  *)

(* create_table() grants nothing to groups.                                *)
AddTable(t) ==
  /\ shown = None
  /\ t \notin tables
  /\ tables' = tables \cup {t}
  /\ UNCHANGED <<server, saved, shown, member, process>>

(* DROP TABLE; Document::remove_table() leaves the groups alone.           *)
RemoveTable(t) ==
  /\ shown = None
  /\ t \in tables
  /\ tables' = tables \ {t}
  /\ granted' = [g \in Groups |-> [granted[g] EXCEPT ![t] = {}]]
  /\ spoiled' = spoiled \ (Groups \X {t})
  /\ UNCHANGED <<groups, keepers, ever, saved, shown, member, process>>

----------------------------------------------------------------------------
(* A database made from the document                                       *)

InDocument == {g \in Groups : saved[g] # None}
Copies == {p \in InDocument \X tables : saved[p[1]][p[2]] # {}}
Create(p) == "create" \in saved[p[1]][p[2]]

(* A database in a new cluster, where each group may do what add_group()   *)
(* gave it with the tables that were there, and what                       *)
(* set_table_privileges_groups_from_document() grants after that.  GRANT   *)
(* without a privilege is an error, nothing is revoked; a failure is       *)
(* ignored, but the key table is not granted after it.  The keys are       *)
(* granted on a table that add_standard_tables() must have made before.    *)
Recreated(before, keytable) ==
  \E done \in SUBSET Copies :
    \E whole \in SUBSET {p \in done : keytable /\ Create(p)} :
      /\ Grants([g \in Groups |-> [t \in Tables |->
           (IF g \in InDocument /\ t \in before THEN Default ELSE {})
             \cup (IF <<g, t>> \in done THEN saved[g][t] ELSE {})]])
      /\ keepers' = {p[1] : p \in whole}
      /\ spoiled' = IF keytable THEN {p \in done : Create(p)} \ whole ELSE {}
      /\ groups' = InDocument
      /\ shown' = None
      /\ member' = {}
      /\ cache' = [t \in Tables |-> None] /\ timers' = {}
      /\ reading' = None
      /\ UNCHANGED <<tables, saved>>

(* Mutant: the tables come first.                                          *)
TablesFirst == shown = None /\ Recreated(tables, TRUE)

(* Mutant: the autoincrements table comes after the privileges.            *)
KeysLast == shown = None /\ Recreated({}, FALSE)

(* AppWindow::recreate_database_from_example(): the groups come before the *)
(* tables of the document.                                                 *)
Recreate == shown = None /\ Recreated({}, TRUE)

(* DbUtils::recreate_database_from_document(), in glom_create_from_example *)
(* only: the tables come before the groups.                                *)
RecreateByTool == shown = None /\ Recreated(tables, TRUE)

----------------------------------------------------------------------------
(* The privileges of the current user                                      *)

(* get_current_privs() finds nothing in the cache and asks for the groups. *)
BeginReading(t) ==
  /\ reading = None
  /\ t \in tables
  /\ cache[t] = None
  /\ \E gs \in {{}, groups} :
       reading' = [table |-> t, ask |-> gs, mine |-> {}, rights |-> {}]
  /\ UNCHANGED <<tables, server, saved, shown, member, cache, timers>>

(* get_user_is_in_group(): of a group that is not there any more, or when  *)
(* a query fails, there are no members.                                    *)
AskGroup(g) ==
  /\ reading # None
  /\ g \in reading.ask
  /\ \E found \in {{}, {g} \cap member} :
       reading' = [reading EXCEPT !.ask = @ \ {g}, !.mine = @ \cup found]
  /\ UNCHANGED <<tables, server, saved, shown, member, cache, timers>>

(* get_table_privileges(), whose query fails if the group or the table is  *)
(* not there any more.                                                     *)
ReadGroup(g) ==
  /\ reading # None
  /\ reading.ask = {}
  /\ g \in reading.mine
  /\ \E found \in {{}, granted[g][reading.table]} :
       reading' = [reading EXCEPT !.mine = @ \ {g}, !.rights = @ \cup found]
  /\ UNCHANGED <<tables, server, saved, shown, member, cache, timers>>

(* An old timeout, which may have run, is replaced.                        *)
Remember ==
  /\ reading # None
  /\ reading.ask = {} /\ reading.mine = {}
  /\ cache' = [cache EXCEPT ![reading.table] = reading.rights]
  /\ timers' = timers \cup {reading.table}
  /\ reading' = None
  /\ UNCHANGED <<tables, server, saved, shown, member>>

(* Mutant: the timeout forgets itself but not the entry.                   *)
ForgetTimeout(t) ==
  /\ reading = None
  /\ t \in timers
  /\ timers' = timers \ {t}
  /\ UNCHANGED <<tables, server, saved, shown, member, cache, reading>>

(* on_privs_privileges_cache_timeout(), in the main loop.                  *)
CacheTimeout(t) ==
  /\ reading = None
  /\ t \in timers
  /\ cache' = [cache EXCEPT ![t] = None]
  /\ timers' = timers \ {t}
  /\ UNCHANGED <<tables, server, saved, shown, member, reading>>

----------------------------------------------------------------------------
Next ==
  \/ SelectGroup \/ CloseDialog \/ DeleteGroup \/ ChangeMember
  \/ \E g \in Groups : NewGroup(g) \/ AskGroup(g) \/ ReadGroup(g)
  \/ \E t \in Tables, r \in Rights : Grant(t, r) \/ Revoke(t, r)
  \/ \E t \in Tables :
       \/ RevokeView(t) \/ AddTable(t) \/ RemoveTable(t)
       \/ BeginReading(t) \/ CacheTimeout(t)
  \/ Recreate \/ RecreateByTool
  \/ Remember

(* get_current_privs() runs to its end, and the main loop, whenever it     *)
(* runs, dispatches the timeouts that are due.                             *)
Fairness ==
  /\ WF_vars(Remember \/ \E g \in Groups : AskGroup(g) \/ ReadGroup(g))
  /\ \A t \in Tables : SF_vars(CacheTimeout(t))

Spec == Init /\ [][Next]_vars /\ Fairness

----------------------------------------------------------------------------
(* Any user who may create records may fetch their keys, as the message of *)
(* auto_increment_insert_first_if_necessary() says, but for a group that   *)
(* was given the right by hand, in the dialog, or while a GRANT failed:    *)
(* through removals, deletions and databases made from the document.       *)
CreatorsMayFetchKeys ==
  \A g \in groups, t \in tables :
    "create" \in granted[g][t] /\ <<g, t>> \notin spoiled => g \in keepers

(* A database that Glom makes from an example gives no group a right that  *)
(* a group with its name never had on a table with the name of the table,  *)
(* although new groups get default privileges on the tables that exist.    *)
RecreatingInventsNoRights ==
  [][Recreate => \A g \in Groups, t \in Tables : granted'[g][t] \subseteq ever[g][t]]_vars

Held(t) == UNION {granted[g][t] : g \in member}

Believed(t) == IF cache[t] = None THEN {} ELSE cache[t]

(* A right that the user does not have is not believed in for ever, however*)
(* the reading of privileges and the changes of groups, members and grants *)
(* interleave, and whichever queries fail.  It may be believed in again: a *)
(* group that the user has left since his groups were asked for may have   *)
(* been granted the right before it is asked for its own.                  *)
RevokedIsNoticed ==
  \A t \in Tables, r \in Rights :
    r \in Believed(t) ~> r \in Held(t) \/ r \notin Believed(t)
=============================================================================
