--------------------------- MODULE NetworkSharing ---------------------------
(***************************************************************************)
(* Sharing a self-hosted database on the network, and no longer sharing it *)
(* (Frame_Glom::attempt_toggle_shared), with the database users on whom it *)
(* depends.                                                                *)
(*                                                                         *)
(* A document that is not shared is opened with a default user and a well  *)
(* known password, without a question.  Before it is shared there must be  *)
(* another developer, and the default user is dropped or, if the server    *)
(* refuses that, disabled.  Before it stops being shared the default user  *)
(* is created again if the server does not list it.  Each step is an SQL   *)
(* statement that may fail, a failed question being taken for the answer   *)
(* that there is no such user; the flag is set, and saved unless that      *)
(* fails, before the server is stopped, reconfigured and started; and Glom *)
(* may be killed between any two of these.  Developers add, regroup and    *)
(* delete users in Dialog_UsersList.                                       *)
(***************************************************************************)
EXTENDS FiniteSets

CONSTANTS
  Users,      \* names of database users, other than
  Default,    \* the default developer user, and
  NoUser      \* an empty user name

ASSUME SharingAssumption ==
  /\ IsFiniteSet(Users)
  /\ Default \notin Users
  /\ NoUser \notin Users \cup {Default}

VARIABLES
  shared,       \* the document's network_shared flag; of the .glom file
                \* when no window shows the document
  saved,        \* the flag as the .glom file has it
  roles,        \* the users in pg_shadow
  logins,       \* those of them that may log in
  groups,       \* the members of each group of users
  window,       \* a window shows the document
  developer,    \* ... in developer mode
  user,         \* the user name that the connection pool connects with
  server,       \* "none"; "known" to the pool's backend; or "lost": it runs,
                \* but the backend that knew its port is gone
  open,         \* pg_hba.conf accepts connections from other computers
  step,         \* where attempt_toggle_shared() is
  newcomer,     \* the user whom add_user() has created but not yet grouped
  bereft,       \* history: Glom ended after sharing had taken the default
                \* user away and before the file said that the document is
                \* shared, or a developer deleted that user himself
  unlisted,     \* history: the last sharing could not read the list of users
                \* in which it looked for the default one
  unfinished    \* history: since the server was last started, Glom ended with
                \* the flag not yet saved, or pg_hba.conf not yet written

accounts == <<roles, logins, groups>>
session == <<window, developer, user, server, open>>
history == <<bereft, unlisted, unfinished>>
progress == <<step, newcomer, history>>
document == <<shared, saved>>
vars == <<document, accounts, session, progress>>

Roles == Users \cup {Default}

Developers == groups["developers"]

Steps ==
  {"idle", "grouping", "reowning", "dropping", "disabling", "giving up",
   "sharing", "restoring", "unsharing", "restarting"}

TypeOK ==
  /\ shared \in BOOLEAN /\ saved \in BOOLEAN
  /\ roles \in SUBSET Roles
  /\ logins \in SUBSET roles
  /\ groups \in [{"developers", "others"} -> SUBSET roles]
  /\ window \in BOOLEAN /\ developer \in BOOLEAN
  /\ user \in Roles \cup {NoUser}
  /\ server \in {"none", "known", "lost"}
  /\ open \in BOOLEAN
  /\ step \in Steps
  /\ step # "idle" => window
  /\ newcomer \in Users \cup {NoUser}
  /\ bereft \in BOOLEAN /\ unlisted \in BOOLEAN /\ unfinished \in BOOLEAN

(* The database was created by the default user or, if the document it was *)
(* made from is shared, by a user whose name and password were asked for.  *)
Init ==
  /\ shared \in BOOLEAN /\ saved = shared
  /\ \E creator \in IF shared THEN Users ELSE {Default} :
        /\ roles = {creator}
        /\ logins = {creator}
        /\ groups = [developers |-> {creator}, others |-> {}]
  /\ window = FALSE /\ developer = FALSE
  /\ user = NoUser
  /\ server = "none"
  /\ open = FALSE
  /\ step = "idle" /\ newcomer = NoUser
  /\ bereft = FALSE /\ unlisted = FALSE /\ unfinished = FALSE

(* SQL statements reach the server.                                        *)
Connected == window /\ server = "known" /\ user # NoUser

----------------------------------------------------------------------------
(* Opening and closing the document.                                       *)

(* startup() rewrites pg_hba.conf with its parameter network_shared, which *)
(* no caller passes.                                                       *)
StartUp ==
  /\ server' = "known"
  /\ open' = FALSE

(* AppWindow::open_document() and                                          *)
(* Frame_Glom::connection_request_password_and_attempt(): the user is      *)
(* asked for a name and a password only if the document is shared.         *)
Open(u) ==
  /\ ~window
  /\ server = "none"
  /\ u \in logins
  /\ ~shared => u = Default
  /\ window' = TRUE
  /\ developer' = FALSE
  /\ user' = u
  /\ StartUp
  /\ unfinished' = FALSE
  /\ UNCHANGED <<document, accounts, step, newcomer, bereft, unlisted>>

(* A server that still runs keeps its data directory: Glom waits for its   *)
(* own server at another port, cannot connect there, and stops the server  *)
(* of that data directory.                                                 *)
OpenBesideLostServer ==
  /\ ~window
  /\ server = "lost"
  /\ server' = "none"
  /\ open' = FALSE
  /\ unfinished' = FALSE
  /\ UNCHANGED <<document, accounts, window, developer, user, step, newcomer,
                 bereft, unlisted>>

(* The document is shared, but its file does not say so.                   *)
Unsaved == shared /\ ~saved

(* Only the file is left of a document.                                    *)
LeaveDocument ==
  /\ window
  /\ window' = FALSE
  /\ developer' = FALSE
  /\ shared' = saved
  /\ bereft' = (bereft \/ step = "sharing" \/ Unsaved)
  /\ unfinished' = (unfinished \/ step = "restarting" \/ Unsaved)
  /\ UNCHANGED <<saved, accounts, open, unlisted>>

(* AppWindow::on_document_close(): stopping the server may fail.           *)
Close ==
  /\ step = "idle"
  /\ LeaveDocument
  /\ server' \in IF server = "known" THEN {"none", "lost"} ELSE {server}
  /\ UNCHANGED <<user, step, newcomer>>

(* Glom is killed, or an exception leaves a signal handler; its server     *)
(* goes on running.                                                        *)
Kill ==
  /\ LeaveDocument
  /\ user' = NoUser
  /\ server' = IF server = "known" THEN "lost" ELSE server
  /\ step' = "idle" /\ newcomer' = NoUser

(* The server ends by itself.                                              *)
ServerEnds ==
  /\ server # "none"
  /\ server' = "none"
  /\ UNCHANGED <<document, accounts, window, developer, user, open, progress>>

(* Frame_Glom::attempt_change_usermode_to_developer()                      *)
ChangeToDeveloper ==
  /\ Connected /\ step = "idle"
  /\ ~developer
  /\ user \in Developers
  /\ developer' = TRUE
  /\ UNCHANGED <<document, accounts, window, user, server, open, progress>>

(* Document::set_modified(): another change of the document saves the flag *)
(* too.                                                                    *)
SaveAgain ==
  /\ window
  /\ developer
  /\ step \in {"idle", "restarting"}
  /\ saved' = shared
  /\ UNCHANGED <<shared, accounts, session, progress>>

----------------------------------------------------------------------------
(* DbUtils                                                                 *)

CreateUser(u) ==
  /\ Connected
  /\ u \notin roles
  /\ roles' = roles \cup {u}
  /\ logins' = logins \cup {u}

AddToGroup(u, g) ==
  /\ Connected
  /\ groups' = [groups EXCEPT ![g] = @ \cup {u}]

(* A user cannot drop himself, nor one who owns something.                 *)
DropUser(u) ==
  /\ Connected
  /\ u \in roles \ {user}
  /\ roles' = roles \ {u}
  /\ logins' = logins \ {u}
  /\ groups' = [g \in DOMAIN groups |-> groups[g] \ {u}]

----------------------------------------------------------------------------
(* Sharing                                                                 *)

Toggling(from) == step = from /\ UNCHANGED <<window, developer, open, server>>

(* No developer but the default user is found, as there is none or as the  *)
(* users and groups could not be read: add one.                            *)
AddInitialUser(u) ==
  /\ Toggling("idle")
  /\ developer
  /\ ~shared
  /\ CreateUser(u)
  /\ newcomer' = u
  /\ unlisted' = FALSE
  /\ step' = "grouping"
  /\ UNCHANGED <<document, groups, user, bereft, unfinished>>

(* The new user's name is used from now on.  Then the default user is      *)
(* looked for in the list of users, which is empty if it cannot be read.   *)
UseInitialUser ==
  /\ Toggling("grouping")
  /\ AddToGroup(newcomer, "developers")
  /\ user' = newcomer
  /\ newcomer' = NoUser
  /\ unlisted' \in BOOLEAN
  /\ step' = IF Default \in roles /\ ~unlisted' THEN "reowning" ELSE "sharing"
  /\ UNCHANGED <<document, roles, logins, bereft, unfinished>>

(* Mutant: add_user()'s result is not looked at.                           *)
InitialUserNotGroupedButUsed ==
  /\ Toggling("grouping")
  /\ user' = newcomer
  /\ newcomer' = NoUser
  /\ step' = "reowning"
  /\ UNCHANGED <<document, accounts, history>>

InitialUserNotGrouped ==
  /\ Toggling("grouping")
  /\ newcomer' = NoUser
  /\ step' = "idle"
  /\ UNCHANGED <<document, accounts, user, history>>

(* There is another developer: ask for a password and connect.  That       *)
(* installs a new backend, which does not know the server, and starts a    *)
(* second one for the data directory; and as the document is not yet       *)
(* shared nothing is asked, and no name is used.  So this always fails,    *)
(* with the server lost or, if pg_ctl was heard to say that one runs,      *)
(* stopped.                                                                *)
AskForDeveloper ==
  /\ Connected /\ step = "idle"
  /\ developer
  /\ ~shared
  /\ Developers \ {Default} # {}
  /\ \/ server' = "lost" /\ user' = user
     \/ server' = "none" /\ user' = NoUser
  /\ open' = FALSE
  /\ UNCHANGED <<document, accounts, window, developer, progress>>

(* set_database_owner_user()                                               *)
Reown ==
  /\ Toggling("reowning")
  /\ \/ Connected /\ step' = "dropping"
     \/ step' = "giving up"
  /\ UNCHANGED <<document, accounts, user, newcomer, history>>

DropDefault ==
  /\ Toggling("dropping")
  /\ DropUser(Default)
  /\ step' = "sharing"
  /\ UNCHANGED <<document, user, newcomer, history>>

DefaultNotDropped ==
  /\ Toggling("dropping")
  /\ step' = "disabling"
  /\ UNCHANGED <<document, accounts, user, newcomer, history>>

(* disable_user(): whether it leaves its groups is not looked at.  When    *)
(* the database could not be reowned the document does not become shared,  *)
(* though the default user is disabled.                                    *)
LeaveGroups ==
  groups' = [g \in DOMAIN groups |-> groups[g] \ {Default}]

DisableDefault ==
  /\ step \in {"disabling", "giving up"}
  /\ Toggling(step)
  /\ Connected
  /\ LeaveGroups \/ UNCHANGED groups
  /\ logins' = logins \ {Default}
  /\ step' = IF step = "disabling" THEN "sharing" ELSE "idle"
  /\ UNCHANGED <<document, roles, user, newcomer, history>>

(* Mutant: "disabled" keeps its initial value, true.                       *)
DefaultNotDisabledButShared ==
  /\ step \in {"disabling", "giving up"}
  /\ Toggling(step)
  /\ step' = "sharing"
  /\ UNCHANGED <<document, accounts, user, newcomer, history>>

DefaultNotDisabled ==
  /\ step \in {"disabling", "giving up"}
  /\ Toggling(step)
  /\ \/ Connected /\ LeaveGroups
     \/ UNCHANGED groups
  /\ step' = "idle"
  /\ UNCHANGED <<document, roles, logins, user, newcomer, history>>

----------------------------------------------------------------------------
(* No longer sharing                                                       *)

(* Mutant: the default user is thought to be there.                        *)
StopSharingAtOnce ==
  /\ Toggling("idle")
  /\ Connected
  /\ developer
  /\ shared
  /\ step' = "unsharing"
  /\ UNCHANGED <<document, accounts, user, newcomer, history>>

(* Privs::get_default_developer_user_exists() looks for the name only, not *)
(* for the right to log in.  If it could not read the users, the default   *)
(* one cannot be created, and nothing has changed.                         *)
StopSharing ==
  /\ Toggling("idle")
  /\ Connected
  /\ developer
  /\ shared
  /\ \/ /\ Default \in roles
        /\ step' = "unsharing"
        /\ UNCHANGED <<roles, logins>>
     \/ /\ CreateUser(Default)
        /\ step' = "restoring"
  /\ UNCHANGED <<document, groups, user, newcomer, history>>

GroupDefault ==
  /\ Toggling("restoring")
  /\ AddToGroup(Default, "developers")
  /\ step' = "unsharing"
  /\ UNCHANGED <<document, roles, logins, user, newcomer, history>>

DefaultNotGrouped ==
  /\ Toggling("restoring")
  /\ step' = "idle"
  /\ UNCHANGED <<document, accounts, user, newcomer, history>>

----------------------------------------------------------------------------
(* The document, then the server                                           *)

(* Document::set_network_shared() sets the flag and saves the document,    *)
(* which may fail.                                                         *)
SetFlag ==
  /\ step \in {"sharing", "unsharing"}
  /\ Toggling(step)
  /\ shared' = (step = "sharing")
  /\ saved' \in {saved, shared'}
  /\ step' = "restarting"
  /\ UNCHANGED <<accounts, user, newcomer, history>>

(* Mutant: pg_hba.conf is written before startup() only to share.         *)
RestartToShare ==
  /\ Connected /\ step = "restarting"
  /\ \/ StartUp
     \/ server' = "known" /\ open' = (open \/ shared)
     \/ server' = "none" /\ open' \in {open \/ shared, FALSE}
  /\ step' = "idle"
  /\ UNCHANGED <<document, accounts, window, developer, user, newcomer,
                 history>>

(* cleanup(), set_network_shared() and startup(), which does nothing if    *)
(* the server could not be stopped.  startup() may fail before or after it *)
(* has rewritten pg_hba.conf.                                              *)
Restart ==
  /\ Connected /\ step = "restarting"
  /\ \/ StartUp
     \/ server' = "known" /\ open' = shared
     \/ server' = "none" /\ open' \in {shared, FALSE}
  /\ step' = "idle"
  /\ UNCHANGED <<document, accounts, window, developer, user, newcomer,
                 history>>

----------------------------------------------------------------------------
(* Dialog_UsersList: the users of one group, of a choice of groups.        *)

InDialog ==
  /\ Connected /\ step = "idle"
  /\ developer
  /\ UNCHANGED <<document, session, step, newcomer, unlisted, unfinished>>

(* add_user(): the second statement may fail.                              *)
NewUser(u, g) ==
  /\ InDialog
  /\ CreateUser(u)
  /\ AddToGroup(u, g) \/ UNCHANGED groups
  /\ UNCHANGED bereft

(* Mutant: a name is typed, not chosen.                                    *)
AddAnyUser(u, g) ==
  /\ InDialog
  /\ AddToGroup(u, g)
  /\ UNCHANGED <<roles, logins, bereft>>

AddUser(u, g) ==
  /\ InDialog
  /\ u \in roles
  /\ AddToGroup(u, g)
  /\ UNCHANGED <<roles, logins, bereft>>

(* warn_about_empty_standard_group()                                       *)
MayShrink(g) == g = "developers" => Cardinality(groups[g]) # 1

RemoveUser(u, g) ==
  /\ InDialog
  /\ u \in groups[g]
  /\ MayShrink(g)
  /\ groups' = [groups EXCEPT ![g] = @ \ {u}]
  /\ UNCHANGED <<roles, logins, bereft>>

DeleteUser(u, g) ==
  /\ InDialog
  /\ u \in groups[g]
  /\ MayShrink(g)
  /\ DropUser(u)
  /\ bereft' = (bereft \/ u = Default)

----------------------------------------------------------------------------
Sharing ==
  \/ \E u \in Users : AddInitialUser(u)
  \/ UseInitialUser \/ InitialUserNotGrouped
  \/ AskForDeveloper
  \/ Reown
  \/ DropDefault \/ DefaultNotDropped
  \/ DisableDefault \/ DefaultNotDisabled
  \/ StopSharing
  \/ GroupDefault \/ DefaultNotGrouped
  \/ SetFlag
  \/ Restart

Dialog ==
  \E u \in Roles, g \in {"developers", "others"} :
     \/ u \in Users /\ NewUser(u, g)
     \/ AddUser(u, g)
     \/ RemoveUser(u, g)
     \/ DeleteUser(u, g)

Next ==
  \/ \E u \in Roles : Open(u)
  \/ OpenBesideLostServer
  \/ Close
  \/ Kill
  \/ ServerEnds
  \/ ChangeToDeveloper
  \/ SaveAgain
  \/ Sharing
  \/ Dialog

Spec == Init /\ [][Next]_vars

----------------------------------------------------------------------------
(* Somebody may log in and change the database's design.                   *)
SomeDeveloper == Developers \cap logins # {}

(* Whatever statement fails, and wherever Glom is killed, sharing and no   *)
(* longer sharing never take the last developer who may log in away: the   *)
(* default user is dropped or disabled only when another developer is in   *)
(* the group.  Only the dialog of users can do that.                       *)
SharingKeepsADeveloper ==
  [][SomeDeveloper => SomeDeveloper' \/ Dialog]_vars

(* A document never becomes shared while the default user, whose password  *)
(* is the same everywhere, may log in, whichever of the statements that    *)
(* drop or disable him fails.  The exception is that the list of users in  *)
(* which he was looked for could not be read.                              *)
SharedWithoutDefault ==
  [][~shared /\ shared' /\ window' =>
       Default \notin logins' \/ unlisted']_vars

(* A document that is not shared is opened as the default user.  The       *)
(* server has him, whatever statement fails and wherever Glom is killed,   *)
(* unless a developer deleted him himself or Glom ended after sharing took *)
(* him away and before the file said that the document is shared.  (He may *)
(* have been disabled, which nothing ever undoes: then the document can    *)
(* never be opened again.)                                                 *)
UnsharedHasDefault ==
  step # "sharing" /\ ~shared /\ ~bereft => Default \in roles

(* The flag and the configuration are written one after the other, and the *)
(* server may be neither stopped nor started in between.  pg_hba.conf lets *)
(* other computers in while the document says that it is not shared only   *)
(* until the server is restarted or, if Glom ended before that or without  *)
(* the flag saved, until the document is opened again.                     *)
OpenOnlyWhileShared ==
  open /\ ~shared => step = "restarting" \/ (unfinished /\ ~window)

(* "The developer group must contain at least one user" says the dialog of *)
(* users, which counts the users of the group it shows.  The group can     *)
(* still become empty, but only when its last user is deleted from the     *)
(* list of another group; no step of sharing empties it.                   *)
EmptiedFromAnotherList ==
  [][Developers # {} =>
       \/ Developers' # {}
       \/ \E u \in Developers : DeleteUser(u, "others")]_vars
=============================================================================
