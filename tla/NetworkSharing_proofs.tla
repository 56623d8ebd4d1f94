------------------------ MODULE NetworkSharing_proofs ------------------------
(***************************************************************************)
(* For any set of users: the types of NetworkSharing, its two invariants   *)
(* and its action properties.  All of them follow from the invariant Inv,  *)
(* which says what each step of attempt_toggle_shared() may rely on.       *)
(***************************************************************************)
EXTENDS NetworkSharing, FiniteSetTheorems, TLAPS

(* Steps at which the default user is being replaced by another.           *)
Replacing == {"reowning", "dropping", "disabling", "giving up"}

(* What attempt_toggle_shared() has established when it reaches a step.    *)
StepsRelyOn ==
  /\ step = "grouping" => newcomer \in Users \cap logins
  /\ step \in Replacing => user \in Users \cap logins \cap Developers
  /\ step = "sharing" => Default \notin logins \/ unlisted
  /\ step \in {"restoring", "unsharing"} => shared /\ Default \in roles

Inv ==
  /\ TypeOK
  /\ StepsRelyOn
  /\ UnsharedHasDefault
  /\ OpenOnlyWhileShared

USE SharingAssumption

LEMMA InitInv == Init => Inv
<1> SUFFICES ASSUME Init PROVE Inv
  OBVIOUS
<1>1. PICK creator \in IF shared THEN Users ELSE {Default} :
         /\ roles = {creator}
         /\ logins = {creator}
         /\ groups = [developers |-> {creator}, others |-> {}]
  BY DEF Init
<1>2. groups \in [{"developers", "others"} -> SUBSET roles]
  BY <1>1
<1>3. TypeOK
  BY <1>1, <1>2 DEF Init, TypeOK, Steps, Roles
<1> QED
  BY <1>1, <1>3 DEF Init, Inv, StepsRelyOn, Replacing, UnsharedHasDefault,
     OpenOnlyWhileShared

(* Groups keep their type as users join, leave and are dropped.            *)
LEMMA JoiningTyped ==
  ASSUME TypeOK, NEW u, NEW g \in {"developers", "others"},
         NEW R, roles \subseteq R, u \in R
  PROVE  [groups EXCEPT ![g] = @ \cup {u}]
           \in [{"developers", "others"} -> SUBSET R]
  BY DEF TypeOK

LEMMA LeavingTyped ==
  ASSUME TypeOK, NEW u, NEW g \in {"developers", "others"}
  PROVE  [groups EXCEPT ![g] = @ \ {u}]
           \in [{"developers", "others"} -> SUBSET roles]
  BY DEF TypeOK

LEMMA DroppingTyped ==
  ASSUME TypeOK, NEW u
  PROVE  [h \in DOMAIN groups |-> groups[h] \ {u}]
           \in [{"developers", "others"} -> SUBSET (roles \ {u})]
  BY DEF TypeOK

(* Every step keeps the invariant: one step of the proof for each action.  *)
LEMMA StepInv == Inv /\ [Next]_vars => Inv'
<1> SUFFICES ASSUME Inv, [Next]_vars PROVE Inv'
  OBVIOUS
<1> USE DEF Inv, TypeOK, StepsRelyOn, UnsharedHasDefault, Unsaved,
    OpenOnlyWhileShared, Replacing, Developers, accounts, session, progress, history, document
<1>typed. TypeOK
  OBVIOUS
<1>1. CASE OpenBesideLostServer
  BY <1>1 DEF Roles, Steps, OpenBesideLostServer
<1>2. CASE Close
  BY <1>2 DEF Roles, Steps, Close, LeaveDocument
<1>3. CASE Kill
  BY <1>3 DEF Roles, Steps, Kill, LeaveDocument
<1>4. CASE ServerEnds
  <2>1. TypeOK'
    <3>1. UNCHANGED <<document, accounts, window, developer, user, open,
                      step, newcomer, bereft, unlisted, unfinished>>
      BY <1>4 DEF ServerEnds
    <3>2. server' \in {"none", "known", "lost"}
      BY <1>4 DEF ServerEnds
    <3> QED
      BY <3>1, <3>2
  <2>2. StepsRelyOn'
    BY <1>4 DEF Steps, ServerEnds
  <2>3. UnsharedHasDefault'
    BY <1>4 DEF Steps, ServerEnds
  <2>4. OpenOnlyWhileShared'
    BY <1>4 DEF Steps, ServerEnds
  <2> QED
    BY <2>1, <2>2, <2>3, <2>4
<1>5. CASE ChangeToDeveloper
  BY <1>5 DEF Roles, Steps, ChangeToDeveloper, Connected
<1>6. CASE InitialUserNotGrouped
  BY <1>6 DEF Roles, Steps, InitialUserNotGrouped, Toggling
<1>7. CASE AskForDeveloper
  BY <1>7 DEF Roles, Steps, AskForDeveloper, Connected
<1>8. CASE Reown
  <2>1. TypeOK'
    BY <1>8 DEF Steps, Reown, Toggling
  <2>2. StepsRelyOn'
    BY <1>8 DEF Steps, Reown, Toggling
  <2>3. UnsharedHasDefault'
    BY <1>8 DEF Steps, Reown, Toggling
  <2>4. OpenOnlyWhileShared'
    BY <1>8 DEF Steps, Reown, Toggling
  <2> QED
    BY <2>1, <2>2, <2>3, <2>4
<1>9. CASE DefaultNotDropped
  BY <1>9 DEF Steps, DefaultNotDropped, Toggling
<1>10. CASE StopSharing
  BY <1>10 DEF Roles, Steps, StopSharing, Toggling, CreateUser, Connected
<1>11. CASE DefaultNotGrouped
  BY <1>11 DEF Roles, Steps, DefaultNotGrouped, Toggling
<1>12. CASE SetFlag
  <2>1. TypeOK'
    <3>1. UNCHANGED <<accounts, window, developer, user, server, open,
                      newcomer, bereft, unlisted, unfinished>>
      BY <1>12 DEF SetFlag, Toggling
    <3>2. shared' \in BOOLEAN /\ saved' \in BOOLEAN
      BY <1>12 DEF SetFlag
    <3>3. step' \in Steps /\ step # "idle"
      BY <1>12 DEF SetFlag, Steps
    <3> QED
      BY <3>1, <3>2, <3>3
  <2>2. StepsRelyOn'
    BY <1>12 DEF Roles, Steps, SetFlag, Toggling
  <2>3. UnsharedHasDefault'
    BY <1>12 DEF Roles, Steps, SetFlag, Toggling
  <2>4. OpenOnlyWhileShared'
    BY <1>12 DEF Roles, Steps, SetFlag, Toggling
  <2> QED
    BY <2>1, <2>2, <2>3, <2>4
<1>13. ASSUME NEW u \in Roles, Open(u) PROVE Inv'
  BY <1>13 DEF Roles, Steps, Open, StartUp
<1>14. ASSUME NEW u \in Users, AddInitialUser(u) PROVE Inv'
  <2>1. /\ roles' = roles \cup {u} /\ logins' = logins \cup {u}
        /\ groups' = groups /\ user' = user /\ shared' = shared
        /\ newcomer' = u /\ step' = "grouping" /\ window
        /\ bereft' = bereft /\ unlisted' = FALSE /\ unfinished' = unfinished
        /\ saved' = saved /\ ~shared /\ step = "idle"
        /\ UNCHANGED <<window, developer, open, server>>
    BY <1>14 DEF AddInitialUser, Toggling, CreateUser, Connected
  <2>2. groups' \in [{"developers", "others"} -> SUBSET roles']
    BY <2>1
  <2> QED
    BY <2>1, <2>2 DEF Roles, Steps
<1>15. CASE UseInitialUser
  <2>1. groups' \in [{"developers", "others"} -> SUBSET roles]
    BY <1>15, <1>typed, JoiningTyped
    DEF UseInitialUser, Toggling, AddToGroup, Connected
  <2>2. newcomer \in Developers'
    BY <1>15 DEF UseInitialUser, AddToGroup, Developers
  <2> QED
    BY <1>15, <2>1, <2>2
    DEF Roles, Steps, UseInitialUser, Toggling, AddToGroup, Connected
<1>16. CASE DropDefault
  <2>1. groups' \in [{"developers", "others"} -> SUBSET roles']
    BY <1>16, <1>typed, DroppingTyped DEF DropDefault, DropUser
  <2> QED
    BY <1>16, <2>1 DEF Roles, Steps, DropDefault, Toggling, DropUser
<1>17. CASE DisableDefault
  <2>1. groups' \in [{"developers", "others"} -> SUBSET roles]
    BY <1>17, <1>typed, DroppingTyped DEF DisableDefault, LeaveGroups
  <2>2. TypeOK'
    BY <1>17, <2>1 DEF Roles, Steps, DisableDefault, Toggling
  <2>3. StepsRelyOn'
    BY <1>17 DEF DisableDefault, Toggling
  <2>4. UnsharedHasDefault'
    BY <1>17 DEF DisableDefault, Toggling
  <2>5. OpenOnlyWhileShared'
    BY <1>17 DEF DisableDefault, Toggling
  <2> QED
    BY <2>2, <2>3, <2>4, <2>5
<1>18. CASE DefaultNotDisabled
  <2>1. groups' \in [{"developers", "others"} -> SUBSET roles]
    BY <1>18, <1>typed, DroppingTyped DEF DefaultNotDisabled, LeaveGroups
  <2> QED
    BY <1>18, <2>1 DEF Roles, Steps, DefaultNotDisabled, Toggling
<1>19. CASE GroupDefault
  <2>1. groups' \in [{"developers", "others"} -> SUBSET roles]
    BY <1>19, <1>typed, JoiningTyped DEF GroupDefault, Toggling, AddToGroup
  <2> QED
    BY <1>19, <2>1 DEF Roles, Steps, GroupDefault, Toggling
<1>20. CASE Restart
  <2>1. UNCHANGED <<document, accounts, window, developer, user, newcomer,
                    history>>
    BY <1>20 DEF Restart
  <2>2. step = "restarting" /\ step' = "idle" /\ (open' = shared \/ open' = FALSE)
    BY <1>20 DEF Restart, StartUp
  <2>3. server' \in {"none", "known", "lost"}
    BY <1>20 DEF Restart, StartUp
  <2>4. TypeOK'
    BY <2>1, <2>2, <2>3 DEF Steps
  <2>5. StepsRelyOn'
    BY <2>1, <2>2
  <2>6. UnsharedHasDefault'
    BY <2>1, <2>2
  <2>7. OpenOnlyWhileShared'
    BY <2>1, <2>2
  <2> QED
    BY <2>4, <2>5, <2>6, <2>7
<1>21. CASE Dialog
  <2>1. PICK u \in Roles, g \in {"developers", "others"} :
           \/ u \in Users /\ NewUser(u, g)
           \/ AddUser(u, g) \/ RemoveUser(u, g) \/ DeleteUser(u, g)
    BY <1>21 DEF Dialog
  <2>2. CASE u \in Users /\ NewUser(u, g)
    <3>1. roles' = roles \cup {u}
      BY <2>2 DEF NewUser, CreateUser
    <3>2. ASSUME AddToGroup(u, g)
          PROVE  groups' \in [{"developers", "others"} -> SUBSET roles']
      <4>1. roles \subseteq roles' /\ u \in roles'
        BY <3>1
      <4>2. [groups EXCEPT ![g] = @ \cup {u}]
              \in [{"developers", "others"} -> SUBSET roles']
        BY <4>1, <1>typed, JoiningTyped
      <4> QED
        BY <3>2, <4>2 DEF AddToGroup
    <3>3. ASSUME UNCHANGED groups
          PROVE  groups' \in [{"developers", "others"} -> SUBSET roles']
      BY <3>1, <3>3
    <3>4. groups' \in [{"developers", "others"} -> SUBSET roles']
      BY <2>2, <3>2, <3>3 DEF NewUser
    <3> QED
      BY <2>2, <3>4 DEF NewUser, InDialog, CreateUser, Connected, Roles
  <2>3. CASE AddUser(u, g)
    <3>1. groups' \in [{"developers", "others"} -> SUBSET roles]
      BY <2>3, <1>typed, JoiningTyped DEF AddUser, AddToGroup
    <3> QED
      BY <2>3, <3>1 DEF AddUser, InDialog, Connected
  <2>4. CASE RemoveUser(u, g)
    <3>1. groups' \in [{"developers", "others"} -> SUBSET roles]
      BY <2>4, <1>typed, LeavingTyped DEF RemoveUser
    <3> QED
      BY <2>4, <3>1 DEF RemoveUser, InDialog, Connected
  <2>5. CASE DeleteUser(u, g)
    <3>1. groups' \in [{"developers", "others"} -> SUBSET roles']
      BY <2>5, <1>typed, DroppingTyped DEF DeleteUser, DropUser
    <3> QED
      BY <2>5, <3>1 DEF DeleteUser, DropUser, InDialog, Connected
  <2> QED
    BY <2>1, <2>2, <2>3, <2>4, <2>5
<1>22. CASE SaveAgain
  BY <1>22 DEF Roles, Steps, SaveAgain
<1>23. CASE UNCHANGED vars
  <2>1. TypeOK'
    BY <1>23 DEF vars
  <2>2. StepsRelyOn'
    BY <1>23 DEF vars
  <2>3. UnsharedHasDefault'
    BY <1>23 DEF vars
  <2>4. OpenOnlyWhileShared'
    BY <1>23 DEF vars
  <2> QED
    BY <2>1, <2>2, <2>3, <2>4
<1> QED
  BY <1>1, <1>2, <1>3, <1>4, <1>5, <1>6, <1>7, <1>8, <1>9, <1>10, <1>11,
     <1>12, <1>13, <1>14, <1>15, <1>16, <1>17, <1>18, <1>19, <1>20, <1>21,
     <1>22, <1>23 DEF Next, Sharing

(* Inv holds throughout.                                                   *)
LEMMA Invariance == Spec => []Inv
  BY InitInv, StepInv, PTL DEF Spec

(* The variables keep their types: in particular nobody may log in, or is  *)
(* in a group, whom the server does not have.                              *)
THEOREM TypeCorrect == Spec => []TypeOK
<1>1. Inv => TypeOK
  BY DEF Inv
<1> QED
  BY <1>1, Invariance, PTL

(* A document that is not shared has its default user, unless he was       *)
(* deleted by hand or Glom ended when sharing had taken him away and the   *)
(* file did not yet say that the document is shared.                       *)
THEOREM DefaultIsRestored == Spec => []UnsharedHasDefault
<1>1. Inv => UnsharedHasDefault
  BY DEF Inv
<1> QED
  BY <1>1, Invariance, PTL

(* pg_hba.conf lets other computers in while the document is not shared    *)
(* only until the server is restarted or, if Glom ended too early for      *)
(* that, until the document is opened again.                               *)
THEOREM StaysClosed == Spec => []OpenOnlyWhileShared
<1>1. Inv => OpenOnlyWhileShared
  BY DEF Inv
<1> QED
  BY <1>1, Invariance, PTL

(* A document becomes shared only once the default user cannot log in or   *)
(* the list of users could not be read.                                    *)
THEOREM SharesWithoutDefault == Spec => SharedWithoutDefault
<1>1. Inv /\ [Next]_vars =>
        [~shared /\ shared' /\ window' =>
           Default \notin logins' \/ unlisted']_vars
  <2> SUFFICES ASSUME Inv, Next, ~shared, shared', window'
               PROVE  Default \notin logins' \/ unlisted'
    OBVIOUS
  <2>1. SetFlag
    <3>1. ASSUME NEW u \in Roles, Open(u) PROVE FALSE
      BY <3>1 DEF Open, document
    <3>2. ASSUME NEW u \in Users, AddInitialUser(u) PROVE FALSE
      BY <3>2 DEF AddInitialUser, document
    <3>3. ~Dialog
      BY DEF document, Dialog, NewUser, AddUser, RemoveUser, DeleteUser, InDialog
    <3> QED
      BY <3>1, <3>2, <3>3 DEF document, Next, Sharing, OpenBesideLostServer,
         Close, Kill, LeaveDocument, SaveAgain, ServerEnds, ChangeToDeveloper, UseInitialUser, InitialUserNotGrouped,
         AskForDeveloper, Reown, DropDefault, DefaultNotDropped,
         DisableDefault, DefaultNotDisabled, StopSharing, GroupDefault,
         DefaultNotGrouped, Restart
  <2> QED
    BY <2>1 DEF SetFlag, Inv, StepsRelyOn, accounts, history
<1> QED
  BY <1>1, Invariance, PTL DEF Spec, SharedWithoutDefault

(* Only the dialog of users can take away the last developer who may log   *)
(* in.                                                                     *)
THEOREM KeepsADeveloper == Spec => SharingKeepsADeveloper
<1>1. Inv /\ [Next]_vars => [SomeDeveloper => SomeDeveloper' \/ Dialog]_vars
  <2> SUFFICES ASSUME Inv, Next, SomeDeveloper, ~Dialog
               PROVE  SomeDeveloper'
    OBVIOUS
  <2> USE DEF Inv, TypeOK, SomeDeveloper, Developers, accounts
  <2>1. CASE UNCHANGED accounts
    BY <2>1
  <2>2. ASSUME NEW u \in Users, AddInitialUser(u) PROVE SomeDeveloper'
    BY <2>2 DEF AddInitialUser, CreateUser
  <2>3. CASE UseInitialUser
    BY <2>3 DEF UseInitialUser, AddToGroup, StepsRelyOn, Toggling
  <2>4. CASE DropDefault
    BY <2>4 DEF DropDefault, DropUser, StepsRelyOn, Replacing, Toggling
  <2>5. CASE DisableDefault
    BY <2>5 DEF DisableDefault, LeaveGroups, StepsRelyOn, Replacing, Toggling
  <2>6. CASE DefaultNotDisabled
    BY <2>6 DEF DefaultNotDisabled, LeaveGroups, StepsRelyOn, Replacing,
       Toggling
  <2>7. CASE StopSharing
    BY <2>7 DEF StopSharing, CreateUser
  <2>8. CASE GroupDefault
    BY <2>8 DEF GroupDefault, AddToGroup
  <2>9. ASSUME NEW u \in Roles, Open(u) PROVE UNCHANGED accounts
    BY <2>9 DEF Open
  <2> QED
    BY <2>1, <2>2, <2>3, <2>4, <2>5, <2>6, <2>7, <2>8, <2>9
    DEF Next, Sharing, OpenBesideLostServer, Close, Kill, LeaveDocument,
       SaveAgain, ServerEnds, ChangeToDeveloper, InitialUserNotGrouped, AskForDeveloper,
       Reown, DefaultNotDropped, DefaultNotGrouped, SetFlag, Restart
<1> QED
  BY <1>1, Invariance, PTL DEF Spec, SharingKeepsADeveloper

(* The group of developers is emptied only from the list of another group: *)
(* the dialog counts the users of the group that it shows.                 *)
THEOREM DevelopersStay == Spec => EmptiedFromAnotherList
<1>1. Inv /\ [Next]_vars =>
        [Developers # {} =>
           \/ Developers' # {}
           \/ \E u \in Developers : DeleteUser(u, "others")]_vars
  <2> SUFFICES ASSUME Inv, Next, Developers # {}, Developers' = {}
               PROVE  \E u \in Developers : DeleteUser(u, "others")
    OBVIOUS
  <2> USE DEF Inv, TypeOK, Developers
  <2>1. ~UNCHANGED groups
    OBVIOUS
  <2>2. /\ ~AddToGroup(newcomer, "developers")
        /\ ~AddToGroup(Default, "developers")
    BY DEF AddToGroup
  <2>3. ~(LeaveGroups /\ step \in Replacing)
    BY DEF LeaveGroups, StepsRelyOn
  <2>4. ~(DropUser(Default) /\ step \in Replacing)
    BY DEF DropUser, StepsRelyOn
  <2>5. Dialog
    <3>1. ASSUME NEW u \in Roles, Open(u) PROVE FALSE
      BY <2>1, <3>1 DEF Open, accounts
    <3>2. ASSUME NEW u \in Users, AddInitialUser(u) PROVE FALSE
      BY <2>1, <3>2 DEF AddInitialUser
    <3> QED
      BY <2>1, <2>2, <2>3, <2>4, <3>1, <3>2
      DEF Next, Sharing, accounts, Replacing, Toggling, OpenBesideLostServer,
         Close, Kill, LeaveDocument, SaveAgain, ServerEnds, ChangeToDeveloper,
         UseInitialUser,
         InitialUserNotGrouped, AskForDeveloper, Reown, DropDefault,
         DefaultNotDropped, DisableDefault, DefaultNotDisabled, StopSharing,
         GroupDefault, DefaultNotGrouped, SetFlag, Restart
  <2>6. PICK u \in Roles, g \in {"developers", "others"} :
           RemoveUser(u, g) \/ DeleteUser(u, g)
    BY <2>1, <2>5 DEF Dialog, NewUser, AddUser, AddToGroup
  <2>7. Developers = {u}
    BY <2>6 DEF RemoveUser, DeleteUser, DropUser
  <2>8. g = "others"
    <3>1. Cardinality(Developers) = 1
      BY <2>7, FS_Singleton
    <3> QED
      BY <2>6, <3>1 DEF RemoveUser, DeleteUser, MayShrink
  <2> QED
    BY <2>6, <2>7, <2>8 DEF RemoveUser
<1> QED
  BY <1>1, Invariance, PTL DEF Spec, EmptiedFromAnotherList
=============================================================================
