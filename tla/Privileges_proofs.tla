------------------------- MODULE Privileges_proofs -------------------------
(***************************************************************************)
(* What holds of Privileges for any groups and tables: its types, that     *)
(* those who may create records may fetch their keys, and that a database  *)
(* that Glom makes from an example gives no right that was never given.    *)
(***************************************************************************)
EXTENDS Privileges, TLAPS

-----------------------------------------------------------------------------
(* The shape of the state *)

\* Every step is one of these, with its parameters bound.
LEMMA NextCases ==
  ASSUME Next
  PROVE  \/ SelectGroup \/ CloseDialog \/ DeleteGroup \/ ChangeMember
         \/ \E g \in Groups : NewGroup(g)
         \/ \E t \in Tables, r \in Rights : Grant(t, r) \/ Revoke(t, r)
         \/ \E t \in Tables : RevokeView(t)
         \/ \E t \in Tables : AddTable(t) \/ RemoveTable(t)
         \/ Recreate \/ RecreateByTool
         \/ \E t \in Tables : BeginReading(t) \/ CacheTimeout(t)
         \/ \E g \in Groups : AskGroup(g) \/ ReadGroup(g)
         \/ Remember
BY DEF Next

\* The document's copy of a group is a privilege for each table.
LEMMA SelectFirstTypes ==
  ASSUME TypeOK, granted' \in [Groups -> PerTable], groups' \subseteq Groups,
         SelectFirst
  PROVE  /\ saved' \in [Groups -> PerTable \cup {None}]
         /\ shown' \in groups' \cup {None}
<1>1. PICK g \in groups' \cup {None} : Select(g)
  BY DEF SelectFirst
<1>2. shown' \in groups' \cup {None}
  BY <1>1 DEF Select
<1>3. CASE g = None
  BY <1>1, <1>2, <1>3 DEF Select, TypeOK
<1>4. CASE g # None
  <2>1. g \in Groups
    BY <1>1, <1>4
  <2>2. PICK failed \in SUBSET tables :
          saved' = [saved EXCEPT ![g] =
                     [t \in Tables |-> IF t \in failed THEN {} ELSE granted'[g][t]]]
    BY <1>1, <1>4 DEF Select
  <2>3. [t \in Tables |-> IF t \in failed THEN {} ELSE granted'[g][t]] \in PerTable
    BY <2>1 DEF PerTable
  <2> QED
    BY <1>2, <2>1, <2>2, <2>3 DEF TypeOK
<1> QED
  BY <1>3, <1>4

\* What is granted is a table of rights, and so is what ever was.
LEMMA GrantsTypes ==
  ASSUME TypeOK, NEW rights \in [Groups -> PerTable], Grants(rights)
  PROVE  granted' \in [Groups -> PerTable] /\ ever' \in [Groups -> PerTable]
BY DEF Grants, TypeOK, PerTable

\* A box of the dialog changes the rights of the group on show on a table.
LEMMA ToggleTypes ==
  ASSUME TypeOK, NEW t \in tables, NEW rights \in SUBSET Rights,
         shown # None, Toggle(t, rights)
  PROVE  TypeOK'
<1> DEFINE new == [granted EXCEPT ![shown][t] = rights]
<1>1. shown \in groups /\ shown \in Groups /\ t \in Tables
  BY DEF TypeOK
<1>2. new \in [Groups -> PerTable]
  BY <1>1 DEF TypeOK, PerTable
<1>3. \A g \in Groups, s \in Tables : new[g][s] # {} => g \in groups /\ s \in tables
  BY <1>1 DEF TypeOK, PerTable
<1>4. Grants(new)
  BY DEF Toggle
<1>5. granted' \in [Groups -> PerTable] /\ ever' \in [Groups -> PerTable]
  BY <1>2, <1>4, GrantsTypes
<1>6. spoiled' \subseteq Groups \X Tables
  BY <1>1 DEF Toggle, TypeOK
<1>7. granted' = new
  BY <1>4 DEF Grants
<1> HIDE DEF new
<1> QED
  BY <1>3, <1>5, <1>6, <1>7 DEF Toggle, process, TypeOK

\* A database made from the document has what the document says.
LEMMA RecreatedTypes ==
  ASSUME TypeOK, NEW before \in SUBSET tables, NEW keytable \in BOOLEAN,
         Recreated(before, keytable)
  PROVE  TypeOK'
<1> DEFINE new(done) == [g \in Groups |-> [t \in Tables |->
                          (IF g \in InDocument /\ t \in before THEN Default ELSE {})
                            \cup (IF <<g, t>> \in done THEN saved[g][t] ELSE {})]]
<1>1. PICK done \in SUBSET Copies :
        \E whole \in SUBSET {p \in done : keytable /\ Create(p)} :
          /\ Grants(new(done))
          /\ keepers' = {p[1] : p \in whole}
          /\ spoiled' = IF keytable THEN {p \in done : Create(p)} \ whole ELSE {}
          /\ groups' = InDocument
          /\ shown' = None
          /\ member' = {}
          /\ cache' = [t \in Tables |-> None] /\ timers' = {}
          /\ reading' = None
          /\ UNCHANGED <<tables, saved>>
  BY DEF Recreated
<1>2. PICK whole \in SUBSET {p \in done : keytable /\ Create(p)} :
          /\ Grants(new(done))
          /\ keepers' = {p[1] : p \in whole}
          /\ spoiled' = IF keytable THEN {p \in done : Create(p)} \ whole ELSE {}
          /\ groups' = InDocument
          /\ shown' = None
          /\ member' = {}
          /\ cache' = [t \in Tables |-> None] /\ timers' = {}
          /\ reading' = None
          /\ UNCHANGED <<tables, saved>>
  BY <1>1
<1>3. InDocument \subseteq Groups /\ done \subseteq InDocument \X tables
  BY DEF InDocument, Copies
<1>4. \A p \in done : saved[p[1]][p[2]] \in SUBSET Rights
  BY <1>3 DEF InDocument, TypeOK, PerTable
<1>5. new(done) \in [Groups -> PerTable]
  <2>1. ASSUME NEW g \in Groups, NEW t \in Tables
        PROVE  (IF <<g, t>> \in done THEN saved[g][t] ELSE {}) \in SUBSET Rights
    BY <1>4
  <2> QED
    BY <2>1 DEF PerTable, Default
<1>6. granted' \in [Groups -> PerTable] /\ ever' \in [Groups -> PerTable]
  BY <1>2, <1>5, GrantsTypes
<1>7. \A g \in Groups, t \in Tables :
        new(done)[g][t] # {} => g \in InDocument /\ t \in tables
  <2>1. ASSUME NEW g \in Groups, NEW t \in Tables, new(done)[g][t] # {}
        PROVE  g \in InDocument /\ t \in tables
    <3>1. <<g, t>> \in done => g \in InDocument /\ t \in tables
      BY <1>3
    <3> QED
      BY <2>1, <3>1
  <2> QED
    BY <2>1
<1>8. \A g \in Groups, t \in Tables : granted'[g][t] = new(done)[g][t]
  BY <1>2 DEF Grants
<1>9. keepers' \subseteq groups'
  BY <1>2, <1>3
<1>10. spoiled' \subseteq Groups \X Tables
  BY <1>2, <1>3 DEF TypeOK
<1>11. /\ tables' \subseteq Tables
       /\ saved' \in [Groups -> PerTable \cup {None}]
       /\ groups' \subseteq Groups
       /\ shown' \in groups' \cup {None}
       /\ member' \subseteq groups'
       /\ timers' \subseteq Tables
       /\ reading' \in Reading \cup {None}
  BY <1>2, <1>3 DEF TypeOK
<1>12. cache' \in [Tables -> (SUBSET Rights) \cup {None}]
  <2>1. cache' = [t \in Tables |-> None]
    BY <1>2
  <2> QED
    BY <2>1
<1>13. \A g \in Groups, t \in Tables :
         granted'[g][t] # {} => g \in groups' /\ t \in tables'
  <2>1. \A g \in Groups, t \in Tables :
          granted'[g][t] # {} => g \in InDocument /\ t \in tables
    <3> HIDE DEF new
    <3> QED
      BY <1>7, <1>8
  <2>2. groups' = InDocument /\ tables' = tables
    BY <1>2
  <2> QED
    BY <2>1, <2>2
<1> QED
  BY <1>6, <1>9, <1>11, <1>12, <1>13, <1>10 DEF TypeOK

\* A statement about the rights on the tables, read by the process.
LEMMA ProcessTypes ==
  ASSUME TypeOK,
         \/ \E t \in Tables : BeginReading(t) \/ CacheTimeout(t)
         \/ \E g \in Groups : AskGroup(g) \/ ReadGroup(g)
         \/ Remember
  PROVE  TypeOK'
<1>1. UNCHANGED <<tables, server, saved, shown, member>>
  BY DEF BeginReading, CacheTimeout, AskGroup, ReadGroup, Remember
<1>2. cache' \in [Tables -> (SUBSET Rights) \cup {None}] /\ timers' \subseteq Tables
  BY DEF BeginReading, CacheTimeout, AskGroup, ReadGroup, Remember, TypeOK, Reading
<1>3. reading' \in Reading \cup {None}
  <2>1. CASE \E t \in Tables : BeginReading(t)
    <3>1. PICK t \in Tables, gs \in {{}, groups} :
            reading' = [table |-> t, ask |-> gs, mine |-> {}, rights |-> {}]
      BY <2>1 DEF BeginReading
    <3>2. gs \in SUBSET Groups
      BY DEF TypeOK
    <3> QED
      BY <3>1, <3>2 DEF Reading
  <2>5. CASE \E t \in Tables : CacheTimeout(t)
    BY <2>5 DEF CacheTimeout, TypeOK
  <2>2. CASE \E g \in Groups : AskGroup(g)
    <3>1. PICK g \in Groups : AskGroup(g)
      BY <2>2
    <3>2. reading \in Reading
      BY <3>1 DEF AskGroup, TypeOK
    <3>3. PICK found \in SUBSET Groups :
            reading' = [reading EXCEPT !.ask = @ \ {g}, !.mine = @ \cup found]
      BY <3>1 DEF AskGroup
    <3>4. reading' = [table |-> reading.table, ask |-> reading.ask \ {g},
                      mine |-> reading.mine \cup found, rights |-> reading.rights]
      BY <3>2, <3>3 DEF Reading
    <3>5. reading.ask \ {g} \in SUBSET Groups /\ reading.mine \cup found \in SUBSET Groups
      BY <3>2 DEF Reading
    <3> QED
      BY <3>2, <3>4, <3>5 DEF Reading
  <2>3. CASE \E g \in Groups : ReadGroup(g)
    <3>1. PICK g \in Groups : ReadGroup(g)
      BY <2>3
    <3>2. reading \in Reading
      BY <3>1 DEF ReadGroup, TypeOK
    <3>3. granted[g][reading.table] \in SUBSET Rights
      BY <3>2 DEF Reading, TypeOK, PerTable
    <3>4. PICK found \in SUBSET Rights :
            reading' = [reading EXCEPT !.mine = @ \ {g}, !.rights = @ \cup found]
      BY <3>1, <3>3 DEF ReadGroup
    <3>5. reading' = [table |-> reading.table, ask |-> reading.ask,
                      mine |-> reading.mine \ {g}, rights |-> reading.rights \cup found]
      BY <3>2, <3>4 DEF Reading
    <3>6. reading.mine \ {g} \in SUBSET Groups /\ reading.rights \cup found \in SUBSET Rights
      BY <3>2 DEF Reading
    <3> QED
      BY <3>2, <3>5, <3>6 DEF Reading
  <2>4. CASE Remember
    BY <2>4 DEF Remember
  <2> QED
    BY <2>1, <2>2, <2>3, <2>4, <2>5
<1> QED
  BY <1>1, <1>2, <1>3 DEF server, TypeOK

\* The types are kept by every step.
LEMMA TypesKept == TypeOK /\ [Next]_vars => TypeOK'
<1> SUFFICES ASSUME TypeOK, [Next]_vars PROVE TypeOK'
  OBVIOUS
<1>1. CASE SelectGroup
  <2>1. /\ UNCHANGED <<tables, server, member, process>>
        /\ SelectFirst
    BY <1>1 DEF SelectGroup
  <2>2. granted' \in [Groups -> PerTable] /\ groups' \subseteq Groups
    BY <2>1 DEF server, TypeOK
  <2>3. /\ saved' \in [Groups -> PerTable \cup {None}]
        /\ shown' \in groups' \cup {None}
    BY <2>1, <2>2, SelectFirstTypes
  <2> QED
    BY <2>1, <2>3 DEF server, process, TypeOK
<1>2. CASE CloseDialog
  BY <1>2 DEF CloseDialog, server, process, TypeOK
<1>3. CASE DeleteGroup
  <2>1. /\ UNCHANGED <<tables, granted, keepers, spoiled, ever, process>>
        /\ SelectFirst
    BY <1>3 DEF DeleteGroup
  <2>2. groups' \subseteq groups /\ member' \subseteq groups'
    BY <1>3 DEF DeleteGroup, TypeOK
  <2>3. granted' \in [Groups -> PerTable] /\ groups' \subseteq Groups
    BY <2>1, <2>2 DEF TypeOK
  <2>4. /\ saved' \in [Groups -> PerTable \cup {None}]
        /\ shown' \in groups' \cup {None}
    BY <2>1, <2>3, SelectFirstTypes
  <2>5. CASE groups' = groups
    BY <2>1, <2>2, <2>4, <2>5 DEF process, TypeOK
  <2>6. CASE groups' # groups
    <3>1. groups' = groups \ {shown} /\ granted[shown] = NoRights /\ shown \notin keepers
      BY <1>3, <2>6 DEF DeleteGroup
    <3>2. keepers' \subseteq groups'
      BY <2>1, <3>1 DEF TypeOK
    <3>3. \A g \in Groups, t \in Tables :
            granted'[g][t] # {} => g \in groups' /\ t \in tables'
      BY <2>1, <3>1 DEF TypeOK, NoRights
    <3> QED
      BY <2>1, <2>2, <2>3, <2>4, <3>2, <3>3 DEF process, TypeOK
  <2> QED
    BY <2>5, <2>6
<1>4. CASE ChangeMember
  <2>1. /\ UNCHANGED <<tables, server, process>>
        /\ SelectFirst
        /\ member' \subseteq groups
    BY <1>4 DEF ChangeMember
  <2>2. granted' \in [Groups -> PerTable] /\ groups' \subseteq Groups
    BY <2>1 DEF server, TypeOK
  <2>3. /\ saved' \in [Groups -> PerTable \cup {None}]
        /\ shown' \in groups' \cup {None}
    BY <2>1, <2>2, SelectFirstTypes
  <2> QED
    BY <2>1, <2>3 DEF server, process, TypeOK
<1>5. CASE \E g \in Groups : NewGroup(g)
  <2>1. PICK g \in Groups : NewGroup(g)
    BY <1>5
  <2>2. PICK done \in SUBSET tables :
          Grants([granted EXCEPT ![g] =
                    [t \in Tables |-> IF t \in done THEN Default ELSE {}]])
    BY <2>1 DEF NewGroup
  <2> DEFINE new == [granted EXCEPT ![g] =
                       [t \in Tables |-> IF t \in done THEN Default ELSE {}]]
  <2>3. new \in [Groups -> PerTable]
    BY DEF TypeOK, PerTable, Default
  <2>4. granted' \in [Groups -> PerTable] /\ ever' \in [Groups -> PerTable]
    BY <2>2, <2>3, GrantsTypes
  <2>5. groups' = groups \cup {g}
    BY <2>1 DEF NewGroup
  <2>6. \A h \in Groups, t \in Tables :
          granted'[h][t] # {} => h \in groups' /\ t \in tables
    BY <2>2, <2>5 DEF Grants, TypeOK
  <2>7. /\ saved' \in [Groups -> PerTable \cup {None}]
        /\ shown' \in groups' \cup {None}
    BY <2>1, <2>4, <2>5, SelectFirstTypes DEF NewGroup, TypeOK
  <2>8. UNCHANGED <<tables, keepers, spoiled, member, process>>
    BY <2>1 DEF NewGroup
  <2> HIDE DEF new
  <2> QED
    BY <2>4, <2>5, <2>6, <2>7, <2>8 DEF process, TypeOK
<1>6. CASE \E t \in Tables, r \in Rights : Grant(t, r) \/ Revoke(t, r)
  <2>1. PICK t \in Tables, r \in Rights : Grant(t, r) \/ Revoke(t, r)
    BY <1>6
  <2>2. t \in tables /\ shown # None
    BY <2>1 DEF Grant, Revoke
  <2>3. granted[shown][t] \in SUBSET Rights
    BY <2>2 DEF TypeOK, PerTable
  <2>4. \E rights \in SUBSET Rights : Toggle(t, rights)
    BY <2>1, <2>3 DEF Grant, Revoke
  <2> QED
    BY <2>2, <2>4, ToggleTypes
<1>7. CASE \E t \in Tables : RevokeView(t)
  <2>1. PICK t \in Tables : RevokeView(t)
    BY <1>7
  <2>2. t \in tables /\ shown # None
    BY <2>1 DEF RevokeView
  <2>3. granted[shown][t] \in SUBSET Rights
    BY <2>2 DEF TypeOK, PerTable
  <2>4. \E rights \in SUBSET Rights : Toggle(t, rights)
    BY <2>1, <2>3 DEF RevokeView
  <2> QED
    BY <2>2, <2>4, ToggleTypes
<1>8. CASE \E t \in Tables : AddTable(t) \/ RemoveTable(t)
  <2>1. PICK t \in Tables : AddTable(t) \/ RemoveTable(t)
    BY <1>8
  <2>2. CASE AddTable(t)
    BY <2>2 DEF AddTable, server, process, TypeOK
  <2>3. CASE RemoveTable(t)
    <3>1. granted' \in [Groups -> PerTable]
      BY <2>3 DEF RemoveTable, TypeOK, PerTable
    <3>2. \A g \in Groups, s \in Tables :
            granted'[g][s] # {} => g \in groups' /\ s \in tables'
      BY <2>3 DEF RemoveTable, TypeOK, PerTable
    <3>3. spoiled' \subseteq Groups \X Tables
      BY <2>3 DEF RemoveTable, TypeOK
    <3> QED
      BY <2>3, <3>1, <3>2, <3>3 DEF RemoveTable, process, TypeOK
  <2> QED
    BY <2>1, <2>2, <2>3
<1>9. CASE Recreate
  BY <1>9, RecreatedTypes DEF Recreate
<1>10. CASE RecreateByTool
  BY <1>10, RecreatedTypes DEF RecreateByTool
<1>11. CASE UNCHANGED vars
  BY <1>11 DEF vars, server, process, TypeOK
<1> QED
  BY <1>1, <1>2, <1>3, <1>4, <1>5, <1>6, <1>7, <1>8, <1>9, <1>10, <1>11,
     NextCases, ProcessTypes

\* A new document has these types.
LEMMA InitTypes == Init => TypeOK
BY DEF Init, TypeOK, NoRights, PerTable

(* The state of the server, of the document, of the dialog and of the      *)
(* process that reads privileges has its types, for any groups and tables: *)
(* nothing is granted to a group, or on a table, that is not there.        *)
THEOREM TypeCorrect == Spec => []TypeOK
<1>1. Init => TypeOK
  BY InitTypes
<1>2. TypeOK /\ [Next]_vars => TypeOK'
  BY TypesKept
<1> QED
  BY <1>1, <1>2, PTL DEF Spec

-----------------------------------------------------------------------------
(* Keys *)

\* A box of the dialog that grants "create" spoils the promise.
LEMMA ToggleKeys ==
  ASSUME TypeOK, CreatorsMayFetchKeys, NEW t \in tables, NEW rights \in SUBSET Rights,
         shown # None, Toggle(t, rights)
  PROVE  CreatorsMayFetchKeys'
<1>1. shown \in groups /\ shown \in Groups /\ t \in Tables
  BY DEF TypeOK
<1>2. granted' = [granted EXCEPT ![shown][t] = rights]
  BY DEF Toggle, Grants
<1>3. UNCHANGED <<tables, groups, keepers>>
  BY DEF Toggle
<1> SUFFICES ASSUME NEW g \in groups', NEW s \in tables',
                    "create" \in granted'[g][s], <<g, s>> \notin spoiled'
             PROVE  g \in keepers'
  BY DEF CreatorsMayFetchKeys
<1>4. g \in groups /\ s \in tables /\ g \in Groups /\ s \in Tables
  BY <1>3 DEF TypeOK
<1>5. "create" \in granted[g][s] /\ <<g, s>> \notin spoiled
  <2>1. CASE g = shown /\ s = t
    <3>1. "create" \in rights
      BY <1>1, <1>2, <2>1 DEF TypeOK, PerTable
    <3> QED
      BY <2>1, <3>1 DEF Toggle
  <2>2. CASE ~(g = shown /\ s = t)
    <3>1. granted'[g][s] = granted[g][s]
      BY <1>1, <1>2, <1>4, <2>2 DEF TypeOK, PerTable
    <3>2. <<g, s>> \notin spoiled
      BY <2>2 DEF Toggle
    <3> QED
      BY <3>1, <3>2
  <2> QED
    BY <2>1, <2>2
<1> QED
  BY <1>3, <1>4, <1>5 DEF CreatorsMayFetchKeys

\* In a new database whoever may create was granted the keys as well.
LEMMA RecreatedKeys ==
  ASSUME TypeOK, NEW before \in SUBSET tables, Recreated(before, TRUE)
  PROVE  CreatorsMayFetchKeys'
<1>1. PICK done \in SUBSET Copies : \E whole \in SUBSET {p \in done : Create(p)} :
        /\ granted' = [g \in Groups |-> [t \in Tables |->
             (IF g \in InDocument /\ t \in before THEN Default ELSE {})
               \cup (IF <<g, t>> \in done THEN saved[g][t] ELSE {})]]
        /\ keepers' = {p[1] : p \in whole}
        /\ spoiled' = {p \in done : Create(p)} \ whole
        /\ groups' = InDocument
        /\ tables' = tables
  BY DEF Recreated, Grants
<1>2. PICK whole \in SUBSET {p \in done : Create(p)} :
        /\ granted' = [g \in Groups |-> [t \in Tables |->
             (IF g \in InDocument /\ t \in before THEN Default ELSE {})
               \cup (IF <<g, t>> \in done THEN saved[g][t] ELSE {})]]
        /\ keepers' = {p[1] : p \in whole}
        /\ spoiled' = {p \in done : Create(p)} \ whole
        /\ groups' = InDocument
        /\ tables' = tables
  BY <1>1
<1> SUFFICES ASSUME NEW g \in groups', NEW t \in tables',
                    "create" \in granted'[g][t], <<g, t>> \notin spoiled'
             PROVE  g \in keepers'
  BY DEF CreatorsMayFetchKeys
<1>3. g \in Groups /\ t \in Tables
  BY <1>2 DEF InDocument, TypeOK
<1>4. <<g, t>> \in done /\ "create" \in saved[g][t]
  BY <1>2, <1>3 DEF Default
<1>5. Create(<<g, t>>)
  BY <1>4 DEF Create
<1>6. <<g, t>> \in whole
  BY <1>2, <1>4, <1>5
<1> QED
  BY <1>2, <1>6

\* Those who may create records may fetch their keys after every step.
LEMMA KeysKept == TypeOK /\ CreatorsMayFetchKeys /\ [Next]_vars => CreatorsMayFetchKeys'
<1> SUFFICES ASSUME TypeOK, CreatorsMayFetchKeys, [Next]_vars
             PROVE  CreatorsMayFetchKeys'
  OBVIOUS
<1>1. CASE UNCHANGED <<tables, granted, keepers, spoiled>> /\ groups' \subseteq groups
  BY <1>1 DEF CreatorsMayFetchKeys
<1>2. CASE SelectGroup \/ CloseDialog \/ DeleteGroup \/ ChangeMember \/ Remember
  BY <1>1, <1>2 DEF SelectGroup, CloseDialog, DeleteGroup, ChangeMember, Remember, server
<1>3. CASE \E t \in Tables : BeginReading(t) \/ CacheTimeout(t)
  BY <1>1, <1>3 DEF BeginReading, CacheTimeout, server
<1>4. CASE \E g \in Groups : AskGroup(g) \/ ReadGroup(g)
  BY <1>1, <1>4 DEF AskGroup, ReadGroup, server
<1>5. CASE \E g \in Groups : NewGroup(g)
  <2>1. PICK g \in Groups : NewGroup(g)
    BY <1>5
  <2>2. PICK done \in SUBSET tables :
          granted' = [granted EXCEPT ![g] =
                        [t \in Tables |-> IF t \in done THEN Default ELSE {}]]
    BY <2>1 DEF NewGroup, Grants
  <2>3. \A h \in groups', t \in tables :
          "create" \in granted'[h][t] => h \in groups /\ "create" \in granted[h][t]
    BY <2>1, <2>2 DEF NewGroup, TypeOK, Default
  <2> QED
    BY <2>1, <2>3 DEF NewGroup, CreatorsMayFetchKeys
<1>6. CASE \E t \in Tables, r \in Rights : Grant(t, r) \/ Revoke(t, r)
  <2>1. PICK t \in Tables, r \in Rights : Grant(t, r) \/ Revoke(t, r)
    BY <1>6
  <2>2. t \in tables /\ shown # None
    BY <2>1 DEF Grant, Revoke
  <2>3. granted[shown][t] \in SUBSET Rights
    BY <2>2 DEF TypeOK, PerTable
  <2>4. \E rights \in SUBSET Rights : Toggle(t, rights)
    BY <2>1, <2>3 DEF Grant, Revoke
  <2> QED
    BY <2>2, <2>4, ToggleKeys
<1>7. CASE \E t \in Tables : RevokeView(t)
  <2>1. PICK t \in Tables : RevokeView(t)
    BY <1>7
  <2>2. t \in tables /\ shown # None
    BY <2>1 DEF RevokeView
  <2>3. granted[shown][t] \in SUBSET Rights
    BY <2>2 DEF TypeOK, PerTable
  <2>4. \E rights \in SUBSET Rights : Toggle(t, rights)
    BY <2>1, <2>3 DEF RevokeView
  <2> QED
    BY <2>2, <2>4, ToggleKeys
<1>8. CASE \E t \in Tables : AddTable(t) \/ RemoveTable(t)
  <2>1. PICK t \in Tables : AddTable(t) \/ RemoveTable(t)
    BY <1>8
  <2>2. CASE AddTable(t)
    <3>1. \A g \in groups : granted[g][t] = {}
      BY <2>2 DEF AddTable, TypeOK
    <3> QED
      BY <2>2, <3>1 DEF AddTable, server, CreatorsMayFetchKeys
  <2>3. CASE RemoveTable(t)
    <3>1. \A g \in groups, s \in tables' :
            /\ s \in tables /\ s # t
            /\ granted'[g][s] = granted[g][s]
      BY <2>3 DEF RemoveTable, TypeOK, PerTable
    <3> QED
      BY <2>3, <3>1 DEF RemoveTable, CreatorsMayFetchKeys
  <2> QED
    BY <2>1, <2>2, <2>3
<1>9. CASE Recreate
  BY <1>9, RecreatedKeys DEF Recreate
<1>10. CASE RecreateByTool
  BY <1>10, RecreatedKeys DEF RecreateByTool
<1>11. CASE UNCHANGED vars
  BY <1>1, <1>11 DEF vars, server
<1> QED
  BY <1>2, <1>3, <1>4, <1>5, <1>6, <1>7, <1>8, <1>9, <1>10, <1>11, NextCases

(* Whoever may create records of a table may fetch their keys, unless the  *)
(* right was given by hand in the dialog or a GRANT failed.                *)
THEOREM KeysSafe == Spec => []CreatorsMayFetchKeys
<1>1. Init => CreatorsMayFetchKeys
  BY DEF Init, CreatorsMayFetchKeys
<1>2. CreatorsMayFetchKeys /\ TypeOK /\ [Next]_vars => CreatorsMayFetchKeys'
  BY KeysKept
<1> QED
  BY <1>1, <1>2, TypeCorrect, PTL DEF Spec

-----------------------------------------------------------------------------
(* Databases made from the document *)

\* What is granted, and what the document says, was granted at some time.
EverCovers ==
  \A g \in Groups, t \in Tables :
    /\ granted[g][t] \subseteq ever[g][t]
    /\ saved[g] # None => saved[g][t] \subseteq ever[g][t]

\* Nothing is forgotten, and what is granted now is remembered.
LEMMA GrantsCovered ==
  ASSUME TypeOK, EverCovers, NEW rights \in [Groups -> PerTable], Grants(rights)
  PROVE  \A g \in Groups, t \in Tables :
           /\ granted'[g][t] \subseteq ever'[g][t]
           /\ ever[g][t] \subseteq ever'[g][t]
BY DEF Grants, TypeOK, PerTable

\* The document's copy is of what is granted, or less.
LEMMA SelectFirstCovered ==
  ASSUME TypeOK, EverCovers, SelectFirst, groups' \subseteq Groups,
         \A g \in Groups, t \in Tables :
           /\ granted'[g][t] \subseteq ever'[g][t]
           /\ ever[g][t] \subseteq ever'[g][t]
  PROVE  EverCovers'
<1>1. PICK g \in groups' \cup {None} : Select(g)
  BY DEF SelectFirst
<1>2. CASE g = None
  BY <1>1, <1>2 DEF Select, EverCovers
<1>3. CASE g # None
  <2>1. g \in Groups
    BY <1>1, <1>3
  <2>2. PICK failed \in SUBSET tables :
          saved' = [saved EXCEPT ![g] =
                     [t \in Tables |-> IF t \in failed THEN {} ELSE granted'[g][t]]]
    BY <1>1, <1>3 DEF Select
  <2>3. ASSUME NEW h \in Groups, NEW t \in Tables, saved'[h] # None
        PROVE  saved'[h][t] \subseteq ever'[h][t]
    <3>1. CASE h = g
      <4>1. saved'[h] = [s \in Tables |-> IF s \in failed THEN {} ELSE granted'[g][s]]
        BY <2>1, <2>2, <3>1 DEF TypeOK
      <4>2. saved'[h][t] \subseteq granted'[h][t]
        BY <3>1, <4>1
      <4> QED
        BY <4>2
    <3>2. CASE h # g
      <4>1. saved'[h] = saved[h]
        BY <2>2, <3>2 DEF TypeOK
      <4> QED
        BY <2>3, <4>1 DEF EverCovers
    <3> QED
      BY <3>1, <3>2
  <2> QED
    BY <2>3 DEF EverCovers
<1> QED
  BY <1>2, <1>3

\* A box of the dialog leaves the document's copy as it is.
LEMMA ToggleCovered ==
  ASSUME TypeOK, EverCovers, NEW t \in tables, NEW rights \in SUBSET Rights,
         shown # None, Toggle(t, rights)
  PROVE  EverCovers'
<1> DEFINE new == [granted EXCEPT ![shown][t] = rights]
<1>1. shown \in Groups /\ t \in Tables
  BY DEF TypeOK
<1>2. new \in [Groups -> PerTable]
  BY <1>1 DEF TypeOK, PerTable
<1>3. Grants(new) /\ UNCHANGED saved
  BY DEF Toggle
<1> HIDE DEF new
<1>4. \A g \in Groups, s \in Tables :
        /\ granted'[g][s] \subseteq ever'[g][s]
        /\ ever[g][s] \subseteq ever'[g][s]
  BY <1>2, <1>3, GrantsCovered
<1> QED
  BY <1>3, <1>4 DEF EverCovers

\* So it is in a new database, and if the groups come before the tables
\* nothing is granted but what the document says.
LEMMA RecreatedCovered ==
  ASSUME TypeOK, EverCovers, NEW before \in SUBSET tables, Recreated(before, TRUE)
  PROVE  /\ EverCovers'
         /\ before = {} => \A g \in Groups, t \in Tables :
                             granted'[g][t] \subseteq ever[g][t]
<1> DEFINE new(done) == [g \in Groups |-> [t \in Tables |->
                          (IF g \in InDocument /\ t \in before THEN Default ELSE {})
                            \cup (IF <<g, t>> \in done THEN saved[g][t] ELSE {})]]
<1>1. PICK done \in SUBSET Copies : Grants(new(done)) /\ UNCHANGED saved
  BY DEF Recreated
<1>2. \A g \in Groups, t \in Tables :
        granted'[g][t] \subseteq ever'[g][t] /\ ever[g][t] \subseteq ever'[g][t]
  BY <1>1 DEF Grants, TypeOK, PerTable
<1>3. EverCovers'
  BY <1>1, <1>2 DEF EverCovers
<1>4. ASSUME before = {}, NEW g \in Groups, NEW t \in Tables
      PROVE  granted'[g][t] \subseteq ever[g][t]
  <2>1. granted'[g][t] = IF <<g, t>> \in done THEN saved[g][t] ELSE {}
    BY <1>1, <1>4 DEF Grants
  <2>2. <<g, t>> \in done => saved[g] # None
    BY DEF Copies, InDocument
  <2> QED
    BY <2>1, <2>2 DEF EverCovers
<1> QED
  BY <1>3, <1>4

\* Every step keeps that.
LEMMA CoversKept == TypeOK /\ EverCovers /\ [Next]_vars => EverCovers'
<1> SUFFICES ASSUME TypeOK, EverCovers, [Next]_vars PROVE EverCovers'
  OBVIOUS
<1>1. CASE UNCHANGED <<granted, ever, saved>>
  BY <1>1 DEF EverCovers
<1>2. ASSUME UNCHANGED <<granted, ever>>, groups' \subseteq Groups, SelectFirst
      PROVE  EverCovers'
  <2>1. \A g \in Groups, t \in Tables :
          granted'[g][t] \subseteq ever'[g][t] /\ ever[g][t] \subseteq ever'[g][t]
    BY <1>2 DEF EverCovers
  <2> QED
    BY <1>2, <2>1, SelectFirstCovered
<1>3. CASE SelectGroup \/ DeleteGroup \/ ChangeMember
  BY <1>2, <1>3 DEF SelectGroup, DeleteGroup, ChangeMember, server, TypeOK
<1>4. CASE CloseDialog \/ Remember \/ \E t \in Tables : AddTable(t)
  BY <1>1, <1>4 DEF CloseDialog, Remember, AddTable, server
<1>5. CASE \E t \in Tables : BeginReading(t) \/ CacheTimeout(t)
  BY <1>1, <1>5 DEF BeginReading, CacheTimeout, server
<1>6. CASE \E g \in Groups : AskGroup(g) \/ ReadGroup(g)
  BY <1>1, <1>6 DEF AskGroup, ReadGroup, server
<1>7. CASE \E g \in Groups : NewGroup(g)
  <2>1. PICK g \in Groups : NewGroup(g)
    BY <1>7
  <2>2. PICK done \in SUBSET tables :
          Grants([granted EXCEPT ![g] =
                    [t \in Tables |-> IF t \in done THEN Default ELSE {}]])
    BY <2>1 DEF NewGroup
  <2> DEFINE new == [granted EXCEPT ![g] =
                       [t \in Tables |-> IF t \in done THEN Default ELSE {}]]
  <2>3. new \in [Groups -> PerTable]
    BY DEF TypeOK, PerTable, Default
  <2>4. Grants(new)
    BY <2>2
  <2> HIDE DEF new
  <2>5. \A h \in Groups, t \in Tables :
          /\ granted'[h][t] \subseteq ever'[h][t]
          /\ ever[h][t] \subseteq ever'[h][t]
    BY <2>3, <2>4, GrantsCovered
  <2>6. groups' \subseteq Groups /\ SelectFirst
    BY <2>1 DEF NewGroup, TypeOK
  <2> QED
    BY <2>5, <2>6, SelectFirstCovered
<1>8. CASE \E t \in Tables, r \in Rights : Grant(t, r) \/ Revoke(t, r)
  <2>1. PICK t \in Tables, r \in Rights : Grant(t, r) \/ Revoke(t, r)
    BY <1>8
  <2>2. t \in tables /\ shown # None
    BY <2>1 DEF Grant, Revoke
  <2>3. granted[shown][t] \in SUBSET Rights
    BY <2>2 DEF TypeOK, PerTable
  <2>4. \E rights \in SUBSET Rights : Toggle(t, rights)
    BY <2>1, <2>3 DEF Grant, Revoke
  <2> QED
    BY <2>2, <2>4, ToggleCovered
<1>9. CASE \E t \in Tables : RevokeView(t)
  <2>1. PICK t \in Tables : RevokeView(t)
    BY <1>9
  <2>2. t \in tables /\ shown # None
    BY <2>1 DEF RevokeView
  <2>3. granted[shown][t] \in SUBSET Rights
    BY <2>2 DEF TypeOK, PerTable
  <2>4. \E rights \in SUBSET Rights : Toggle(t, rights)
    BY <2>1, <2>3 DEF RevokeView
  <2> QED
    BY <2>2, <2>4, ToggleCovered
<1>10. CASE \E t \in Tables : RemoveTable(t)
  <2>1. PICK t \in Tables : RemoveTable(t)
    BY <1>10
  <2>2. \A g \in Groups, s \in Tables : granted'[g][s] \subseteq granted[g][s]
    BY <2>1 DEF RemoveTable, TypeOK, PerTable
  <2> QED
    BY <2>1, <2>2 DEF RemoveTable, EverCovers
<1>11. CASE Recreate
  BY <1>11, RecreatedCovered DEF Recreate
<1>12. CASE RecreateByTool
  BY <1>12, RecreatedCovered DEF RecreateByTool
<1>13. CASE UNCHANGED vars
  BY <1>1, <1>13 DEF vars, server
<1> QED
  BY <1>3, <1>4, <1>5, <1>6, <1>7, <1>8, <1>9, <1>10, <1>11, <1>12, <1>13, NextCases

(* A database that Glom makes from an example gives no group a right that  *)
(* a group with its name never had on a table with the table's name.       *)
THEOREM NoInventedRights == Spec => RecreatingInventsNoRights
<1>1. Init => EverCovers
  BY DEF Init, EverCovers, NoRights
<1>2. EverCovers /\ TypeOK /\ [Next]_vars => EverCovers'
  BY CoversKept
<1>3. TypeOK /\ EverCovers =>
        [Recreate => \A g \in Groups, t \in Tables :
                       granted'[g][t] \subseteq ever[g][t]]_vars
  BY RecreatedCovered DEF Recreate
<1> QED
  BY <1>1, <1>2, <1>3, TypeCorrect, PTL DEF Spec, RecreatingInventsNoRights
=============================================================================
