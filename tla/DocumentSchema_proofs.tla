------------------------ MODULE DocumentSchema_proofs ------------------------
(***************************************************************************)
(* Proofs about DocumentSchema: every relationship of a document joins     *)
(* fields that exist, the layouts hold no relationship that was removed,   *)
(* and the file never lags behind in the schema, for all tables, fields    *)
(* and relationships.                                                      *)
(*                                                                         *)
(* The three properties lean on one another: what is loaded joins because  *)
(* what was in memory does and the file agrees with it; a table's removal  *)
(* takes a relationship from its list and from the layouts because they    *)
(* agree on the table it starts from.  That loading gives back the uses    *)
(* that were saved rests on the names, which are proved unique after them. *)
(***************************************************************************)
EXTENDS DocumentSchema, TLAPS

(* Only the items of a portal are related through one, in memory and in    *)
(* the file, where an item forgets the portal it cannot find.              *)
OnlyInPortals(us) == \A u \in us : u.place # "portal" => u.portal = None

(* A Relationship that is adrift is still there, but not listed.           *)
AdriftIsUnlisted ==
  \A r \in adrift : r \notin listed /\ rel[r] # NoRel

(* What an item of a layout of t shows by r is not lost.                   *)
Kept(r, t) ==
  \/ r \in adrift
  \/ \E q \in listed : rel[q] = rel[r] /\ rel[q].from = t

Inv ==
  /\ TypeOK
  /\ AdriftIsUnlisted
  /\ RelationshipsJoin
  /\ LayoutsKeepRelationships
  /\ FileKnowsTheSchema
  /\ OnlyInPortals(uses) /\ OnlyInPortals(file.uses)

(* The schema's part of TypeOK.                                            *)
SchemaTypeOK ==
  /\ tables \subseteq Tables
  /\ fields \in [Tables -> SUBSET FieldNames]
  /\ rel \in [Rels -> Relationship \cup {NoRel}]
  /\ listed \subseteq Rels
  /\ \A r \in listed : rel[r] # NoRel

LayoutTypeOK ==
  /\ uses \subseteq Use
  /\ adrift \subseteq Rels
  /\ \A u \in uses : \A r \in Refs(u) : rel[r] # NoRel

FileTypeOK ==
  /\ file.tables \subseteq Tables
  /\ file.fields \in [Tables -> SUBSET FieldNames]
  /\ file.rels \subseteq Relationship
  /\ file.uses \subseteq SavedUse

-----------------------------------------------------------------------------
(* TypeOK is its three parts.                                              *)
LEMMA TypeParts == TypeOK <=> SchemaTypeOK /\ LayoutTypeOK /\ FileTypeOK
BY DEF TypeOK, SchemaTypeOK, LayoutTypeOK, FileTypeOK, Refs

(* A Relationship is no null pointer.                                      *)
LEMMA RelationshipIsSomething == NoRel \notin Relationship
<1> SUFFICES ASSUME NoRel \in Relationship PROVE FALSE
  OBVIOUS
<1>1. NoRel.name \in RelNames
  BY DEF Relationship
<1>2. NoRel.name = None
  BY DEF NoRel
<1> QED
  BY <1>1, <1>2, SchemaAssumption

(* The relationships that an item holds are objects.                       *)
LEMMA RefsAreRels ==
  ASSUME NEW u \in Use
  PROVE  /\ Refs(u) \subseteq Rels
         /\ u.portal \in Rels \cup {None} /\ u.rel \in Rels \cup {None}
         /\ u.related \in Rels \cup {None}
         /\ u.table \in Tables /\ u.place \in Places /\ u.name \in FieldNames
BY DEF Use, Refs

(* What Document::save_before() writes.                                    *)
LEMMA SavedFile ==
  ASSUME NEW ts \in SUBSET Tables, NEW fs \in [Tables -> SUBSET FieldNames],
         NEW rl \in [Rels -> Relationship \cup {NoRel}],
         NEW ls \in SUBSET Rels, \A r \in ls : rl[r] # NoRel,
         NEW us \in SUBSET Use, \A u \in us : \A r \in Refs(u) : rl[r] # NoRel,
         OnlyInPortals(us),
         file' = Saved(ts, fs, rl, ls, us)
  PROVE  /\ FileTypeOK'
         /\ file'.tables = ts /\ file'.fields = fs
         /\ file'.rels = {rl[r] : r \in ls}
         /\ OnlyInPortals(file'.uses)
<1>1. /\ file'.tables = ts /\ file'.fields = fs
      /\ file'.rels = {rl[r] : r \in ls}
      /\ file'.uses = {SavedUseOf(rl, u) : u \in us}
  BY DEF Saved
<1>2. ASSUME NEW u \in us
      PROVE  /\ SavedUseOf(rl, u) \in SavedUse
             /\ u.place # "portal" => SavedUseOf(rl, u).portal = None
             /\ SavedUseOf(rl, u).place = u.place
  <2>1. \A r \in Refs(u) : r \in Rels /\ rl[r].name \in RelNames
    BY RefsAreRels DEF Relationship
  <2>2. /\ NameOf(rl, u.portal) \in RelNames \cup {None}
        /\ NameOf(rl, u.rel) \in RelNames \cup {None}
        /\ NameOf(rl, u.related) \in RelNames \cup {None}
    BY <2>1 DEF NameOf, Refs
  <2>3. u \in Use
    OBVIOUS
  <2>4. SavedUseOf(rl, u) \in SavedUse
    BY <2>2, <2>3 DEF SavedUseOf, Use, SavedUse
  <2>5. /\ SavedUseOf(rl, u).place = u.place
        /\ SavedUseOf(rl, u).portal = NameOf(rl, u.portal)
    BY <2>3 DEF SavedUseOf, Use
  <2> QED
    BY <2>4, <2>5 DEF OnlyInPortals, NameOf
<1>3. \A r \in ls : rl[r] \in Relationship
  OBVIOUS
<1>4. FileTypeOK'
  BY <1>1, <1>2, <1>3 DEF FileTypeOK
<1>5. OnlyInPortals(file'.uses)
  BY <1>1, <1>2 DEF OnlyInPortals
<1> QED
  BY <1>1, <1>4, <1>5

(* Letting go of relationships that nothing holds.                         *)
LEMMA AliveKeeps ==
  ASSUME NEW rl \in [Rels -> Relationship \cup {NoRel}],
         NEW ls, NEW us
  PROVE  /\ Alive(rl, ls, us) \in [Rels -> Relationship \cup {NoRel}]
         /\ \A r \in Rels : r \in ls => Alive(rl, ls, us)[r] = rl[r]
         /\ \A u \in us : \A r \in Refs(u) :
              r \in Rels => Alive(rl, ls, us)[r] = rl[r]
BY DEF Alive

(* A step that ends with the file written, though perhaps before its last  *)
(* change of the layouts or of the list of relationships.                  *)
LEMMA SavedInv ==
  ASSUME SchemaTypeOK', LayoutTypeOK', RelationshipsJoin',
         LayoutsKeepRelationships', AdriftIsUnlisted', OnlyInPortals(uses'),
         NEW rl \in [Rels -> Relationship \cup {NoRel}],
         NEW ls \in SUBSET Rels, \A r \in ls : rl[r] # NoRel,
         NEW us \in SUBSET Use, \A u \in us : \A r \in Refs(u) : rl[r] # NoRel,
         OnlyInPortals(us),
         ls \subseteq listed', listed' \subseteq ls,
         \A r \in ls : rl[r] = rel'[r],
         file' = Saved(tables', fields', rl, ls, us)
  PROVE  Inv'
<1>1. /\ FileTypeOK'
      /\ file'.tables = tables' /\ file'.fields = fields'
      /\ file'.rels = {rl[r] : r \in ls}
      /\ OnlyInPortals(file'.uses)
  <2>1. tables' \in SUBSET Tables /\ fields' \in [Tables -> SUBSET FieldNames]
    BY DEF SchemaTypeOK
  <2> QED
    BY <2>1, SavedFile
<1>2. FileKnowsTheSchema'
  BY <1>1 DEF FileKnowsTheSchema
<1>3. TypeOK'
  BY <1>1 DEF TypeOK, SchemaTypeOK, LayoutTypeOK, FileTypeOK, Refs
<1> QED
  BY <1>1, <1>2, <1>3 DEF Inv, OnlyInPortals

-----------------------------------------------------------------------------
LEMMA InitInv == Init => Inv
<1> SUFFICES ASSUME Init PROVE Inv
  OBVIOUS
<1>1. SchemaTypeOK
  <2>1. PICK rl \in [listed -> Relationship] :
          rel = [r \in Rels |-> IF r \in listed THEN rl[r] ELSE NoRel]
    BY DEF Init
  <2>2. \A r \in listed : rel[r] \in Relationship
    BY <2>1 DEF Init
  <2>3. rel \in [Rels -> Relationship \cup {NoRel}]
    BY <2>1 DEF Init
  <2> QED
    BY <2>2, <2>3, RelationshipIsSomething DEF Init, SchemaTypeOK
<1>2. /\ LayoutTypeOK /\ OnlyInPortals(uses) /\ LayoutsKeepRelationships
      /\ AdriftIsUnlisted
  BY DEF Init, LayoutTypeOK, OnlyInPortals, LayoutsKeepRelationships,
         AdriftIsUnlisted
<1>3. \A r \in listed : rel[r] \in Relationship
  BY <1>1 DEF SchemaTypeOK
<1>4. RelationshipsJoin
  BY <1>1, <1>3 DEF Init, RelationshipsJoin, Example, Relationship, SchemaTypeOK
<1>5. file.uses = {} /\ file.tables = tables /\ file.fields = fields
      /\ file.rels = {rel[r] : r \in listed}
  BY DEF Init, Saved
<1>6. FileTypeOK /\ FileKnowsTheSchema /\ OnlyInPortals(file.uses)
  BY <1>1, <1>3, <1>5
  DEF FileTypeOK, FileKnowsTheSchema, OnlyInPortals, SchemaTypeOK
<1> QED
  BY <1>1, <1>2, <1>4, <1>6, TypeParts DEF Inv

(* A step that ends with all of the document written.                      *)
LEMMA SavedLastInv ==
  ASSUME SchemaTypeOK', LayoutTypeOK', RelationshipsJoin',
         LayoutsKeepRelationships', AdriftIsUnlisted', OnlyInPortals(uses'),
         file' = Saved(tables', fields', rel', listed', uses')
  PROVE  Inv'
<1>1. /\ listed' \in SUBSET Rels /\ \A r \in listed' : rel'[r] # NoRel
      /\ uses' \in SUBSET Use /\ \A u \in uses' : \A r \in Refs(u) : rel'[r] # NoRel
      /\ rel' \in [Rels -> Relationship \cup {NoRel}]
  BY DEF SchemaTypeOK, LayoutTypeOK
<1>2. \A rl, ls, us :
        rl = rel' /\ ls = listed' /\ us = uses' => Inv'
  BY <1>1, SavedInv
<1> QED
  BY <1>2

-----------------------------------------------------------------------------
(* Additions                                                               *)

LEMMA AddTableInv == ASSUME Inv, NEW t \in Tables, AddTable(t) PROVE Inv'
<1>1. SchemaTypeOK /\ LayoutTypeOK /\ OnlyInPortals(uses)
  BY TypeParts DEF Inv
<1>2. SchemaTypeOK' /\ LayoutTypeOK'
  BY <1>1, SchemaAssumption DEF AddTable, SchemaTypeOK, LayoutTypeOK
<1>3. RelationshipsJoin'
  BY <1>1 DEF Inv, RelationshipsJoin, AddTable, SchemaTypeOK
<1>4. LayoutsKeepRelationships' /\ OnlyInPortals(uses') /\ AdriftIsUnlisted'
  BY <1>1 DEF Inv, LayoutsKeepRelationships, AddTable, Walked, AdriftIsUnlisted
<1>5. file' = Saved(tables', fields', rel, listed, uses)
  BY DEF AddTable
<1>6. UNCHANGED <<rel, listed, uses>>
  BY DEF AddTable
<1> QED
  BY <1>1, <1>2, <1>3, <1>4, <1>5, <1>6, SavedInv DEF SchemaTypeOK, LayoutTypeOK

LEMMA AddFieldInv ==
  ASSUME Inv, NEW t \in Tables, NEW f \in FieldNames, AddField(t, f)
  PROVE  Inv'
<1>1. SchemaTypeOK /\ LayoutTypeOK /\ OnlyInPortals(uses)
  BY TypeParts DEF Inv
<1>2. SchemaTypeOK' /\ LayoutTypeOK'
  BY <1>1 DEF AddField, SchemaTypeOK, LayoutTypeOK
<1>3. RelationshipsJoin'
  BY <1>1 DEF Inv, RelationshipsJoin, AddField, SchemaTypeOK
<1>4. LayoutsKeepRelationships' /\ OnlyInPortals(uses') /\ AdriftIsUnlisted'
  BY <1>1 DEF Inv, LayoutsKeepRelationships, AddField, Walked, AdriftIsUnlisted
<1>5. file' = Saved(tables', fields', rel, listed, uses)
  BY DEF AddField
<1>6. UNCHANGED <<rel, listed, uses>>
  BY DEF AddField
<1> QED
  BY <1>1, <1>2, <1>3, <1>4, <1>5, <1>6, SavedInv DEF SchemaTypeOK, LayoutTypeOK

(* An item that is laid out now has the relationships of its table.        *)
LEMMA AddUseInv == ASSUME Inv, NEW u \in Use, AddUse(u) PROVE Inv'
<1>1. SchemaTypeOK /\ LayoutTypeOK /\ OnlyInPortals(uses)
  BY TypeParts DEF Inv
<1>2. SchemaTypeOK' /\ RelationshipsJoin'
  BY <1>1 DEF AddUse, SchemaTypeOK, Inv, RelationshipsJoin
<1>3. \A r \in Refs(u) : r \in listed
  BY DEF AddUse, CanUse, Refs
<1>4. LayoutTypeOK'
  BY <1>1, <1>3 DEF AddUse, SchemaTypeOK, LayoutTypeOK
<1>5. OnlyInPortals(uses')
  BY <1>1 DEF AddUse, CanUse, OnlyInPortals
<1>6. LayoutsKeepRelationships'
  <2>1. ASSUME NEW r \in {u.portal, IF u.place = "portal" THEN None ELSE u.rel}
                           \ {None}
        PROVE  r \in listed /\ rel[r].from = u.table
    BY DEF AddUse, CanUse, ParentTable
  <2> QED
    BY <2>1 DEF AddUse, Inv, LayoutsKeepRelationships, Walked
<1>7. file' = Saved(tables', fields', rel, listed, uses')
      /\ UNCHANGED <<rel, listed, adrift>>
  BY DEF AddUse
<1>8. AdriftIsUnlisted'
  BY <1>7 DEF Inv, AdriftIsUnlisted
<1> QED
  BY <1>1, <1>2, <1>4, <1>5, <1>6, <1>7, <1>8, SavedInv DEF SchemaTypeOK, LayoutTypeOK

(* A portal is given another relationship, or a copy of its own.           *)
LEMMA SetPortalInv ==
  ASSUME Inv, NEW t, NEW p \in Rels, NEW q \in Rels,
         NEW us, us \subseteq Portal(t, p),
         NEW rl \in [Rels -> Relationship \cup {NoRel}],
         \A r \in Rels : rel[r] # NoRel => rl[r] = rel[r],
         rl[q] # NoRel,
         SetPortal(us, q, rl),
         NEW more \in SUBSET (Rels \ listed),
         adrift' = {r \in adrift \cup more : rel'[r] # NoRel},
         us # {} => \/ q \in adrift \cup more
                    \/ \E l \in listed : rl[l] = rl[q] /\ rl[l].from = t
  PROVE  Inv'
<1>1. SchemaTypeOK /\ LayoutTypeOK /\ OnlyInPortals(uses) /\ p # None /\ q # None
  BY TypeParts, SchemaAssumption DEF Inv
<1>2. /\ uses' = (uses \ us) \cup {[u EXCEPT !.portal = q] : u \in us}
      /\ rel' = Alive(rl, listed', uses')
      /\ file' = Saved(tables', fields', rl, listed', uses')
      /\ UNCHANGED <<tables, fields, listed>>
  BY DEF SetPortal
<1>3. \A u \in us : u \in uses /\ u.table = t /\ u.portal = p
  BY DEF Portal
<1>4. \A v \in uses' : \/ v \in uses \ us
                       \/ \E u \in us :
                            /\ v \in Use /\ v.table = t /\ v.portal = q
                            /\ v.rel = u.rel /\ v.related = u.related
                            /\ v.place = u.place /\ v.place = "portal"
  <2>1. ASSUME NEW u \in Use, NEW v, v = [u EXCEPT !.portal = q]
        PROVE  /\ v \in Use /\ v.table = u.table /\ v.portal = q
               /\ v.rel = u.rel /\ v.related = u.related /\ v.place = u.place
    BY <2>1 DEF Use
  <2>2. \A u \in us : u \in Use /\ u.place = "portal"
    BY <1>1, <1>3 DEF LayoutTypeOK, OnlyInPortals
  <2> QED
    BY <1>2, <1>3, <2>1, <2>2
<1>5. \A v \in uses' : v \in Use /\ \A r \in Refs(v) : r \in Rels /\ rl[r] # NoRel
  <2>1. \A u \in uses : u \in Use /\ \A r \in Refs(u) : r \in Rels /\ rl[r] # NoRel
    BY <1>1, RefsAreRels DEF LayoutTypeOK
  <2> QED
    BY <1>3, <1>4, <2>1 DEF Refs
<1>6. /\ rel' \in [Rels -> Relationship \cup {NoRel}]
      /\ \A r \in listed : r \in Rels /\ rel'[r] = rl[r] /\ rl[r] = rel[r]
      /\ \A v \in uses' : \A r \in Refs(v) : rel'[r] = rl[r]
  BY <1>1, <1>2, <1>5, AliveKeeps DEF SchemaTypeOK
<1>7. SchemaTypeOK' /\ RelationshipsJoin'
  <2>1. \A r \in listed' : rel'[r] = rel[r] /\ rel[r] # NoRel
    BY <1>1, <1>2, <1>6 DEF SchemaTypeOK
  <2>2. SchemaTypeOK'
    BY <1>1, <1>2, <1>6, <2>1 DEF SchemaTypeOK
  <2>3. RelationshipsJoin'
    BY <1>2, <2>1 DEF Inv, RelationshipsJoin
  <2> QED
    BY <2>2, <2>3
<1>8. LayoutTypeOK'
  BY <1>1, <1>5, <1>6 DEF LayoutTypeOK
<1>9. OnlyInPortals(uses')
  BY <1>1, <1>4 DEF OnlyInPortals
<1>10. LayoutsKeepRelationships'
  <2> SUFFICES ASSUME NEW v \in uses', Walked(v),
                      NEW r \in {v.portal, IF v.place = "portal" THEN None
                                           ELSE v.rel} \ {None}
               PROVE  Kept(r, v.table)'
    BY DEF LayoutsKeepRelationships, Walked, Kept
  <2>1. r \in Rels /\ rel'[r] = rl[r] /\ rel'[r] # NoRel
    BY <1>5, <1>6 DEF Refs
  <2>2. CASE v \in uses \ us
    <3>1. Kept(r, v.table) /\ rel[r] # NoRel /\ rl[r] = rel[r]
      BY <1>1, <2>1, <2>2
      DEF Inv, LayoutsKeepRelationships, Walked, Kept, LayoutTypeOK, Refs
    <3>2. CASE r \in adrift
      BY <2>1, <3>2 DEF Kept
    <3>3. CASE \E l \in listed : rel[l] = rel[r] /\ rel[l].from = v.table
      <4>1. PICK l \in listed : rel[l] = rel[r] /\ rel[l].from = v.table
        BY <3>3
      <4>2. l \in listed' /\ rel'[l] = rel'[r] /\ rel'[l].from = v.table
        BY <1>2, <1>6, <2>1, <3>1, <4>1
      <4> QED
        BY <4>2 DEF Kept
    <3> QED
      BY <3>1, <3>2, <3>3 DEF Kept
  <2>3. CASE v \notin uses \ us
    <3>1. r = q /\ v.table = t /\ us # {}
      BY <1>4, <2>3
    <3>2. \/ q \in adrift \cup more
          \/ \E l \in listed : rl[l] = rl[q] /\ rl[l].from = t
      BY <3>1
    <3> QED
      BY <1>2, <1>6, <2>1, <3>1, <3>2 DEF Kept
  <2> QED
    BY <2>2, <2>3
<1>11. AdriftIsUnlisted'
  BY <1>2 DEF Inv, AdriftIsUnlisted
<1>12. /\ listed' \in SUBSET Rels /\ uses' \in SUBSET Use
       /\ \A r \in listed' : rl[r] = rel'[r] /\ rl[r] # NoRel
       /\ \A u \in uses' : \A r \in Refs(u) : rl[r] # NoRel
  BY <1>1, <1>2, <1>5, <1>6 DEF SchemaTypeOK
<1> HIDE DEF Inv
<1> QED
  BY <1>2, <1>7, <1>8, <1>9, <1>10, <1>11, <1>12, SavedInv

LEMMA ChoosePortalInv ==
  ASSUME Inv, NEW us, NEW t \in Tables, NEW p \in Rels, NEW q \in Rels,
         ChoosePortal(us, t, p, q)
  PROVE  Inv'
<1>1. /\ us \subseteq Portal(t, p) /\ SetPortal(us, q, rel)
      /\ q \in listed /\ rel[q].from = t
      /\ adrift' = {r \in adrift \cup {} : rel'[r] # NoRel}
  BY DEF ChoosePortal
<1>2. /\ rel \in [Rels -> Relationship \cup {NoRel}]
      /\ rel[q] # NoRel /\ {} \in SUBSET (Rels \ listed)
  BY <1>1, TypeParts DEF Inv, SchemaTypeOK
<1> HIDE DEF Inv
<1>3. \A rl, more : rl = rel /\ more = {} => Inv'
  <2> SUFFICES ASSUME NEW rl, NEW more, rl = rel, more = {} PROVE Inv'
    OBVIOUS
  <2>1. /\ us \subseteq Portal(t, p) /\ SetPortal(us, q, rl)
        /\ q \in listed /\ rl[q].from = t
        /\ adrift' = {r \in adrift \cup more : rel'[r] # NoRel}
        /\ rl \in [Rels -> Relationship \cup {NoRel}] /\ rl[q] # NoRel
        /\ more \in SUBSET (Rels \ listed)
        /\ \A r \in Rels : rel[r] # NoRel => rl[r] = rel[r]
    BY <1>1, <1>2
  <2>2. \E l \in listed : rl[l] = rl[q] /\ rl[l].from = t
    BY <2>1
  <2> QED
    BY <2>1, <2>2, SetPortalInv
<1> QED
  BY <1>3

(* The copy is equal to what the portal had, and adrift if that was.       *)
LEMMA CopyPortalInv ==
  ASSUME Inv, NEW us, NEW t \in Tables, NEW p \in Rels, NEW q \in Rels,
         CopyPortal(us, t, p, q)
  PROVE  Inv'
<1> DEFINE rl == [rel EXCEPT ![q] = rel[p]]
           more == IF p \in adrift THEN {q} ELSE {}
<1>1. /\ us # {} /\ us \subseteq Portal(t, p) /\ SetPortal(us, q, rl)
      /\ rel[q] = NoRel /\ adrift' = {r \in adrift \cup more : rel'[r] # NoRel}
  BY DEF CopyPortal
<1>2. SchemaTypeOK /\ LayoutTypeOK /\ OnlyInPortals(uses) /\ p # None
  BY TypeParts, SchemaAssumption DEF Inv
<1>3. PICK u \in uses : u.table = t /\ u.portal = p /\ u.place = "portal"
  BY <1>1, <1>2 DEF Portal, OnlyInPortals
<1>4. rel[p] # NoRel /\ Kept(p, t)
  BY <1>2, <1>3
  DEF Inv, LayoutsKeepRelationships, Walked, Kept, LayoutTypeOK, Refs
<1>5. /\ rl \in [Rels -> Relationship \cup {NoRel}] /\ rl[q] = rel[p]
      /\ \A r \in Rels : rel[r] # NoRel => rl[r] = rel[r]
      /\ q \notin listed /\ \A l \in listed : l \in Rels /\ rel[l] # NoRel
  BY <1>1, <1>2 DEF SchemaTypeOK
<1>6. more \in SUBSET (Rels \ listed)
  BY <1>5
<1>7. \/ q \in adrift \cup more
      \/ \E l \in listed : rl[l] = rl[q] /\ rl[l].from = t
  BY <1>4, <1>5 DEF Kept
<1> HIDE DEF Inv, rl, more
<1> QED
  BY <1>1, <1>4, <1>5, <1>6, <1>7, SetPortalInv

-----------------------------------------------------------------------------
(* Removals                                                                *)

(* A step that removes items and relationships, and saves before it has    *)
(* removed all of the items: what remains is to join, and to be listed or  *)
(* adrift before.                                                         *)
LEMMA ShrinkInv ==
  ASSUME Inv,
         NEW ts \in SUBSET tables, NEW fs \in [Tables -> SUBSET FieldNames],
         NEW us, uses' \subseteq us, us \subseteq uses,
         tables' = ts, fields' = fs,
         listed' \subseteq listed,
         rel' = Alive(rel, listed', uses'),
         adrift' = {r \in adrift : rel'[r] # NoRel},
         \A r \in listed' :
           /\ rel[r].from \in ts /\ rel[r].fromField \in fs[rel[r].from]
           /\ rel[r].to \in ts /\ rel[r].toField \in fs[rel[r].to],
         \A u \in uses' : Walked(u) =>
           \A r \in {u.portal, IF u.place = "portal" THEN None ELSE u.rel}
                     \ {None} :
             \A q \in listed :
               rel[q] = rel[r] /\ rel[q].from = u.table => q \in listed',
         file' = Saved(ts, fs, rel, listed', us)
  PROVE  Inv'
<1>1. SchemaTypeOK /\ LayoutTypeOK /\ OnlyInPortals(uses)
  BY TypeParts DEF Inv
<1>2. /\ rel' \in [Rels -> Relationship \cup {NoRel}]
      /\ \A r \in listed' : rel'[r] = rel[r]
      /\ \A u \in uses' : \A r \in Refs(u) : r \in Rels /\ rel'[r] = rel[r]
  BY <1>1, AliveKeeps, RefsAreRels DEF SchemaTypeOK, LayoutTypeOK
<1>3. SchemaTypeOK'
  BY <1>1, <1>2 DEF SchemaTypeOK
<1>4. LayoutTypeOK'
  BY <1>1, <1>2 DEF LayoutTypeOK
<1>5. RelationshipsJoin'
  BY <1>2 DEF RelationshipsJoin
<1>6. OnlyInPortals(uses') /\ OnlyInPortals(us)
  BY <1>1 DEF OnlyInPortals
<1>7. LayoutsKeepRelationships'
  <2> SUFFICES ASSUME NEW u \in uses', Walked(u),
                      NEW r \in {u.portal, IF u.place = "portal" THEN None
                                           ELSE u.rel} \ {None}
               PROVE  Kept(r, u.table)'
    BY DEF LayoutsKeepRelationships, Walked, Kept
  <2>1. Kept(r, u.table)
    BY DEF Inv, LayoutsKeepRelationships, Kept
  <2>2. r \in Refs(u) /\ rel[r] # NoRel /\ rel'[r] = rel[r]
    BY <1>1, <1>2 DEF Refs, LayoutTypeOK
  <2>3. \A q \in listed :
          rel[q] = rel[r] /\ rel[q].from = u.table => q \in listed'
    OBVIOUS
  <2>4. CASE r \in adrift
    BY <1>1, <2>2, <2>4 DEF Kept
  <2>5. CASE \E q \in listed : rel[q] = rel[r] /\ rel[q].from = u.table
    BY <1>2, <2>2, <2>3, <2>5 DEF Kept
  <2> QED
    BY <2>1, <2>4, <2>5 DEF Kept
<1>8. AdriftIsUnlisted'
  BY DEF Inv, AdriftIsUnlisted
<1> QED
  BY <1>1, <1>2, <1>3, <1>4, <1>5, <1>6, <1>7, <1>8, SavedInv
  DEF SchemaTypeOK, LayoutTypeOK

LEMMA RemoveUseInv == ASSUME Inv, NEW u \in uses, RemoveUse(u) PROVE Inv'
<1>1. SchemaTypeOK /\ LayoutTypeOK /\ RelationshipsJoin
  BY TypeParts DEF Inv
<1>2. /\ uses' = uses \ {u} /\ rel' = Alive(rel, listed', uses')
      /\ adrift' = {r \in adrift : rel'[r] # NoRel}
      /\ file' = Saved(tables, fields, rel, listed', uses')
      /\ UNCHANGED <<tables, fields, listed>>
  BY DEF RemoveUse
<1>3. \A r \in listed' :
        /\ rel[r].from \in tables /\ rel[r].fromField \in fields[rel[r].from]
        /\ rel[r].to \in tables /\ rel[r].toField \in fields[rel[r].to]
  BY <1>1, <1>2 DEF RelationshipsJoin
<1>4. fields \in [Tables -> SUBSET FieldNames]
  BY <1>1 DEF SchemaTypeOK
<1> HIDE DEF Inv
<1> QED
  BY <1>2, <1>3, <1>4, ShrinkInv

(* Removing relationships: their items leave the layouts of the table they *)
(* start from, which is where their items are.                             *)
LEMMA RemoveInv ==
  ASSUME Inv,
         NEW ts \in SUBSET tables, NEW fs \in [Tables -> SUBSET FieldNames],
         NEW us \in SUBSET uses, NEW doomed \in SUBSET listed, NEW cleaned,
         Remove(ts, fs, us, doomed, cleaned),
         \A u \in us : u.table \in tables => u.table \in ts,
         \A r \in listed \ doomed : rel[r].from \in ts =>
           /\ rel[r].fromField \in fs[rel[r].from]
           /\ rel[r].to \in ts /\ rel[r].toField \in fs[rel[r].to]
  PROVE  Inv'
<1>1. SchemaTypeOK /\ LayoutTypeOK /\ RelationshipsJoin
  BY TypeParts DEF Inv
<1>2. /\ tables' = ts /\ fields' = fs
      /\ listed' = {r \in listed \ doomed : rel[r].from \in ts}
      /\ uses' = us \ (UsesOfAny(us, doomed) \cup cleaned)
      /\ rel' = Alive(rel, listed', uses')
      /\ adrift' = {r \in adrift : rel'[r] # NoRel}
  BY DEF Remove
<1>3. \A r \in listed' :
        /\ rel[r].from \in ts /\ rel[r].fromField \in fs[rel[r].from]
        /\ rel[r].to \in ts /\ rel[r].toField \in fs[rel[r].to]
  BY <1>2
<1>4. \A u \in uses' : Walked(u) =>
        \A r \in {u.portal, IF u.place = "portal" THEN None ELSE u.rel}
                  \ {None} :
          \A q \in listed :
            rel[q] = rel[r] /\ rel[q].from = u.table => q \in listed'
  <2> SUFFICES ASSUME NEW u \in uses', Walked(u),
                      NEW r \in {u.portal, IF u.place = "portal" THEN None
                                           ELSE u.rel} \ {None},
                      NEW q \in listed, rel[q] = rel[r],
                      rel[q].from = u.table
               PROVE  q \in listed'
    BY DEF Walked
  <2>1. u \in us /\ u \in uses
    BY <1>2
  <2>2. u.table \in ts
    BY <1>1, <2>1 DEF RelationshipsJoin
  <2>3. r \in {u.portal, u.rel} \ {None}
    OBVIOUS
  <2>4. q \notin doomed
    BY <1>2, <2>1, <2>2, <2>3 DEF UsesOfAny, UsesOf
  <2> QED
    BY <1>2, <2>2, <2>4
<1>5. PICK left \in SUBSET us :
        uses' \subseteq left /\ file' = Saved(ts, fs, rel, listed', left)
  <2>1. uses' \subseteq us
    BY <1>2
  <2>2. CASE file' = Saved(ts, fs, rel, listed', us)
    BY <2>1, <2>2
  <2>3. CASE \E early \in SUBSET (us \ uses') :
               file' = Saved(ts, fs, rel, listed', us \ early)
    BY <2>1, <2>3
  <2> QED
    BY <2>2, <2>3 DEF Remove
<1>6. listed' \subseteq listed /\ left \subseteq uses
  BY <1>2
<1> HIDE DEF Inv
<1> QED
  BY <1>2, <1>3, <1>4, <1>5, <1>6, ShrinkInv

LEMMA RemoveRelationshipInv ==
  ASSUME Inv, NEW r \in Rels, RemoveRelationship(r)
  PROVE  Inv'
<1>1. tables \in SUBSET tables /\ fields \in [Tables -> SUBSET FieldNames]
  BY DEF Inv, TypeOK
<1>2. r \in listed /\ Remove(tables, fields, uses, {r}, {})
  BY DEF RemoveRelationship
<1>3. \A q \in listed \ {r} : rel[q].from \in tables =>
        /\ rel[q].fromField \in fields[rel[q].from]
        /\ rel[q].to \in tables /\ rel[q].toField \in fields[rel[q].to]
  BY DEF Inv, RelationshipsJoin
<1> HIDE DEF Inv
<1> QED
  BY <1>1, <1>2, <1>3, RemoveInv

(* The relationships that join the field are among those removed.          *)
LEMMA RemoveFieldInv ==
  ASSUME Inv, NEW t \in Tables, NEW f \in FieldNames, RemoveField(t, f)
  PROVE  Inv'
<1> DEFINE fs == [fields EXCEPT ![t] = @ \ {f}]
<1>1. /\ t \in tables /\ fields \in [Tables -> SUBSET FieldNames]
      /\ tables \subseteq Tables
  BY DEF Inv, TypeOK, RemoveField
<1>2. fs \in [Tables -> SUBSET FieldNames]
  BY <1>1
<1>3. Remove(tables, fs, uses, Joining(t, f), FieldUses(uses, t, f))
  BY DEF RemoveField
<1>4. \A tt \in Tables : \A ff : (tt # t \/ ff # f) /\ ff \in fields[tt]
                                 => ff \in fs[tt]
  BY <1>1
<1> HIDE DEF fs
<1>5. \A r \in listed \ Joining(t, f) : rel[r].from \in tables =>
        /\ rel[r].fromField \in fs[rel[r].from]
        /\ rel[r].to \in tables /\ rel[r].toField \in fs[rel[r].to]
  BY <1>1, <1>4 DEF Inv, RelationshipsJoin, Joining
<1>6. Joining(t, f) \in SUBSET listed
  BY DEF Joining
<1> HIDE DEF Inv
<1> QED
  BY <1>2, <1>3, <1>5, <1>6, RemoveInv

LEMMA RemoveTableInv ==
  ASSUME Inv, NEW t \in Tables, RemoveTable(t)
  PROVE  Inv'
<1> DEFINE fs == [fields EXCEPT ![t] = {}]
           doomed == {r \in listed : rel[r].to = t /\ rel[r].from # t}
           us == {u \in uses : u.table # t}
<1>1. /\ t \in tables /\ fields \in [Tables -> SUBSET FieldNames]
      /\ tables \subseteq Tables
  BY DEF Inv, TypeOK, RemoveTable
<1>2. fs \in [Tables -> SUBSET FieldNames]
  BY <1>1
<1>3. Remove(tables \ {t}, fs, us, doomed, {})
  BY DEF RemoveTable
<1>4. \A tt \in Tables \ {t} : fs[tt] = fields[tt]
  BY <1>1
<1> HIDE DEF fs
<1>5. \A r \in listed \ doomed : rel[r].from \in tables \ {t} =>
        /\ rel[r].fromField \in fs[rel[r].from]
        /\ rel[r].to \in tables \ {t} /\ rel[r].toField \in fs[rel[r].to]
  BY <1>1, <1>4 DEF Inv, RelationshipsJoin
<1>6. /\ doomed \in SUBSET listed /\ us \in SUBSET uses
      /\ tables \ {t} \in SUBSET tables
      /\ \A u \in us : u.table \in tables => u.table \in tables \ {t}
  OBVIOUS
<1> HIDE DEF Inv, doomed, us
<1> QED
  BY <1>2, <1>3, <1>5, <1>6, RemoveInv

(* The dialog empties the list of a table: what layouts hold of it is      *)
(* dropped.                                                                *)
LEMMA CloseRelationshipsInv ==
  ASSUME Inv, NEW t \in Tables, NEW renamed \in [Rels -> RelNames],
         CloseRelationships(t, renamed)
  PROVE  Inv'
<1> DEFINE gone == {r \in listed : rel[r].from = t}
           named == [r \in Rels |-> IF r \in gone
                                      THEN [rel[r] EXCEPT !.name = renamed[r]]
                                      ELSE rel[r]]
<1>1. SchemaTypeOK /\ LayoutTypeOK /\ OnlyInPortals(uses)
  BY TypeParts DEF Inv
<1>2. /\ listed' = listed \ gone
      /\ rel' = Alive(named, listed', uses)
      /\ adrift' = {r \in adrift \cup Equals(gone) : rel'[r] # NoRel}
      /\ file' = Saved(tables, fields, named, listed', uses)
      /\ UNCHANGED <<tables, fields, uses>>
  BY DEF CloseRelationships
<1>3. \A r \in gone : [rel[r] EXCEPT !.name = renamed[r]] \in Relationship
  BY <1>1 DEF Relationship, SchemaTypeOK
<1>4. /\ named \in [Rels -> Relationship \cup {NoRel}]
      /\ \A r \in Rels : r \notin gone => named[r] = rel[r]
      /\ \A r \in gone : r \in Rels /\ named[r] \in Relationship
      /\ gone \subseteq listed
  BY <1>1, <1>3 DEF SchemaTypeOK
<1> HIDE DEF named, gone
<1>5. /\ rel' \in [Rels -> Relationship \cup {NoRel}]
      /\ \A r \in listed' : rel'[r] = named[r]
      /\ \A u \in uses : \A r \in Refs(u) : r \in Rels /\ rel'[r] = named[r]
  BY <1>1, <1>2, <1>4, AliveKeeps, RefsAreRels DEF SchemaTypeOK, LayoutTypeOK
<1>6. \A r \in listed' : r \in listed /\ r \in Rels /\ rel'[r] = rel[r]
  BY <1>1, <1>2, <1>4, <1>5 DEF SchemaTypeOK
<1>7. SchemaTypeOK'
  BY <1>1, <1>2, <1>5, <1>6 DEF SchemaTypeOK
<1>8. \A u \in uses : \A r \in Refs(u) : rel'[r] # NoRel /\ named[r] # NoRel
  BY <1>1, <1>4, <1>5, RelationshipIsSomething DEF LayoutTypeOK
<1>9. LayoutTypeOK'
  BY <1>1, <1>2, <1>4, <1>8 DEF LayoutTypeOK, SchemaTypeOK, Equals
<1>10. RelationshipsJoin'
  BY <1>2, <1>6 DEF Inv, RelationshipsJoin
<1>11. LayoutsKeepRelationships'
  <2> SUFFICES ASSUME NEW u \in uses, Walked(u),
                      NEW r \in {u.portal, IF u.place = "portal" THEN None
                                           ELSE u.rel} \ {None}
               PROVE  Kept(r, u.table)'
    BY <1>2 DEF LayoutsKeepRelationships, Walked, Kept
  <2>1. Kept(r, u.table)
    BY DEF Inv, LayoutsKeepRelationships, Kept
  <2>2. r \in Refs(u)
    BY DEF Refs
  <2>3. /\ r \in Rels /\ rel'[r] = named[r] /\ rel'[r] # NoRel
    BY <1>5, <1>8, <2>2
  <2>4. CASE r \in adrift \cup Equals(gone)
    BY <1>2, <2>3, <2>4 DEF Kept
  <2>5. CASE r \notin adrift \cup Equals(gone)
    <3>1. PICK q \in listed : rel[q] = rel[r] /\ rel[q].from = u.table
      BY <2>1, <2>5 DEF Kept
    <3>2. q \notin gone /\ r \notin gone
      BY <2>3, <2>5, <3>1 DEF Equals
    <3>3. q \in listed' /\ rel'[q] = rel[q] /\ rel'[r] = rel[r]
      BY <1>2, <1>4, <1>6, <2>3, <3>1, <3>2
    <3> QED
      BY <3>1, <3>3 DEF Kept
  <2> QED
    BY <2>4, <2>5
<1>12. AdriftIsUnlisted'
  <2>1. \A r \in listed : r \in Equals(gone) => r \in gone
    BY DEF Equals, gone
  <2> QED
    BY <1>2, <2>1 DEF Inv, AdriftIsUnlisted
<1>13. listed' \in SUBSET Rels /\ \A r \in listed' : named[r] # NoRel
  BY <1>5, <1>7 DEF SchemaTypeOK
<1>14. /\ uses \in SUBSET Use /\ OnlyInPortals(uses) /\ OnlyInPortals(uses')
       /\ file' = Saved(tables', fields', named, listed', uses)
       /\ \A r \in listed' : named[r] = rel'[r]
       /\ \A u \in uses : \A r \in Refs(u) : named[r] # NoRel
  BY <1>1, <1>2, <1>5, <1>8 DEF LayoutTypeOK
<1> HIDE DEF Inv
<1> QED
  BY <1>4, <1>7, <1>9, <1>10, <1>11, <1>12, <1>13, <1>14, SavedInv

-----------------------------------------------------------------------------
(* Renaming                                                                *)

LEMMA RenameFieldInv ==
  ASSUME Inv, NEW t \in Tables, NEW f \in FieldNames, NEW g \in FieldNames,
         RenameField(t, f, g)
  PROVE  Inv'
<1> DEFINE Field(tt, ff) == IF tt = t /\ ff = f THEN g ELSE ff
           New(r) == [rel[r] EXCEPT !.fromField = Field(rel[r].from, @),
                                    !.toField = Field(rel[r].to, @)]
<1>1. SchemaTypeOK /\ LayoutTypeOK /\ OnlyInPortals(uses)
  BY TypeParts DEF Inv
<1>2. /\ t \in tables
      /\ fields' = [fields EXCEPT ![t] = (@ \ {f}) \cup {g}]
      /\ rel' = [r \in Rels |-> IF r \in listed THEN New(r) ELSE rel[r]]
      /\ uses' = {IF u.name = f /\ Renames(u, t) THEN [u EXCEPT !.name = g]
                  ELSE u : u \in uses}
      /\ file' = Saved(tables, fields', rel', listed, uses')
      /\ adrift' = adrift \cup LeftBehind(rel')
      /\ UNCHANGED <<tables, listed>>
  BY DEF RenameField
<1>3. ASSUME NEW r \in listed
      PROVE  /\ New(r) \in Relationship
             /\ New(r).from = rel[r].from /\ New(r).to = rel[r].to
             /\ New(r).fromField = Field(rel[r].from, rel[r].fromField)
             /\ New(r).toField = Field(rel[r].to, rel[r].toField)
  <2>1. rel[r] \in Relationship
    BY <1>1 DEF SchemaTypeOK
  <2> QED
    BY <2>1 DEF Relationship
<1> HIDE DEF New
<1>4. /\ rel' \in [Rels -> Relationship \cup {NoRel}]
      /\ \A r \in Rels : rel'[r] = IF r \in listed THEN New(r) ELSE rel[r]
      /\ \A r \in Rels : rel[r] # NoRel => rel'[r] # NoRel
  BY <1>1, <1>2, <1>3, RelationshipIsSomething DEF SchemaTypeOK
<1>5. SchemaTypeOK'
  BY <1>1, <1>2, <1>4 DEF SchemaTypeOK
<1>6. \A tt \in Tables, ff \in FieldNames :
        ff \in fields[tt] => Field(tt, ff) \in fields'[tt]
  BY <1>1, <1>2 DEF SchemaTypeOK
<1>7. RelationshipsJoin'
  <2>1. ASSUME NEW r \in listed
        PROVE  /\ rel[r] \in Relationship
               /\ rel[r].from \in tables /\ rel[r].fromField \in fields[rel[r].from]
               /\ rel[r].to \in tables /\ rel[r].toField \in fields[rel[r].to]
               /\ rel[r].from \in Tables /\ rel[r].fromField \in FieldNames
               /\ rel[r].to \in Tables /\ rel[r].toField \in FieldNames
    BY <1>1 DEF SchemaTypeOK, Inv, RelationshipsJoin, Relationship
  <2>2. \A r \in listed : rel'[r] = New(r)
    BY <1>1, <1>4 DEF SchemaTypeOK
  <2> HIDE DEF Field
  <2> QED
    BY <1>2, <1>3, <1>6, <2>1, <2>2 DEF RelationshipsJoin
<1>8. \A v \in uses' : \E u \in uses :
         /\ v \in Use
         /\ v.table = u.table /\ v.place = u.place /\ v.portal = u.portal
         /\ v.rel = u.rel /\ v.related = u.related
  <2>1. ASSUME NEW u \in Use, NEW w, w = [u EXCEPT !.name = g]
        PROVE  /\ w \in Use
               /\ w.table = u.table /\ w.place = u.place /\ w.portal = u.portal
               /\ w.rel = u.rel /\ w.related = u.related
    BY <2>1 DEF Use
  <2> QED
    BY <1>1, <1>2, <2>1 DEF LayoutTypeOK
<1>9. LayoutTypeOK'
  <2>1. \A v \in uses' : \A r \in Refs(v) : r \in Rels /\ rel[r] # NoRel
    BY <1>1, <1>8, RefsAreRels DEF LayoutTypeOK, Refs
  <2> QED
    BY <1>1, <1>2, <1>4, <1>8, <2>1 DEF LayoutTypeOK, LeftBehind, Equals
<1>10. OnlyInPortals(uses')
  BY <1>1, <1>8 DEF OnlyInPortals
<1>11. \A r \in listed : rel'[r].from = rel[r].from
  BY <1>1, <1>3, <1>4 DEF SchemaTypeOK
<1>12. LayoutsKeepRelationships'
  <2> SUFFICES ASSUME NEW v \in uses', Walked(v),
                      NEW r \in {v.portal, IF v.place = "portal" THEN None
                                           ELSE v.rel} \ {None}
               PROVE  Kept(r, v.table)'
    BY DEF LayoutsKeepRelationships, Walked, Kept
  <2>1. PICK u \in uses :
          /\ v.table = u.table /\ v.place = u.place /\ v.portal = u.portal
          /\ v.rel = u.rel
    BY <1>8
  <2>2. Kept(r, u.table)
    BY <2>1 DEF Inv, LayoutsKeepRelationships, Walked, Kept
  <2>5. r \in Rels
    BY <1>1, <2>1, RefsAreRels DEF LayoutTypeOK, Refs
  <2>3. CASE r \in adrift
    BY <1>2, <2>3 DEF Kept
  <2>4. CASE \E q \in listed : rel[q] = rel[r] /\ rel[q].from = u.table
    <3>1. PICK q \in listed : rel[q] = rel[r] /\ rel[q].from = u.table
      BY <2>4
    <3>2. CASE r \in listed
      BY <1>2, <1>11, <2>1, <3>1, <3>2 DEF Kept
    <3>3. CASE r \notin listed /\ rel'[q] # rel[q]
      BY <1>1, <1>2, <2>5, <3>1, <3>3 DEF Kept, LeftBehind, Equals
    <3>4. CASE r \notin listed /\ rel'[q] = rel[q]
      BY <1>2, <1>4, <2>1, <2>5, <3>1, <3>4 DEF Kept
    <3> QED
      BY <3>2, <3>3, <3>4
  <2> QED
    BY <2>2, <2>3, <2>4 DEF Kept
<1>13. AdriftIsUnlisted'
  BY <1>1, <1>2, <1>4
  DEF Inv, AdriftIsUnlisted, LayoutTypeOK, SchemaTypeOK, LeftBehind, Equals
<1>14. file' = Saved(tables', fields', rel', listed', uses')
  BY <1>2
<1> HIDE DEF Inv
<1> QED
  BY <1>5, <1>7, <1>9, <1>10, <1>12, <1>13, <1>14, SavedLastInv

LEMMA RenameTableInv ==
  ASSUME Inv, NEW t \in Tables, NEW n \in Tables, RenameTable(t, n)
  PROVE  Inv'
<1> DEFINE Table(tt) == IF tt = t THEN n ELSE tt
           New(r) == [rel[r] EXCEPT !.from = Table(@), !.to = Table(@)]
<1>1. SchemaTypeOK /\ LayoutTypeOK /\ OnlyInPortals(uses)
  BY TypeParts DEF Inv
<1>2. /\ t \in tables /\ n \notin tables
      /\ tables' = (tables \ {t}) \cup {n}
      /\ fields' = [fields EXCEPT ![n] = fields[t], ![t] = {}]
      /\ rel' = [r \in Rels |-> IF r \in listed THEN New(r) ELSE rel[r]]
      /\ uses' = {[u EXCEPT !.table = Table(@)] : u \in uses}
      /\ file' = Saved(tables', fields', rel', listed', uses')
      /\ adrift' = adrift \cup LeftBehind(rel')
      /\ UNCHANGED listed
  BY DEF RenameTable
<1>3. ASSUME NEW r \in listed
      PROVE  /\ New(r) \in Relationship
             /\ New(r).from = Table(rel[r].from) /\ New(r).to = Table(rel[r].to)
             /\ New(r).fromField = rel[r].fromField
             /\ New(r).toField = rel[r].toField
  <2>1. rel[r] \in Relationship
    BY <1>1 DEF SchemaTypeOK
  <2> QED
    BY <2>1 DEF Relationship
<1> HIDE DEF New
<1>4. /\ rel' \in [Rels -> Relationship \cup {NoRel}]
      /\ \A r \in Rels : rel'[r] = IF r \in listed THEN New(r) ELSE rel[r]
      /\ \A r \in Rels : rel[r] # NoRel => rel'[r] # NoRel
      /\ \A r \in listed : r \in Rels /\ rel'[r] = New(r)
  BY <1>1, <1>2, <1>3, RelationshipIsSomething DEF SchemaTypeOK
<1>5. SchemaTypeOK'
  BY <1>1, <1>2, <1>4 DEF SchemaTypeOK
<1>6. \A tt \in tables :
        Table(tt) \in tables' /\ fields'[Table(tt)] = fields[tt]
  BY <1>1, <1>2 DEF SchemaTypeOK
<1>7. RelationshipsJoin'
  <2> SUFFICES ASSUME NEW r \in listed
               PROVE  /\ rel'[r].from \in tables'
                      /\ rel'[r].fromField \in fields'[rel'[r].from]
                      /\ rel'[r].to \in tables'
                      /\ rel'[r].toField \in fields'[rel'[r].to]
    BY <1>2 DEF RelationshipsJoin
  <2>1. /\ rel[r].from \in tables /\ rel[r].fromField \in fields[rel[r].from]
        /\ rel[r].to \in tables /\ rel[r].toField \in fields[rel[r].to]
    BY DEF Inv, RelationshipsJoin
  <2>2. /\ rel'[r].from = Table(rel[r].from) /\ rel'[r].to = Table(rel[r].to)
        /\ rel'[r].fromField = rel[r].fromField
        /\ rel'[r].toField = rel[r].toField
    BY <1>3, <1>4
  <2> HIDE DEF Table
  <2> QED
    BY <1>6, <2>1, <2>2
<1>8. \A v \in uses' : \E u \in uses :
         /\ v \in Use
         /\ v.table = Table(u.table) /\ v.place = u.place
         /\ v.portal = u.portal /\ v.rel = u.rel /\ v.related = u.related
  <2>1. ASSUME NEW u \in Use, NEW w, w = [u EXCEPT !.table = Table(@)]
        PROVE  /\ w \in Use
               /\ w.table = Table(u.table) /\ w.place = u.place
               /\ w.portal = u.portal /\ w.rel = u.rel /\ w.related = u.related
    BY <2>1 DEF Use
  <2> QED
    BY <1>1, <1>2, <2>1 DEF LayoutTypeOK
<1>9. LayoutTypeOK'
  <2>1. \A v \in uses' : \A r \in Refs(v) : r \in Rels /\ rel[r] # NoRel
    BY <1>1, <1>8, RefsAreRels DEF LayoutTypeOK, Refs
  <2> QED
    BY <1>1, <1>2, <1>4, <1>8, <2>1 DEF LayoutTypeOK, LeftBehind, Equals
<1>10. OnlyInPortals(uses')
  BY <1>1, <1>8 DEF OnlyInPortals
<1>11. LayoutsKeepRelationships'
  <2> SUFFICES ASSUME NEW v \in uses', Walked(v),
                      NEW r \in {v.portal, IF v.place = "portal" THEN None
                                           ELSE v.rel} \ {None}
               PROVE  Kept(r, v.table)'
    BY DEF LayoutsKeepRelationships, Walked, Kept
  <2>1. PICK u \in uses :
          /\ v.table = Table(u.table) /\ v.place = u.place
          /\ v.portal = u.portal /\ v.rel = u.rel
    BY <1>8
  <2>2. Kept(r, u.table)
    BY <2>1 DEF Inv, LayoutsKeepRelationships, Walked, Kept
  <2>5. r \in Rels
    BY <1>1, <2>1, RefsAreRels DEF LayoutTypeOK, Refs
  <2> HIDE DEF Table
  <2>3. CASE r \in adrift
    BY <1>2, <2>3 DEF Kept
  <2>4. CASE \E q \in listed : rel[q] = rel[r] /\ rel[q].from = u.table
    <3>1. PICK q \in listed : rel[q] = rel[r] /\ rel[q].from = u.table
      BY <2>4
    <3>2. rel'[q].from = v.table
      BY <1>3, <1>4, <2>1, <3>1
    <3>3. CASE r \in listed
      BY <1>2, <1>3, <1>4, <2>1, <3>1, <3>3 DEF Kept
    <3>4. CASE r \notin listed /\ rel'[q] # rel[q]
      BY <1>1, <1>2, <2>5, <3>1, <3>4 DEF Kept, LeftBehind, Equals
    <3>5. CASE r \notin listed /\ rel'[q] = rel[q]
      BY <1>2, <1>4, <2>5, <3>1, <3>2, <3>5 DEF Kept
    <3> QED
      BY <3>3, <3>4, <3>5
  <2> QED
    BY <2>2, <2>3, <2>4 DEF Kept
<1>12. AdriftIsUnlisted'
  BY <1>1, <1>2, <1>4
  DEF Inv, AdriftIsUnlisted, LayoutTypeOK, SchemaTypeOK, LeftBehind, Equals
<1>13. file' = Saved(tables', fields', rel', listed', uses')
  BY <1>2
<1> HIDE DEF Inv
<1> QED
  BY <1>5, <1>7, <1>9, <1>10, <1>11, <1>12, <1>13, SavedLastInv

LEMMA TranslateInv ==
  ASSUME Inv, NEW r \in Rels, NEW title \in Titles, Translate(r, title)
  PROVE  Inv'
<1>1. SchemaTypeOK /\ LayoutTypeOK /\ OnlyInPortals(uses)
  BY TypeParts DEF Inv
<1>2. /\ r \in listed /\ rel' = [rel EXCEPT ![r].title = title]
      /\ adrift' = adrift \cup LeftBehind(rel')
      /\ file' = Saved(tables', fields', rel', listed', uses')
      /\ UNCHANGED <<tables, fields, listed, uses>>
  BY DEF Translate
<1>3. /\ [rel[r] EXCEPT !.title = title] \in Relationship
      /\ [rel[r] EXCEPT !.title = title].from = rel[r].from
      /\ [rel[r] EXCEPT !.title = title].fromField = rel[r].fromField
      /\ [rel[r] EXCEPT !.title = title].to = rel[r].to
      /\ [rel[r] EXCEPT !.title = title].toField = rel[r].toField
  <2>1. rel[r] \in Relationship
    BY <1>1, <1>2 DEF SchemaTypeOK
  <2> QED
    BY <2>1 DEF Relationship
<1>4. /\ rel' \in [Rels -> Relationship \cup {NoRel}]
      /\ \A q \in Rels \ {r} : rel'[q] = rel[q]
      /\ \A q \in Rels : rel[q] # NoRel => rel'[q] # NoRel
      /\ \A q \in listed : /\ q \in Rels
                           /\ rel'[q].from = rel[q].from
                           /\ rel'[q].fromField = rel[q].fromField
                           /\ rel'[q].to = rel[q].to
                           /\ rel'[q].toField = rel[q].toField
  <2>1. rel'[r] = [rel[r] EXCEPT !.title = title] /\ \A q \in Rels \ {r} : rel'[q] = rel[q]
    BY <1>1, <1>2 DEF SchemaTypeOK
  <2> QED
    BY <1>1, <1>2, <1>3, <2>1, RelationshipIsSomething DEF SchemaTypeOK
<1>5. SchemaTypeOK'
  BY <1>1, <1>2, <1>4 DEF SchemaTypeOK
<1>6. RelationshipsJoin'
  BY <1>2, <1>4 DEF Inv, RelationshipsJoin
<1>7. LayoutTypeOK'
  <2>1. \A u \in uses : \A q \in Refs(u) : q \in Rels /\ rel[q] # NoRel
    BY <1>1, RefsAreRels DEF LayoutTypeOK
  <2> QED
    BY <1>1, <1>2, <1>4, <2>1 DEF LayoutTypeOK, LeftBehind, Equals
<1>8. LayoutsKeepRelationships'
  <2> SUFFICES ASSUME NEW u \in uses, Walked(u),
                      NEW p \in {u.portal, IF u.place = "portal" THEN None
                                           ELSE u.rel} \ {None}
               PROVE  Kept(p, u.table)'
    BY <1>2 DEF LayoutsKeepRelationships, Walked, Kept
  <2>1. Kept(p, u.table)
    BY DEF Inv, LayoutsKeepRelationships, Kept
  <2>2. p \in Rels
    BY <1>1, RefsAreRels DEF LayoutTypeOK, Refs
  <2>3. CASE p \in adrift
    BY <1>2, <2>3 DEF Kept
  <2>4. CASE \E q \in listed : rel[q] = rel[p] /\ rel[q].from = u.table
    <3>1. PICK q \in listed : rel[q] = rel[p] /\ rel[q].from = u.table
      BY <2>4
    <3>2. CASE p \in listed
      BY <1>2, <1>4, <3>1, <3>2 DEF Kept
    <3>3. CASE p \notin listed /\ rel'[q] # rel[q]
      BY <1>2, <2>2, <3>1, <3>3 DEF Kept, LeftBehind, Equals
    <3>4. CASE p \notin listed /\ rel'[q] = rel[q]
      BY <1>2, <1>4, <2>2, <3>1, <3>4 DEF Kept
    <3> QED
      BY <3>2, <3>3, <3>4
  <2> QED
    BY <2>1, <2>3, <2>4 DEF Kept
<1>9. AdriftIsUnlisted'
  BY <1>1, <1>2, <1>4
  DEF Inv, AdriftIsUnlisted, LayoutTypeOK, SchemaTypeOK, LeftBehind, Equals
<1>10. OnlyInPortals(uses')
  BY <1>1, <1>2
<1> HIDE DEF Inv
<1> QED
  BY <1>2, <1>5, <1>6, <1>7, <1>8, <1>9, <1>10, SavedLastInv

-----------------------------------------------------------------------------
(* Loading                                                                 *)

(* Document::get_relationship() finds one of the table, or none.           *)
LEMMA FindFinds ==
  ASSUME NEW rl, NEW ls, NEW t, NEW n
  PROVE  LET r == Find(rl, ls, t, n)
         IN  r = None \/ (r \in ls /\ rl[r].from = t /\ rl[r].name = n)
<1> DEFINE found == {r \in ls : rl[r].from = t /\ rl[r].name = n}
<1>1. CASE found = {}
  BY <1>1 DEF Find
<1>2. CASE found # {}
  <2>1. (CHOOSE r \in found : TRUE) \in found
    BY <1>2
  <2>2. Find(rl, ls, t, n) = CHOOSE r \in found : TRUE
    BY <1>2 DEF Find
  <2> QED
    BY <2>1, <2>2
<1> QED
  BY <1>1, <1>2

(* An item that is loaded holds relationships that were loaded before, and *)
(* those of its table.                                                     *)
LEMMA LoadedUseIsTyped ==
  ASSUME NEW ls \in SUBSET Rels, NEW rl \in [ls -> Relationship],
         NEW s \in SavedUse, s.place # "portal" => s.portal = None,
         NEW u, u = LoadedUse(rl, ls, s)
  PROVE  /\ u \in Use /\ Refs(u) \subseteq ls
         /\ u.place # "portal" => u.portal = None
         /\ u.portal # None => rl[u.portal].from = u.table
         /\ u.place # "portal" /\ u.rel # None => rl[u.rel].from = u.table
<1> DEFINE portal == Find(rl, ls, s.table, s.portal)
           parent == IF portal # None THEN rl[portal].to ELSE s.table
           direct == Find(rl, ls, parent, s.rel)
           related == IF direct = None THEN None
                      ELSE Find(rl, ls, rl[direct].to, s.related)
<1>1. portal = None \/ (portal \in ls /\ rl[portal].from = s.table
                                     /\ rl[portal].name = s.portal)
  BY FindFinds
<1>2. direct = None \/ (direct \in ls /\ rl[direct].from = parent)
  BY FindFinds
<1>3. related = None \/ related \in ls
  BY FindFinds
<1>4. u = [s EXCEPT !.portal = portal, !.rel = direct, !.related = related]
  BY DEF LoadedUse
<1>5. s.portal = None => portal = None
  BY <1>1, SchemaAssumption DEF Relationship
<1>6. /\ portal \in Rels \cup {None} /\ direct \in Rels \cup {None}
      /\ related \in Rels \cup {None}
  BY <1>1, <1>2, <1>3
<1> HIDE DEF portal, direct, related
<1>7. /\ u \in Use /\ u.portal = portal /\ u.rel = direct
      /\ u.related = related /\ u.table = s.table /\ u.place = s.place
  BY <1>4, <1>6 DEF SavedUse, Use
<1> QED
  BY <1>1, <1>2, <1>3, <1>5, <1>7 DEF Refs

LEMMA ReloadInv == ASSUME Inv, Reload PROVE Inv'
<1>1. SchemaTypeOK /\ FileTypeOK
  BY TypeParts DEF Inv
<1>2. PICK ls \in SUBSET Rels : \E rl \in [ls -> file.rels] :
        /\ {rl[r] : r \in ls} = file.rels
        /\ tables' = file.tables /\ fields' = file.fields
        /\ rel' = [r \in Rels |-> IF r \in ls THEN rl[r] ELSE NoRel]
        /\ listed' = ls
        /\ uses' = {LoadedUse(rl, ls, s) : s \in file.uses}
        /\ adrift' = {} /\ UNCHANGED file
  BY DEF Reload
<1>3. PICK rl \in [ls -> file.rels] :
        /\ {rl[r] : r \in ls} = file.rels
        /\ tables' = file.tables /\ fields' = file.fields
        /\ rel' = [r \in Rels |-> IF r \in ls THEN rl[r] ELSE NoRel]
        /\ listed' = ls
        /\ uses' = {LoadedUse(rl, ls, s) : s \in file.uses}
        /\ adrift' = {} /\ UNCHANGED file
  BY <1>2
<1>4. /\ tables' = tables /\ fields' = fields
      /\ \A r \in ls : \E q \in listed : rl[r] = rel[q]
      /\ rl \in [ls -> Relationship]
  BY <1>1, <1>3 DEF Inv, FileKnowsTheSchema, FileTypeOK
<1>5. /\ rel' \in [Rels -> Relationship \cup {NoRel}]
      /\ \A r \in ls : rel'[r] = rl[r] /\ rel'[r] # NoRel
  BY <1>3, <1>4, RelationshipIsSomething
<1>6. SchemaTypeOK'
  BY <1>1, <1>3, <1>4, <1>5 DEF SchemaTypeOK
<1>7. RelationshipsJoin'
  BY <1>3, <1>4, <1>5 DEF Inv, RelationshipsJoin
<1>8. \A u \in uses' :
        /\ u \in Use /\ Refs(u) \subseteq ls
        /\ u.place # "portal" => u.portal = None
        /\ u.portal # None => rl[u.portal].from = u.table
        /\ u.place # "portal" /\ u.rel # None => rl[u.rel].from = u.table
  BY <1>1, <1>3, <1>4, LoadedUseIsTyped DEF FileTypeOK, Inv, OnlyInPortals
<1>9. LayoutTypeOK' /\ OnlyInPortals(uses')
  BY <1>3, <1>5, <1>8 DEF LayoutTypeOK, OnlyInPortals
<1>10. LayoutsKeepRelationships'
  <2> SUFFICES ASSUME NEW u \in uses', Walked(u),
                      NEW r \in {u.portal, IF u.place = "portal" THEN None
                                           ELSE u.rel} \ {None}
               PROVE  r \in listed' /\ rel'[r].from = u.table
    BY DEF LayoutsKeepRelationships, Walked
  <2>1. r \in Refs(u)
    BY DEF Refs
  <2>2. r \in ls /\ rl[r].from = u.table
    BY <1>8, <2>1
  <2> QED
    BY <1>3, <1>5, <2>2
<1>11. AdriftIsUnlisted'
  BY <1>3 DEF AdriftIsUnlisted
<1>12. /\ FileTypeOK' /\ OnlyInPortals(file.uses)'
  BY <1>1, <1>3 DEF FileTypeOK, Inv, OnlyInPortals
<1>13. FileKnowsTheSchema'
  BY <1>3, <1>4, <1>5 DEF FileKnowsTheSchema
<1>14. TypeOK'
  BY <1>6, <1>9, <1>12
  DEF TypeOK, SchemaTypeOK, LayoutTypeOK, FileTypeOK, Refs
<1> QED
  BY <1>7, <1>9, <1>10, <1>11, <1>12, <1>13, <1>14 DEF Inv, OnlyInPortals

-----------------------------------------------------------------------------
LEMMA NextInv == ASSUME Inv, [Next]_vars PROVE Inv'
<1> HIDE DEF Inv
<1>1. CASE UNCHANGED vars
  BY <1>1 DEF Inv, vars, TypeOK, AdriftIsUnlisted, RelationshipsJoin,
    LayoutsKeepRelationships, Walked, FileKnowsTheSchema, OnlyInPortals
<1>2. CASE \E t \in Tables : AddTable(t) \/ RemoveTable(t)
  BY <1>2, AddTableInv, RemoveTableInv
<1>3. CASE \E t, n \in Tables : RenameTable(t, n)
  BY <1>3, RenameTableInv
<1>5. CASE \E t \in Tables, f \in FieldNames :
             AddField(t, f) \/ RemoveField(t, f)
  BY <1>5, AddFieldInv, RemoveFieldInv
<1>6. CASE \E t \in Tables, f, g \in FieldNames : RenameField(t, f, g)
  BY <1>6, RenameFieldInv
<1>7. CASE \E u \in Use : AddUse(u)
  BY <1>7, AddUseInv
<1>4. CASE \E us \in SUBSET uses, t \in Tables, p, q \in Rels :
             ChoosePortal(us, t, p, q) \/ CopyPortal(us, t, p, q)
  BY <1>4, ChoosePortalInv, CopyPortalInv
<1>8. CASE \E u \in uses : RemoveUse(u)
  BY <1>8, RemoveUseInv
<1>9. CASE \E r \in Rels : RemoveRelationship(r)
  BY <1>9, RemoveRelationshipInv
<1>10. CASE \E t \in Tables, renamed \in [Rels -> RelNames] :
              CloseRelationships(t, renamed)
  BY <1>10, CloseRelationshipsInv
<1>12. CASE \E r \in Rels, title \in Titles : Translate(r, title)
  BY <1>12, TranslateInv
<1>11. CASE Reload
  BY <1>11, ReloadInv
<1> QED
  BY <1>1, <1>2, <1>3, <1>4, <1>5, <1>6, <1>7, <1>8, <1>9, <1>10, <1>11,
     <1>12
  DEF Next

(* All that follows is true of every document that Glom can come to.       *)
THEOREM SchemaInvariant == Spec => []Inv
BY InitInv, NextInv, PTL DEF Spec

(* The document, its layouts and its file are well formed.                 *)
THEOREM TypeCorrect == Spec => []TypeOK
<1>1. Inv => TypeOK
  BY DEF Inv
<1> QED
  BY <1>1, SchemaInvariant, PTL

(* However tables and fields are added, renamed and removed, and the file  *)
(* is written and read in between, every relationship joins fields that    *)
(* exist of tables that exist (Document::remove_field(), remove_table(),   *)
(* change_field_name(), change_table_name(), load_after()).                *)
THEOREM RelationshipsAlwaysJoin == Spec => []RelationshipsJoin
<1>1. Inv => RelationshipsJoin
  BY DEF Inv
<1> QED
  BY <1>1, SchemaInvariant, PTL

(* An item of a layout holds no relationship that was removed, nor a copy  *)
(* of one, at whatever end of it the removal began; only what the dialog of*)
(* relationships has dropped, and copies that a renaming or a translation  *)
(* has passed by, are left behind (Document::remove_relationship()).       *)
THEOREM LayoutsAlwaysKeepRelationships == Spec => []LayoutsKeepRelationships
<1>1. Inv => LayoutsKeepRelationships
  BY DEF Inv
<1> QED
  BY <1>1, SchemaInvariant, PTL

(* The file never lags behind the document in its tables, its fields and   *)
(* its relationships (Document::set_modified()).                           *)
THEOREM FileAlwaysKnowsTheSchema == Spec => []FileKnowsTheSchema
<1>1. Inv => FileKnowsTheSchema
  BY DEF Inv
<1> QED
  BY <1>1, SchemaInvariant, PTL

-----------------------------------------------------------------------------
(* Names.  A name in the file means what the pointer in memory means as    *)
(* long as no table lists two relationships of one name: then what         *)
(* Document::get_relationship() finds is no choice.                        *)

UniqueNames ==
  \A r, q \in listed :
    rel[r].from = rel[q].from /\ rel[r].name = rel[q].name => r = q

(* The second relationship of an item starts where its first one leads.    *)
RelatedNeedsDirect == \A u \in uses : u.related # None => u.rel # None

NamesInv == UniqueNames /\ RelatedNeedsDirect

(* A name that only one relationship of the table has finds that one.      *)
LEMMA FindUnique ==
  ASSUME NEW rl, NEW ls, NEW r \in ls,
         \A q \in ls : rl[q].from = rl[r].from /\ rl[q].name = rl[r].name
                         => q = r
  PROVE  Find(rl, ls, rl[r].from, rl[r].name) = r
<1> DEFINE found == {q \in ls : rl[q].from = rl[r].from /\ rl[q].name = rl[r].name}
<1>1. found = {r}
  OBVIOUS
<1>2. Find(rl, ls, rl[r].from, rl[r].name) = CHOOSE q \in found : TRUE
  BY <1>1 DEF Find
<1>3. (CHOOSE q \in found : TRUE) \in found
  BY <1>1
<1> QED
  BY <1>1, <1>2, <1>3

(* An empty name finds nothing.                                            *)
LEMMA FindNone ==
  ASSUME Inv, NEW t
  PROVE  Find(rel, listed, t, None) = None
<1>1. \A r \in listed : rel[r].name # None
  BY SchemaAssumption, TypeParts DEF Inv, SchemaTypeOK, Relationship
<1> QED
  BY <1>1 DEF Find

(* What is saved of a relationship is enough to find it again.             *)
LEMMA FindsSaved ==
  ASSUME Inv, UniqueNames,
         NEW t, NEW r, r = None \/ (r \in listed /\ rel[r].from = t)
  PROVE  Find(rel, listed, t, NameOf(rel, r)) = r
<1>1. CASE r = None
  BY <1>1, FindNone DEF NameOf
<1>2. CASE r # None
  <2>1. NameOf(rel, r) = rel[r].name /\ r \in listed /\ t = rel[r].from
    BY <1>2 DEF NameOf
  <2>2. Find(rel, listed, rel[r].from, rel[r].name) = r
    BY <2>1, FindUnique DEF UniqueNames
  <2> QED
    BY <2>1, <2>2
<1> QED
  BY <1>1, <1>2

(* An item whose relationships are all in the document is found again.     *)
LEMMA NamesAgree == ASSUME Inv, NamesInv PROVE ReloadAgrees
<1> HIDE DEF Inv
<1> SUFFICES ASSUME NEW u \in uses, Attached(u)
             PROVE  LoadedUse(rel, listed, SavedUseOf(rel, u)) = u
  BY DEF ReloadAgrees
<1> DEFINE s == SavedUseOf(rel, u)
<1>1. u \in Use
  BY TypeParts DEF Inv, LayoutTypeOK
<1>2. /\ s = [u EXCEPT !.portal = NameOf(rel, u.portal),
                       !.rel = NameOf(rel, u.rel),
                       !.related = NameOf(rel, u.related)]
      /\ s.portal = NameOf(rel, u.portal) /\ s.rel = NameOf(rel, u.rel)
      /\ s.related = NameOf(rel, u.related) /\ s.table = u.table
  BY <1>1 DEF SavedUseOf, Use
<1>3. /\ u.portal = None \/ (u.portal \in listed /\ rel[u.portal].from = u.table)
      /\ u.rel = None \/ (u.rel \in listed /\ rel[u.rel].from = ParentTable(rel, u))
      /\ u.related = None \/ (u.related \in listed
                                /\ rel[u.related].from = rel[u.rel].to)
  BY DEF Attached, Refs
<1>4. Find(rel, listed, u.table, s.portal) = u.portal
  BY <1>2, <1>3, FindsSaved DEF NamesInv
<1>5. Find(rel, listed, ParentTable(rel, u), s.rel) = u.rel
  BY <1>2, <1>3, FindsSaved DEF NamesInv
<1>6. Find(rel, listed, rel[u.rel].to, s.related) = u.related
  BY <1>2, <1>3, FindsSaved DEF NamesInv
<1>7. u.rel = None => u.related = None
  BY DEF NamesInv, RelatedNeedsDirect
<1> HIDE DEF s
<1>8. LoadedUse(rel, listed, s)
        = [s EXCEPT !.portal = u.portal, !.rel = u.rel, !.related = u.related]
  BY <1>2, <1>4, <1>5, <1>6, <1>7 DEF LoadedUse, ParentTable
<1>9. [s EXCEPT !.portal = u.portal, !.rel = u.rel, !.related = u.related] = u
  BY <1>1, <1>2 DEF Use
<1> QED
  BY <1>8, <1>9 DEF s

(* A step that lists nothing new and renames nothing that is listed.       *)
LEMMA NamesStay ==
  ASSUME Inv, NamesInv, listed' \subseteq listed,
         \A r \in listed' : rel'[r] = rel[r],
         \A v \in uses' : \E u \in uses : v.related = u.related /\ v.rel = u.rel
  PROVE  NamesInv'
BY DEF NamesInv, UniqueNames, RelatedNeedsDirect

(* Letting go of what nothing holds is such a step.                        *)
LEMMA NamesStayAlive ==
  ASSUME Inv, NamesInv, listed' \subseteq listed, uses' \subseteq uses,
         rel' = Alive(rel, listed', uses')
  PROVE  NamesInv'
<1>1. SchemaTypeOK
  BY TypeParts DEF Inv
<1>2. \A r \in listed' : rel'[r] = rel[r]
  BY <1>1, AliveKeeps DEF SchemaTypeOK
<1> QED
  BY <1>2, NamesStay

LEMMA AddUseNames ==
  ASSUME Inv, NamesInv, NEW u \in Use, AddUse(u) PROVE NamesInv'
<1>1. UNCHANGED <<rel, listed>> /\ uses' = uses \cup {u}
      /\ (u.related # None => u.rel # None)
  BY DEF AddUse, CanUse
<1> QED
  BY <1>1 DEF NamesInv, UniqueNames, RelatedNeedsDirect

LEMMA PortalNames ==
  ASSUME Inv, NamesInv, NEW us, NEW t \in Tables, NEW p \in Rels,
         NEW q \in Rels, ChoosePortal(us, t, p, q) \/ CopyPortal(us, t, p, q)
  PROVE  NamesInv'
<1>1. SchemaTypeOK /\ LayoutTypeOK
  BY TypeParts DEF Inv
<1>2. PICK rl :
        /\ rl \in [Rels -> Relationship \cup {NoRel}]
        /\ \A r \in listed : rl[r] = rel[r]
        /\ SetPortal(us, q, rl)
  <2>1. ASSUME ChoosePortal(us, t, p, q)
        PROVE  /\ rel \in [Rels -> Relationship \cup {NoRel}]
               /\ SetPortal(us, q, rel)
    BY <1>1, <2>1 DEF ChoosePortal, SchemaTypeOK
  <2>2. ASSUME CopyPortal(us, t, p, q),
               NEW rl, rl = [rel EXCEPT ![q] = rel[p]]
        PROVE  /\ rl \in [Rels -> Relationship \cup {NoRel}]
               /\ \A r \in listed : rl[r] = rel[r]
               /\ SetPortal(us, q, rl)
    BY <1>1, <2>2 DEF CopyPortal, SchemaTypeOK
  <2> QED
    BY <2>1, <2>2
<1>3. us \subseteq uses
  BY DEF ChoosePortal, CopyPortal, Portal
<1>4. /\ uses' = (uses \ us) \cup {[u EXCEPT !.portal = q] : u \in us}
      /\ rel' = Alive(rl, listed, uses') /\ listed' = listed
  BY <1>2 DEF SetPortal
<1>5. \A r \in listed' : rel'[r] = rel[r]
  BY <1>1, <1>2, <1>4, AliveKeeps DEF SchemaTypeOK
<1>6. \A v \in uses' : \E u \in uses : v.related = u.related /\ v.rel = u.rel
  <2>1. ASSUME NEW u \in Use, NEW v, v = [u EXCEPT !.portal = q]
        PROVE  v.related = u.related /\ v.rel = u.rel
    BY <2>1 DEF Use
  <2>2. ASSUME NEW v \in uses', v \notin uses
        PROVE  \E u \in uses : v.related = u.related /\ v.rel = u.rel
    <3>1. PICK u \in us : v = [u EXCEPT !.portal = q]
      BY <1>4, <2>2
    <3>2. u \in uses /\ u \in Use
      BY <1>1, <1>3 DEF LayoutTypeOK
    <3> QED
      BY <2>1, <3>1, <3>2
  <2> QED
    BY <2>2
<1> QED
  BY <1>4, <1>5, <1>6, NamesStay

LEMMA RemoveNames ==
  ASSUME Inv, NamesInv, NEW ts, NEW fs, NEW us, us \subseteq uses,
         NEW doomed, NEW cleaned, Remove(ts, fs, us, doomed, cleaned)
  PROVE  NamesInv'
<1>1. /\ listed' \subseteq listed /\ uses' \subseteq uses
      /\ rel' = Alive(rel, listed', uses')
  BY DEF Remove
<1> QED
  BY <1>1, NamesStayAlive

(* The renamed relationships are no longer listed.                         *)
LEMMA CloseRelationshipsNames ==
  ASSUME Inv, NamesInv, NEW t \in Tables, NEW renamed \in [Rels -> RelNames],
         CloseRelationships(t, renamed)
  PROVE  NamesInv'
<1> DEFINE gone == {r \in listed : rel[r].from = t}
           named == [r \in Rels |-> IF r \in gone
                                      THEN [rel[r] EXCEPT !.name = renamed[r]]
                                      ELSE rel[r]]
<1>1. SchemaTypeOK
  BY TypeParts DEF Inv
<1>2. /\ listed' = listed \ gone /\ uses' = uses
      /\ rel' = Alive(named, listed', uses)
  BY DEF CloseRelationships
<1>3. \A r \in listed' : r \in Rels /\ named[r] = rel[r]
  BY <1>1, <1>2 DEF SchemaTypeOK
<1>4. \A r \in listed' : rel'[r] = rel[r]
  <2> HIDE DEF named
  <2> QED
    BY <1>2, <1>3 DEF Alive
<1> QED
  BY <1>2, <1>4, NamesStay

LEMMA RenameFieldNames ==
  ASSUME Inv, NamesInv, NEW t \in Tables, NEW f \in FieldNames,
         NEW g \in FieldNames, RenameField(t, f, g)
  PROVE  NamesInv'
<1> DEFINE Field(tt, ff) == IF tt = t /\ ff = f THEN g ELSE ff
           New(r) == [rel[r] EXCEPT !.fromField = Field(rel[r].from, @),
                                    !.toField = Field(rel[r].to, @)]
<1>1. SchemaTypeOK /\ LayoutTypeOK
  BY TypeParts DEF Inv
<1>2. /\ rel' = [r \in Rels |-> IF r \in listed THEN New(r) ELSE rel[r]]
      /\ uses' = {IF u.name = f /\ Renames(u, t) THEN [u EXCEPT !.name = g]
                  ELSE u : u \in uses}
      /\ listed' = listed
  BY DEF RenameField
<1>3. ASSUME NEW r \in listed
      PROVE  rel'[r].from = rel[r].from /\ rel'[r].name = rel[r].name
  <2>1. rel[r] \in Relationship /\ rel'[r] = New(r)
    BY <1>1, <1>2 DEF SchemaTypeOK
  <2> QED
    BY <2>1 DEF Relationship
<1>4. \A v \in uses' : \E u \in uses : v.related = u.related /\ v.rel = u.rel
  <2>1. ASSUME NEW u \in uses
        PROVE  [u EXCEPT !.name = g].related = u.related
               /\ [u EXCEPT !.name = g].rel = u.rel
    BY <1>1 DEF LayoutTypeOK, Use
  <2> QED
    BY <1>2, <2>1
<1>5. UniqueNames'
  <2>1. listed' = listed /\ UniqueNames
    BY <1>2 DEF NamesInv
  <2> SUFFICES ASSUME NEW r \in listed, NEW q \in listed,
                      rel'[r].from = rel'[q].from, rel'[r].name = rel'[q].name
               PROVE  r = q
    BY <2>1 DEF UniqueNames
  <2>2. rel[r].from = rel[q].from /\ rel[r].name = rel[q].name
    BY <1>3
  <2> QED
    BY <2>1, <2>2 DEF UniqueNames
<1>6. RelatedNeedsDirect'
  BY <1>4 DEF NamesInv, RelatedNeedsDirect
<1> QED
  BY <1>5, <1>6 DEF NamesInv

LEMMA TranslateNames ==
  ASSUME Inv, NamesInv, NEW r \in Rels, NEW title \in Titles,
         Translate(r, title)
  PROVE  NamesInv'
<1>1. SchemaTypeOK
  BY TypeParts DEF Inv
<1>2. /\ r \in listed /\ rel' = [rel EXCEPT ![r].title = title]
      /\ UNCHANGED <<listed, uses>>
  BY DEF Translate
<1>3. ASSUME NEW q \in listed
      PROVE  rel'[q].from = rel[q].from /\ rel'[q].name = rel[q].name
  <2>1. /\ rel[q] \in Relationship
        /\ rel'[q] = rel[q] \/ rel'[q] = [rel[q] EXCEPT !.title = title]
    BY <1>1, <1>2 DEF SchemaTypeOK
  <2> QED
    BY <2>1 DEF Relationship
<1>4. UniqueNames'
  <2> SUFFICES ASSUME NEW p \in listed, NEW q \in listed,
                      rel'[p].from = rel'[q].from, rel'[p].name = rel'[q].name
               PROVE  p = q
    BY <1>2 DEF UniqueNames
  <2>1. rel[p].from = rel[q].from /\ rel[p].name = rel[q].name
    BY <1>3
  <2> QED
    BY <2>1 DEF NamesInv, UniqueNames
<1>5. RelatedNeedsDirect'
  BY <1>2 DEF NamesInv, RelatedNeedsDirect
<1> QED
  BY <1>4, <1>5 DEF NamesInv

(* The new name of the table was no other table's, so that relationships   *)
(* of two tables do not come to be one table's.                            *)
LEMMA RenameTableNames ==
  ASSUME Inv, NamesInv, NEW t \in Tables, NEW n \in Tables, RenameTable(t, n)
  PROVE  NamesInv'
<1> DEFINE Table(tt) == IF tt = t THEN n ELSE tt
           New(r) == [rel[r] EXCEPT !.from = Table(@), !.to = Table(@)]
<1>1. SchemaTypeOK /\ LayoutTypeOK
  BY TypeParts DEF Inv
<1>2. /\ rel' = [r \in Rels |-> IF r \in listed THEN New(r) ELSE rel[r]]
      /\ uses' = {[u EXCEPT !.table = Table(@)] : u \in uses}
      /\ listed' = listed /\ n \notin tables
  BY DEF RenameTable
<1>3. ASSUME NEW r \in listed
      PROVE  /\ rel'[r].from = Table(rel[r].from) /\ rel'[r].name = rel[r].name
             /\ rel[r].from \in tables
  <2>1. rel[r] \in Relationship /\ rel'[r] = New(r)
    BY <1>1, <1>2 DEF SchemaTypeOK
  <2>2. rel[r].from \in tables
    BY DEF Inv, RelationshipsJoin
  <2> QED
    BY <2>1, <2>2 DEF Relationship
<1>4. \A v \in uses' : \E u \in uses : v.related = u.related /\ v.rel = u.rel
  <2>1. ASSUME NEW u \in uses
        PROVE  [u EXCEPT !.table = Table(@)].related = u.related
               /\ [u EXCEPT !.table = Table(@)].rel = u.rel
    BY <1>1 DEF LayoutTypeOK, Use
  <2> QED
    BY <1>2, <2>1
<1>5. UniqueNames'
  <2>1. listed' = listed /\ UniqueNames
    BY <1>2 DEF NamesInv
  <2> SUFFICES ASSUME NEW r \in listed, NEW q \in listed,
                      rel'[r].from = rel'[q].from, rel'[r].name = rel'[q].name
               PROVE  r = q
    BY <2>1 DEF UniqueNames
  <2>2. /\ Table(rel[r].from) = Table(rel[q].from) /\ rel[r].name = rel[q].name
        /\ rel[r].from # n /\ rel[q].from # n
    <3> HIDE DEF Table
    <3> QED
      BY <1>2, <1>3
  <2>3. rel[r].from = rel[q].from
    BY <2>2
  <2> QED
    BY <2>1, <2>2, <2>3 DEF UniqueNames
<1>6. RelatedNeedsDirect'
  BY <1>4 DEF NamesInv, RelatedNeedsDirect
<1> QED
  BY <1>5, <1>6 DEF NamesInv

(* What is loaded has no second relationship without a first.              *)
LEMMA LoadedNeedsDirect ==
  ASSUME NEW rl, NEW ls, NEW s \in SavedUse
  PROVE  LET u == LoadedUse(rl, ls, s) IN u.related # None => u.rel # None
<1> DEFINE portal == Find(rl, ls, s.table, s.portal)
           parent == IF portal # None THEN rl[portal].to ELSE s.table
           direct == Find(rl, ls, parent, s.rel)
           related == IF direct = None THEN None
                      ELSE Find(rl, ls, rl[direct].to, s.related)
<1>1. direct = None => related = None
  OBVIOUS
<1>2. LoadedUse(rl, ls, s)
        = [s EXCEPT !.portal = portal, !.rel = direct, !.related = related]
  BY DEF LoadedUse
<1> HIDE DEF portal, direct, related
<1>3. /\ LoadedUse(rl, ls, s).rel = direct
      /\ LoadedUse(rl, ls, s).related = related
  BY <1>2 DEF SavedUse
<1> QED
  BY <1>1, <1>3

(* The file has no more relationships than the document, and each is       *)
(* loaded once.                                                            *)
LEMMA ReloadNames == ASSUME Inv, NamesInv, Reload PROVE NamesInv'
<1>1. PICK ls \in SUBSET Rels : \E rl \in [ls -> file.rels] :
        /\ \A r, q \in ls : rl[r] = rl[q] => r = q
        /\ rel' = [r \in Rels |-> IF r \in ls THEN rl[r] ELSE NoRel]
        /\ listed' = ls
        /\ uses' = {LoadedUse(rl, ls, s) : s \in file.uses}
  BY DEF Reload
<1>2. PICK rl \in [ls -> file.rels] :
        /\ \A r, q \in ls : rl[r] = rl[q] => r = q
        /\ rel' = [r \in Rels |-> IF r \in ls THEN rl[r] ELSE NoRel]
        /\ listed' = ls
        /\ uses' = {LoadedUse(rl, ls, s) : s \in file.uses}
  BY <1>1
<1>3. \A r \in ls : rel'[r] = rl[r] /\ \E q \in listed : rl[r] = rel[q]
  BY <1>2 DEF Inv, FileKnowsTheSchema
<1>4. UniqueNames'
  <2> SUFFICES ASSUME NEW r \in ls, NEW q \in ls,
                      rl[r].from = rl[q].from, rl[r].name = rl[q].name
               PROVE  r = q
    BY <1>2, <1>3 DEF UniqueNames
  <2>1. PICK a \in listed : rl[r] = rel[a]
    BY <1>3
  <2>2. PICK b \in listed : rl[q] = rel[b]
    BY <1>3
  <2>3. a = b
    BY <2>1, <2>2 DEF NamesInv, UniqueNames
  <2> QED
    BY <1>2, <2>1, <2>2, <2>3
<1>5. file.uses \subseteq SavedUse
  BY TypeParts DEF Inv, FileTypeOK
<1>6. RelatedNeedsDirect'
  BY <1>2, <1>5, LoadedNeedsDirect DEF RelatedNeedsDirect
<1> QED
  BY <1>4, <1>6 DEF NamesInv

LEMMA InitNames == Init => NamesInv
BY DEF Init, Example, NamesInv, UniqueNames, RelatedNeedsDirect

LEMMA NextNames == ASSUME Inv, NamesInv, [Next]_vars PROVE NamesInv'
<1> HIDE DEF Inv, NamesInv
<1>1. CASE UNCHANGED vars
  BY <1>1 DEF vars, NamesInv, UniqueNames, RelatedNeedsDirect
<1>2. ASSUME NEW t \in Tables, AddTable(t) PROVE NamesInv'
  BY <1>2 DEF AddTable, NamesInv, UniqueNames, RelatedNeedsDirect
<1>3. ASSUME NEW t \in Tables, RemoveTable(t) PROVE NamesInv'
  <2>1. {u \in uses : u.table # t} \subseteq uses
    OBVIOUS
  <2> QED
    BY <1>3, <2>1, RemoveNames DEF RemoveTable
<1>4. CASE \E t, n \in Tables : RenameTable(t, n)
  BY <1>4, RenameTableNames
<1>6. ASSUME NEW t \in Tables, NEW f \in FieldNames, AddField(t, f)
      PROVE  NamesInv'
  BY <1>6 DEF AddField, NamesInv, UniqueNames, RelatedNeedsDirect
<1>7. ASSUME NEW t \in Tables, NEW f \in FieldNames, RemoveField(t, f)
      PROVE  NamesInv'
  BY <1>7, RemoveNames DEF RemoveField
<1>8. CASE \E t \in Tables, f, g \in FieldNames : RenameField(t, f, g)
  BY <1>8, RenameFieldNames
<1>9. CASE \E u \in Use : AddUse(u)
  BY <1>9, AddUseNames
<1>5. CASE \E us \in SUBSET uses, t \in Tables, p, q \in Rels :
             ChoosePortal(us, t, p, q) \/ CopyPortal(us, t, p, q)
  BY <1>5, PortalNames
<1>10. CASE \E u \in uses : RemoveUse(u)
  BY <1>10, NamesStayAlive DEF RemoveUse
<1>11. CASE \E r \in Rels : RemoveRelationship(r)
  BY <1>11, RemoveNames DEF RemoveRelationship
<1>12. CASE \E t \in Tables, renamed \in [Rels -> RelNames] :
              CloseRelationships(t, renamed)
  BY <1>12, CloseRelationshipsNames
<1>14. CASE \E r \in Rels, title \in Titles : Translate(r, title)
  BY <1>14, TranslateNames
<1>13. CASE Reload
  BY <1>13, ReloadNames
<1> QED
  BY <1>1, <1>2, <1>3, <1>4, <1>5, <1>6, <1>7, <1>8, <1>9, <1>10, <1>11,
     <1>12, <1>13, <1>14
  DEF Next

(* No table ever lists two relationships of one name, whatever is added,   *)
(* renamed, removed and loaded again.                                      *)
THEOREM NamesStayUnique == Spec => []UniqueNames
<1>1. Init => Inv /\ NamesInv
  BY InitInv, InitNames
<1>2. Inv /\ NamesInv /\ [Next]_vars => Inv' /\ NamesInv'
  BY NextInv, NextNames
<1>3. NamesInv => UniqueNames
  BY DEF NamesInv
<1> HIDE DEF Inv, NamesInv
<1> QED
  BY <1>1, <1>2, <1>3, PTL DEF Spec

(* The names that Document::save_before() writes lead load_after() to the  *)
(* relationships that the items of the layouts hold, whatever was renamed. *)
THEOREM ReloadAlwaysAgrees == Spec => []ReloadAgrees
<1>1. Init => Inv /\ NamesInv
  BY InitInv, InitNames
<1>2. Inv /\ NamesInv /\ [Next]_vars => Inv' /\ NamesInv'
  BY NextInv, NextNames
<1>3. Inv /\ NamesInv => ReloadAgrees
  BY NamesAgree
<1> HIDE DEF Inv, NamesInv
<1> QED
  BY <1>1, <1>2, <1>3, PTL DEF Spec
=============================================================================
