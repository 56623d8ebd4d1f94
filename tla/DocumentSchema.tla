--------------------------- MODULE DocumentSchema ---------------------------
(***************************************************************************)
(* The structure that a Glom document describes: tables, their fields, the *)
(* relationships between them, and the layouts, reports and print layouts  *)
(* that show fields through relationships.  The developer's dialogs add,   *)
(* rename and remove parts of it, and Document is to carry every change to *)
(* all that names the changed part.                                        *)
(*                                                                         *)
(* Two things make that hard.  Layouts share the Relationship objects by   *)
(* std::shared_ptr while the application runs, but name them in the file.  *)
(* And every call of set_modified() writes the whole file at once, in the  *)
(* middle of an operation as well as at its end.                           *)
(***************************************************************************)
EXTENDS Naturals, FiniteSets

CONSTANTS
  Tables,       \* table names
  FieldNames,   \* field names
  Key,          \* the field of a table that was just created
  RelNames,     \* relationship names
  Titles,       \* their titles, in all languages
  Rels,         \* Relationship objects
  None,         \* a null std::shared_ptr, or an empty name
  MaxTables,    \* bound on the tables of a document
  MaxUses       \* bound on the layout items

ASSUME SchemaAssumption ==
  /\ Key \in FieldNames
  /\ None \notin Rels \cup RelNames
  /\ MaxTables \in Nat /\ MaxUses \in Nat

VARIABLES
  tables,    \* the keys of m_tables
  fields,    \* m_fields of every table, by name
  rel,       \* the Relationship objects that something holds
  listed,    \* those that are in m_relationships of their from-table
  uses,      \* the field items of all layouts
  file,      \* what the .glom file says
  adrift     \* history: unlisted objects that a change has passed by

vars == <<tables, fields, rel, listed, uses, file, adrift>>

-----------------------------------------------------------------------------
(* Types.  A layout is a tree of groups; an item is known by where it is:  *)
(* directly in a top-level group, in a group within one, in a portal (a    *)
(* list of related records), or in a part that no change walks: a print    *)
(* layout, or the field that a report groups by.  Reports are trees like   *)
(* layouts.                                                                *)

Relationship ==
  [name : RelNames, title : Titles, from : Tables, fromField : FieldNames,
   to : Tables, toField : FieldNames]

Places == {"layout", "group", "portal", "print"}

Use ==
  [table : Tables, place : Places, portal : Rels \cup {None},
   rel : Rels \cup {None}, related : Rels \cup {None}, name : FieldNames]

SavedUse ==
  [table : Tables, place : Places, portal : RelNames \cup {None},
   rel : RelNames \cup {None}, related : RelNames \cup {None},
   name : FieldNames]

NoRel == [name |-> None]

TypeOK ==
  /\ tables \subseteq Tables
  /\ fields \in [Tables -> SUBSET FieldNames]
  /\ rel \in [Rels -> Relationship \cup {NoRel}]
  /\ listed \subseteq Rels
  /\ uses \subseteq Use
  /\ adrift \subseteq Rels
  /\ file.tables \subseteq Tables
  /\ file.fields \in [Tables -> SUBSET FieldNames]
  /\ file.rels \subseteq Relationship
  /\ file.uses \subseteq SavedUse
  /\ \A r \in listed : rel[r] # NoRel
  /\ \A u \in uses : \A r \in {u.portal, u.rel, u.related} \ {None} :
        rel[r] # NoRel

-----------------------------------------------------------------------------
(* What an item shows.                                                     *)

(* UsesRelationship::get_table_used() *)
TableUsed(rl, u, parent) ==
  IF u.related # None THEN rl[u.related].to
  ELSE IF u.rel # None THEN rl[u.rel].to
  ELSE parent

(* The table whose records the container of an item shows.                 *)
ParentTable(rl, u) == IF u.portal # None THEN rl[u.portal].to ELSE u.table

Shows(rl, u) == <<TableUsed(rl, u, ParentTable(rl, u)), u.name>>

Refs(u) == {u.portal, u.rel, u.related} \ {None}

\* Mutant: layouts hold weak pointers.
AliveIfListed(rl, ls, us) == [r \in Rels |-> IF r \in ls THEN rl[r] ELSE NoRel]

(* A Relationship is destroyed with its last std::shared_ptr.              *)
Alive(rl, ls, us) ==
  [r \in Rels |-> IF r \in ls \cup UNION {Refs(u) : u \in us}
                    THEN rl[r] ELSE NoRel]

-----------------------------------------------------------------------------
(* The file.  Document::save_before() writes the names of relationships;   *)
(* load_after() finds them again, the relationships of all tables before   *)
(* any layout, and an unknown name leaves a null pointer.                  *)

NameOf(rl, r) == IF r = None THEN None ELSE rl[r].name

SavedUseOf(rl, u) ==
  [u EXCEPT !.portal = NameOf(rl, u.portal), !.rel = NameOf(rl, u.rel),
            !.related = NameOf(rl, u.related)]

Saved(ts, fs, rl, ls, us) ==
  [tables |-> ts, fields |-> fs, rels |-> {rl[r] : r \in ls},
   uses |-> {SavedUseOf(rl, u) : u \in us}]

(* Document::get_relationship() *)
Find(rl, ls, t, n) ==
  LET found == {r \in ls : rl[r].from = t /\ rl[r].name = n}
  IN  IF found = {} THEN None ELSE CHOOSE r \in found : TRUE

\* Mutant: the items of a portal look in the table of the layout.
LoadedUseOfLayout(rl, ls, s) ==
  [s EXCEPT !.portal = Find(rl, ls, s.table, s.portal),
            !.rel = Find(rl, ls, s.table, s.rel), !.related = None]

LoadedUse(rl, ls, s) ==
  LET portal  == Find(rl, ls, s.table, s.portal)
      parent  == IF portal # None THEN rl[portal].to ELSE s.table
      direct  == Find(rl, ls, parent, s.rel)
      related == IF direct = None THEN None
                 ELSE Find(rl, ls, rl[direct].to, s.related)
  IN  [s EXCEPT !.portal = portal, !.rel = direct, !.related = related]

-----------------------------------------------------------------------------
(* A document that somebody else made: its relationships join fields of its *)
(* tables, and no table has two of the same name.                          *)
Example(ts, ls) ==
  /\ \A r \in ls : rel[r].from \in ts /\ rel[r].to \in ts
  /\ \A r, q \in ls :
        rel[r].from = rel[q].from /\ rel[r].name = rel[q].name => r = q

Init ==
  /\ tables \in SUBSET Tables /\ Cardinality(tables) <= MaxTables
  /\ fields = [t \in Tables |-> IF t \in tables THEN FieldNames ELSE {}]
  /\ listed \in SUBSET Rels
  /\ \E rl \in [listed -> Relationship] :
        rel = [r \in Rels |-> IF r \in listed THEN rl[r] ELSE NoRel]
  /\ Example(tables, listed)
  /\ uses = {}
  /\ file = Saved(tables, fields, rel, listed, uses)
  /\ adrift = {}

(* Box_Tables::on_adddel_add() *)
AddTable(t) ==
  /\ t \notin tables /\ Cardinality(tables) < MaxTables
  /\ tables' = tables \cup {t}
  /\ fields' = [fields EXCEPT ![t] = {Key}]
  /\ file' = Saved(tables', fields', rel, listed, uses)
  /\ UNCHANGED <<rel, listed, uses, adrift>>

\* Mutant: set_table_fields() does not save.
AddFieldUnsaved(t, f) ==
  /\ t \in tables /\ f \notin fields[t]
  /\ fields' = [fields EXCEPT ![t] = @ \cup {f}]
  /\ UNCHANGED <<tables, rel, listed, uses, file, adrift>>

(* Box_DB_Table_Definition::on_adddel_add() *)
AddField(t, f) ==
  /\ t \in tables /\ f \notin fields[t]
  /\ fields' = [fields EXCEPT ![t] = @ \cup {f}]
  /\ file' = Saved(tables, fields', rel, listed, uses)
  /\ UNCHANGED <<tables, rel, listed, uses, adrift>>

(* The layout dialogs replace a whole layout by a changed copy.  What is   *)
(* laid out is related through the objects that the table lists.           *)
CanUse(u) ==
  /\ u.table \in tables
  /\ (u.place = "portal") = (u.portal # None)
  /\ u.portal # None => u.portal \in listed /\ rel[u.portal].from = u.table
  /\ u.rel # None => /\ u.rel \in listed
                     /\ rel[u.rel].from = ParentTable(rel, u)
  /\ u.related # None => /\ u.rel # None /\ u.related \in listed
                         /\ rel[u.related].from = rel[u.rel].to
  /\ u.name \in fields[Shows(rel, u)[1]]

AddUse(u) ==
  /\ CanUse(u)
  /\ uses' = uses \cup {u}
  /\ file' = Saved(tables, fields, rel, listed, uses')
  /\ UNCHANGED <<tables, fields, rel, listed, adrift>>

(* Dialog_Layout_Details::on_button_edit(), of the portal with the items   *)
(* us in a layout of t.  offer_relationship_list() answers with a          *)
(* relationship that was chosen, or, when the developer cancels, with a    *)
(* copy that it has made of the portal's own; either is taken.             *)
Portal(t, p) == {u \in uses : u.table = t /\ u.portal = p}

SetPortal(us, q, rl) ==
  /\ uses' = (uses \ us) \cup {[u EXCEPT !.portal = q] : u \in us}
  /\ rel' = Alive(rl, listed, uses')
  /\ file' = Saved(tables, fields, rl, listed, uses')
  /\ UNCHANGED <<tables, fields, listed>>

ChoosePortal(us, t, p, q) ==
  /\ us # {} /\ us \subseteq Portal(t, p)
  /\ q \in listed /\ rel[q].from = t
  /\ SetPortal(us, q, rel)
  /\ adrift' = {r \in adrift : rel'[r] # NoRel}

CopyPortal(us, t, p, q) ==
  /\ us # {} /\ us \subseteq Portal(t, p)
  /\ rel[q] = NoRel
  /\ SetPortal(us, q, [rel EXCEPT ![q] = rel[p]])
  /\ adrift' = {r \in adrift \cup (IF p \in adrift THEN {q} ELSE {}) :
                  rel'[r] # NoRel}

RemoveUse(u) ==
  /\ u \in uses
  /\ uses' = uses \ {u}
  /\ rel' = Alive(rel, listed, uses')
  /\ adrift' = {r \in adrift : rel'[r] # NoRel}
  /\ file' = Saved(tables, fields, rel, listed, uses')
  /\ UNCHANGED <<tables, fields, listed>>

-----------------------------------------------------------------------------
(* Removing.                                                               *)

(* Trees that LayoutGroup's functions walk: not the print layouts, nor the *)
(* field that a LayoutItem_GroupBy groups by.                              *)
Walked(u) == u.place \in {"layout", "group", "portal"}

\* Mutant: relationships are compared by address.
HoldersOf(us, r) ==
  {u \in us : Walked(u) /\ u.table = rel[r].from /\ r \in {u.portal, u.rel}}

(* Document::remove_relationship() looks at the layouts of the from-table  *)
(* and compares Relationships by value; it ignores the second relationship *)
(* of an item that is related through two.                                 *)
UsesOf(us, r) ==
  {u \in us : /\ Walked(u) /\ u.table = rel[r].from
              /\ \E q \in {u.portal, u.rel} \ {None} : rel[q] = rel[r]}

UsesOfAny(us, rs) == UNION {UsesOf(us, r) : r \in rs}

(* LayoutGroup::remove_field() passes the table of the layout on into the  *)
(* portals.                                                                *)
FieldUses(us, t, f) ==
  {u \in us : Walked(u) /\ TableUsed(rel, u, u.table) = t /\ u.name = f}

(* The rest of a removal, given what else of the document is gone.  The    *)
(* file is written when a relationship leaves its list, before its items   *)
(* leave the layouts: what a loop over tables and relationships cleans     *)
(* before its last such moment is gone from the file as well, which of it  *)
(* depends on their order.                                                 *)
Remove(ts, fs, us, doomed, cleaned) ==
  /\ tables' = ts
  /\ fields' = fs
  /\ listed' = {r \in listed \ doomed : rel[r].from \in ts}
  /\ uses' = us \ (UsesOfAny(us, doomed) \cup cleaned)
  /\ rel' = Alive(rel, listed', uses')
  /\ adrift' = {r \in adrift : rel'[r] # NoRel}
  /\ \/ /\ doomed = {}
        /\ file' = Saved(ts, fs, rel, listed', us)
     \/ \E last \in doomed, early \in SUBSET (us \ uses') :
          /\ early \cap UsesOf(us, last) = {}
          /\ file' = Saved(ts, fs, rel, listed', us \ early)

(* Box_DB_Table_Relationships::on_adddel_user_requested_delete() *)
RemoveRelationship(r) ==
  /\ r \in listed
  /\ Remove(tables, fields, uses, {r}, {})

\* Mutant: only the relationships that start from the field.
StartingFrom(t, f) == {r \in listed : rel[r].from = t /\ rel[r].fromField = f}

Joining(t, f) ==
  {r \in listed : \/ rel[r].from = t /\ rel[r].fromField = f
                  \/ rel[r].to = t /\ rel[r].toField = f}

(* Document::remove_field() *)
RemoveField(t, f) ==
  /\ t \in tables /\ f \in fields[t]
  /\ Remove(tables, [fields EXCEPT ![t] = @ \ {f}], uses, Joining(t, f),
            FieldUses(uses, t, f))

(* Document::remove_table(): its own relationships and layouts go with it. *)
RemoveTable(t) ==
  /\ t \in tables
  /\ Remove(tables \ {t}, [fields EXCEPT ![t] = {}],
            {u \in uses : u.table # t},
            {r \in listed : rel[r].to = t /\ rel[r].from # t}, {})

(* The objects that are equal to one of rs, those of rs included.          *)
Equals(rs) == {c \in Rels : \E r \in rs : rel[c] = rel[r]}

(* Box_DB_Table_Relationships::save_to_document(), when the dialog closes: *)
(* renamed rows are renamed, and then the test that should keep a second   *)
(* relationship of the same name out of the new list keeps all of them out.*)
CloseRelationships(t, renamed) ==
  /\ t \in tables
  /\ LET gone == {r \in listed : rel[r].from = t}
         named == [r \in Rels |-> IF r \in gone
                                    THEN [rel[r] EXCEPT !.name = renamed[r]]
                                    ELSE rel[r]]
     IN  /\ gone # {}
         /\ listed' = listed \ gone
         /\ rel' = Alive(named, listed', uses)
         /\ adrift' = {r \in adrift \cup Equals(gone) : rel'[r] # NoRel}
         /\ file' = Saved(tables, fields, named, listed', uses)
  /\ UNCHANGED <<tables, fields, uses>>

-----------------------------------------------------------------------------
(* Renaming.  Only the objects that are listed are changed: one outside the*)
(* lists is left behind when the one that it is equal to changes.          *)

LeftBehind(rl) == Equals({r \in listed : rl[r] # rel[r]}) \ listed

(* Whether change_field_item_name() of the item's container renames it.    *)
GroupRenames(u, t) == u.rel # None => rel[u.rel].to = t

PortalRenames(u, t) ==
  \/ TableUsed(rel, u, None) = t
  \/ u.portal # None /\ rel[u.portal].to = t

(* Document::change_field_name(): change_field_item_name() in the layouts  *)
(* of the field's own table, elsewhere change_related_field_item_name(),   *)
(* which goes over to change_field_item_name() in the groups within.       *)
Renames(u, t) ==
  \/ u.place = "layout" /\ GroupRenames(u, t) /\ (u.table = t \/ u.rel # None)
  \/ u.place = "group" /\ GroupRenames(u, t)
  \/ u.place = "portal" /\ PortalRenames(u, t)

RenameField(t, f, g) ==
  /\ t \in tables /\ f \in fields[t] /\ g \notin fields[t]
  /\ fields' = [fields EXCEPT ![t] = (@ \ {f}) \cup {g}]
  /\ LET Field(tt, ff) == IF tt = t /\ ff = f THEN g ELSE ff
     IN  rel' = [r \in Rels |->
                   IF r \in listed
                     THEN [rel[r] EXCEPT
                             !.fromField = Field(rel[r].from, @),
                             !.toField = Field(rel[r].to, @)]
                     ELSE rel[r]]
  /\ uses' = {IF u.name = f /\ Renames(u, t) THEN [u EXCEPT !.name = g]
              ELSE u : u \in uses}
  /\ adrift' = adrift \cup LeftBehind(rel')
  /\ file' = Saved(tables, fields', rel', listed, uses')
  /\ UNCHANGED <<tables, listed>>

(* Document::change_table_name() *)
RenameTable(t, n) ==
  /\ t \in tables /\ n \notin tables
  /\ tables' = (tables \ {t}) \cup {n}
  /\ fields' = [fields EXCEPT ![n] = fields[t], ![t] = {}]
  /\ LET Table(tt) == IF tt = t THEN n ELSE tt
     IN  /\ rel' = [r \in Rels |->
                      IF r \in listed
                        THEN [rel[r] EXCEPT !.from = Table(@), !.to = Table(@)]
                        ELSE rel[r]]
         /\ uses' = {[u EXCEPT !.table = Table(@)] : u \in uses}
  /\ adrift' = adrift \cup LeftBehind(rel')
  /\ file' = Saved(tables', fields', rel', listed, uses')
  /\ UNCHANGED listed

(* Window_Translations::save_to_document(): the titles of the relationships*)
(* that are listed, among those of all other parts.                        *)
Translate(r, title) ==
  /\ r \in listed /\ title # rel[r].title
  /\ rel' = [rel EXCEPT ![r].title = title]
  /\ adrift' = adrift \cup LeftBehind(rel')
  /\ file' = Saved(tables, fields, rel', listed, uses)
  /\ UNCHANGED <<tables, fields, listed, uses>>

(* The document is closed and opened again: Document::load_after(), with   *)
(* new Relationship objects for those in the file.                         *)
Reload ==
  \E ls \in SUBSET Rels :
    \E rl \in [ls -> file.rels] :
      /\ {rl[r] : r \in ls} = file.rels
      /\ \A r, q \in ls : rl[r] = rl[q] => r = q
      /\ tables' = file.tables
      /\ fields' = file.fields
      /\ rel' = [r \in Rels |-> IF r \in ls THEN rl[r] ELSE NoRel]
      /\ listed' = ls
      /\ uses' = {LoadedUse(rl, ls, s) : s \in file.uses}
      /\ adrift' = {}
      /\ UNCHANGED file

Next ==
  \/ \E t \in Tables : AddTable(t) \/ RemoveTable(t)
  \/ \E t, n \in Tables : RenameTable(t, n)
  \/ \E t \in Tables, f \in FieldNames : AddField(t, f) \/ RemoveField(t, f)
  \/ \E t \in Tables, f, g \in FieldNames : RenameField(t, f, g)
  \/ Cardinality(uses) < MaxUses /\ \E u \in Use : AddUse(u)
  \/ \E us \in SUBSET uses, t \in Tables, p, q \in Rels :
       ChoosePortal(us, t, p, q) \/ CopyPortal(us, t, p, q)
  \/ \E u \in uses : RemoveUse(u)
  \/ \E r \in Rels : RemoveRelationship(r)
  \/ \E r \in Rels, title \in Titles : Translate(r, title)
  \/ \E t \in Tables, renamed \in [Rels -> RelNames] :
       CloseRelationships(t, renamed)
  \/ Reload

Spec == Init /\ [][Next]_vars

-----------------------------------------------------------------------------
(* Properties.                                                             *)

(* However tables and fields were added, renamed and removed, and the file *)
(* written and read in between, every relationship of the document joins   *)
(* fields that exist, of tables that exist: the SQL built from it is       *)
(* valid.                                                                  *)
RelationshipsJoin ==
  \A r \in listed :
    /\ rel[r].from \in tables /\ rel[r].fromField \in fields[rel[r].from]
    /\ rel[r].to \in tables /\ rel[r].toField \in fields[rel[r].to]

(* An item of a layout or report, or a portal, that shows records through  *)
(* a relationship of its table holds one that the table still lists, or a  *)
(* copy that is equal to it: removals reach them all, by value, though they*)
(* may come from a field or a table at the other end.  Not so the objects  *)
(* adrift: those that the relationships dialog dropped from its list, and  *)
(* the copies that a renaming, a translation or that dialog has passed by. *)
LayoutsKeepRelationships ==
  \A u \in uses : Walked(u) =>
    \A r \in {u.portal, IF u.place = "portal" THEN None ELSE u.rel} \ {None} :
      \/ r \in adrift
      \/ \E q \in listed : rel[q] = rel[r] /\ rel[q].from = u.table

(* The names in the file mean what the pointers in memory mean: an item    *)
(* whose relationships are all in the document is the same item when it is *)
(* loaded again, whatever was renamed since it was made.                   *)
Attached(u) ==
  /\ Refs(u) \subseteq listed
  /\ u.portal # None => rel[u.portal].from = u.table
  /\ u.rel # None => rel[u.rel].from = ParentTable(rel, u)
  /\ u.related # None => rel[u.related].from = rel[u.rel].to

ReloadAgrees ==
  \A u \in uses : Attached(u) => LoadedUse(rel, listed, SavedUseOf(rel, u)) = u

(* set_modified() writes the file before an operation is over, and every   *)
(* operation writes it late enough for the tables, the fields and the      *)
(* relationships.                                                          *)
FileKnowsTheSchema ==
  /\ file.tables = tables
  /\ file.fields = fields
  /\ file.rels = {rel[r] : r \in listed}
=============================================================================
