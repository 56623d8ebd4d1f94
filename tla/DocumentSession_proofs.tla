------------------------ MODULE DocumentSession_proofs ------------------------
(***************************************************************************)
(* Proofs about DocumentSession: the modified flag never says less than it *)
(* should but for two operations, opening an example touches no other file,*)
(* and opening a document forgets no running server, for all sets of files.*)
(*                                                                         *)
(* Each setter of Document has a lemma that says what it does to the       *)
(* document and the disk, and one predicate goes through them all: the     *)
(* document is Kept, that is, flagged as modified or equal to its file.    *)
(***************************************************************************)
EXTENDS DocumentSession, TLAPS

Disk ==
  {d \in [Files -> Saved \cup {NoContent}] : \A f \in ReadOnly : d[f] # NoContent}
Pair == [doc : Doc, disk : Disk]

Kept(x) ==
  \/ x.doc.modified \/ x.doc.uri \in ReadOnly
  \/ x.disk[x.doc.uri] = Image(x.doc)

(* The fields that every setter leaves alone but the one it is for.        *)
SameUri(d, e) == e.uri = d.uri
SameLevel(d, e) == e.level = d.level
SameContent(d, e) == e.example = d.example /\ e.content = d.content
Same(d, e) == SameUri(d, e) /\ SameLevel(d, e) /\ SameContent(d, e)

(* While nothing is chosen yet the document is a new one, unless an attempt*)
(* to create one has changed it; only then a server may run.               *)
StillNew ==
  window = "choosing" =>
    /\ ~doc.example
    /\ doc.isNew => doc = NewDoc /\ ~server

Inv == TypeOK /\ StillNew

-----------------------------------------------------------------------------
(* What the setters do.                                                    *)

LEMMA HereIsPair == TypeOK => Here \in Pair /\ Here.doc = doc /\ Here.disk = disk
<1> SUFFICES ASSUME TypeOK
             PROVE  Here \in Pair /\ Here.doc = doc /\ Here.disk = disk
  OBVIOUS
<1>1. doc \in Doc
  BY DEF TypeOK
<1>2. disk \in [Files -> Saved \cup {NoContent}]
  BY DEF TypeOK
<1>3. \A f \in ReadOnly : disk[f] # NoContent
  BY DEF TypeOK
<1>4. disk \in Disk
  BY <1>2, <1>3 DEF Disk
<1> QED
  BY <1>1, <1>4 DEF Here, Pair

LEMMA ImageIsSaved == ASSUME NEW d \in Doc PROVE Image(d) \in Saved
BY DEF Doc, Image, Saved

LEMMA SetUserLevelDoes ==
  ASSUME NEW x \in Pair, NEW level \in Levels, NEW y, y = SetUserLevel(x, level)
  PROVE  /\ y \in Pair /\ y.disk = x.disk
         /\ SameUri(x.doc, y.doc) /\ SameContent(x.doc, y.doc)
         /\ y.doc.modified = x.doc.modified /\ y.doc.isNew = x.doc.isNew
         /\ y.doc.autosave = x.doc.autosave
         /\ y.doc.level = IF x.doc.uri \in ReadOnly THEN "operator" ELSE level
BY DEF SetUserLevel, Pair, Doc, Levels, SameUri, SameContent

LEMMA SaveDoes ==
  ASSUME NEW x \in Pair, NEW y, y = Save(x)
  PROVE  /\ y \in Pair /\ y.doc = x.doc
         /\ x.doc.modified /\ Writable(x.doc.uri) =>
              y.disk = [x.disk EXCEPT ![x.doc.uri] = Image(x.doc)]
         /\ ~(x.doc.modified /\ Writable(x.doc.uri)) => y.disk = x.disk
<1>1. CASE x.doc.modified /\ Writable(x.doc.uri)
  <2> DEFINE d == [x.disk EXCEPT ![x.doc.uri] = Image(x.doc)]
  <2>1. x.disk \in [Files -> Saved \cup {NoContent}] /\ x.doc \in Doc
    BY DEF Pair, Disk
  <2>2. Image(x.doc) \in Saved /\ x.doc.uri \notin ReadOnly
    BY <1>1, <2>1, ImageIsSaved DEF Writable
  <2>3. d \in [Files -> Saved \cup {NoContent}]
    BY <2>1, <2>2
  <2>4. ASSUME NEW f \in ReadOnly PROVE d[f] # NoContent
    <3>1. f \in Files /\ x.disk[f] # NoContent
      BY SessionAssumption DEF Pair, Disk
    <3> QED
      BY <2>1, <2>2, <3>1
  <2>5. d \in Disk
    BY <2>3, <2>4 DEF Disk
  <2>6. y = [x EXCEPT !.disk = d]
    BY <1>1 DEF Save
  <2> HIDE DEF d
  <2>7. y \in Pair /\ y.doc = x.doc /\ y.disk = d
    BY <2>5, <2>6 DEF Pair
  <2> QED
    BY <1>1, <2>7 DEF d
<1>2. CASE ~(x.doc.modified /\ Writable(x.doc.uri))
  BY <1>2 DEF Save
<1> QED
  BY <1>1, <1>2

LEMMA SetUnmodifiedDoes ==
  ASSUME NEW x \in Pair, NEW y, y = SetUnmodified(x)
  PROVE  /\ y \in Pair /\ y.disk = x.disk
         /\ Same(x.doc, y.doc)
         /\ y.doc.isNew = x.doc.isNew /\ y.doc.autosave = x.doc.autosave
         /\ IF Level(x.doc) = "developer" THEN ~y.doc.modified
            ELSE y.doc.modified = x.doc.modified
BY DEF SetUnmodified, Pair, Doc, Same, SameUri, SameLevel, SameContent

(* What Kept looks at.                                                     *)
LEMMA KeptIsSame ==
  ASSUME NEW x \in Pair, NEW y \in Pair, x.disk = y.disk,
         SameUri(x.doc, y.doc), SameContent(x.doc, y.doc),
         x.doc.modified => y.doc.modified
  PROVE  /\ Image(y.doc) = Image(x.doc)
         /\ Kept(x) => Kept(y)
BY DEF Kept, Image, SameUri, SameContent

LEMMA KeptIfWritten ==
  ASSUME NEW x \in Pair, NEW y \in Pair, Writable(x.doc.uri),
         y.disk = [x.disk EXCEPT ![x.doc.uri] = Image(x.doc)],
         SameUri(x.doc, y.doc), SameContent(x.doc, y.doc)
  PROVE  Kept(y)
<1>1. x.doc.uri \in Files /\ x.disk \in [Files -> Saved \cup {NoContent}]
  BY DEF Pair, Doc, Disk, Writable
<1>2. Image(y.doc) = Image(x.doc)
  BY DEF Image, SameContent
<1> QED
  BY <1>1, <1>2 DEF Kept, SameUri

(* A change of the user level keeps a document kept.                       *)
LEMMA LevelKept ==
  ASSUME NEW x \in Pair, Kept(x)
  PROVE  \A level \in Levels : LET y == SetUserLevel(x, level) IN
           /\ y \in Pair /\ y.disk = x.disk
           /\ SameUri(x.doc, y.doc) /\ SameContent(x.doc, y.doc)
           /\ y.doc.isNew = x.doc.isNew /\ y.doc.autosave = x.doc.autosave
           /\ Kept(y)
<1> SUFFICES ASSUME NEW level \in Levels, NEW y, y = SetUserLevel(x, level)
             PROVE  /\ y \in Pair /\ y.disk = x.disk
                    /\ SameUri(x.doc, y.doc) /\ SameContent(x.doc, y.doc)
                    /\ y.doc.isNew = x.doc.isNew
                    /\ y.doc.autosave = x.doc.autosave
                    /\ Kept(y)
  OBVIOUS
<1>1. /\ y \in Pair /\ y.disk = x.disk
      /\ SameUri(x.doc, y.doc) /\ SameContent(x.doc, y.doc)
      /\ y.doc.modified = x.doc.modified
      /\ y.doc.isNew = x.doc.isNew /\ y.doc.autosave = x.doc.autosave
  BY SetUserLevelDoes
<1> QED
  BY <1>1, KeptIsSame

(* What autosave does to a document and the disk: it clears the flag, and  *)
(* then the file is what the document is.                                  *)
Autosaved(x, y) ==
  /\ y \in Pair
  /\ Same(x.doc, y.doc)
  /\ y.doc.isNew = x.doc.isNew /\ y.doc.autosave = x.doc.autosave
  /\ \/ y.disk = x.disk
     \/ /\ x.doc.modified /\ Level(x.doc) = "developer"
        /\ Writable(x.doc.uri)
        /\ y.disk = [x.disk EXCEPT ![x.doc.uri] = Image(x.doc)]
  /\ Kept(x) => Kept(y)

LEMMA SaveChangesDoes ==
  ASSUME NEW x \in Pair, NEW y, y = SaveChanges(x)
  PROVE  Autosaved(x, y)
<1>1. CASE Level(x.doc) = "developer" /\ SaveSucceeds(x)
  <2> DEFINE z == Save(x)
  <2>1. y = SetUnmodified(z)
    BY <1>1 DEF SaveChanges
  <2>2. /\ z \in Pair /\ z.doc = x.doc
        /\ x.doc.modified /\ Writable(x.doc.uri) =>
             z.disk = [x.disk EXCEPT ![x.doc.uri] = Image(x.doc)]
        /\ ~(x.doc.modified /\ Writable(x.doc.uri)) => z.disk = x.disk
    BY SaveDoes
  <2> HIDE DEF z
  <2>3. /\ y \in Pair /\ y.disk = z.disk /\ Same(x.doc, y.doc)
        /\ y.doc.isNew = x.doc.isNew /\ y.doc.autosave = x.doc.autosave
    BY <2>1, <2>2, SetUnmodifiedDoes
  <2>4. x.doc.modified => Writable(x.doc.uri)
    BY <1>1 DEF SaveSucceeds
  <2>5. CASE x.doc.modified
    <3>1. y.disk = [x.disk EXCEPT ![x.doc.uri] = Image(x.doc)]
      BY <2>2, <2>3, <2>4, <2>5
    <3>2. Kept(y)
      BY <2>3, <2>4, <2>5, <3>1, KeptIfWritten DEF Same
    <3> QED
      BY <1>1, <2>3, <2>4, <2>5, <3>1, <3>2 DEF Autosaved
  <2>6. CASE ~x.doc.modified
    <3>1. y.disk = x.disk
      BY <2>2, <2>3, <2>6
    <3>2. Kept(x) => Kept(y)
      BY <2>3, <2>6, <3>1, KeptIsSame DEF Same
    <3> QED
      BY <2>3, <3>1, <3>2 DEF Autosaved
  <2> QED
    BY <2>5, <2>6
<1>2. CASE ~(Level(x.doc) = "developer" /\ SaveSucceeds(x))
  BY <1>2 DEF SaveChanges, Autosaved, Same, SameUri, SameLevel, SameContent
<1> QED
  BY <1>1, <1>2

LEMMA SetModifiedDoes ==
  ASSUME NEW x \in Pair, NEW y, y = SetModified(x)
  PROVE  /\ y \in Pair
         /\ Same(x.doc, y.doc) /\ y.doc.autosave = x.doc.autosave
         /\ IF Level(x.doc) = "developer"
              THEN /\ ~y.doc.isNew
                   /\ Kept(y)
                   /\ ~x.doc.autosave => y.doc.modified /\ y.disk = x.disk
              ELSE y = x
<1> DEFINE z == [x EXCEPT !.doc.modified = TRUE, !.doc.isNew = FALSE]
<1>1. /\ z \in Pair /\ z.disk = x.disk
      /\ Same(x.doc, z.doc) /\ z.doc.autosave = x.doc.autosave
      /\ z.doc.modified /\ ~z.doc.isNew
  BY DEF Pair, Doc, Same, SameUri, SameLevel, SameContent
<1>2. CASE Level(x.doc) # "developer"
  BY <1>2 DEF SetModified, Same, SameUri, SameLevel, SameContent
<1>3. CASE Level(x.doc) = "developer" /\ x.doc.autosave
  <2>1. y = SaveChanges(z)
    BY <1>3 DEF SetModified
  <2> HIDE DEF z
  <2>2. Autosaved(z, y) /\ Kept(z)
    BY <1>1, <2>1, SaveChangesDoes DEF Kept
  <2> QED
    BY <1>1, <1>3, <2>2
    DEF Autosaved, Same, SameUri, SameLevel, SameContent
<1>4. CASE Level(x.doc) = "developer" /\ ~x.doc.autosave
  <2>1. y = z
    BY <1>4 DEF SetModified
  <2> HIDE DEF z
  <2> QED
    BY <1>1, <1>4, <2>1 DEF Kept
<1> QED
  BY <1>2, <1>3, <1>4

LEMMA SetAllowAutosaveDoes ==
  ASSUME NEW x \in Pair, NEW value \in BOOLEAN,
         NEW y, y = SetAllowAutosave(x, value)
  PROVE  /\ y \in Pair
         /\ Same(x.doc, y.doc)
         /\ y.doc.autosave = value /\ y.doc.isNew = x.doc.isNew
         /\ Kept(x) => Kept(y)
         /\ ~value \/ x.doc.autosave =>
              y.doc.modified = x.doc.modified /\ y.disk = x.disk
         /\ \/ y.disk = x.disk
            \/ /\ Writable(x.doc.uri)
               /\ y.disk = [x.disk EXCEPT ![x.doc.uri] = Image(x.doc)]
<1> DEFINE z == [x EXCEPT !.doc.autosave = value]
<1>1. /\ z \in Pair /\ z.disk = x.disk
      /\ Same(x.doc, z.doc) /\ z.doc.modified = x.doc.modified
      /\ z.doc.isNew = x.doc.isNew /\ z.doc.autosave = value
  BY DEF Pair, Doc, Same, SameUri, SameLevel, SameContent
<1>2. /\ z.doc.uri = x.doc.uri
      /\ Image(z.doc) = Image(x.doc) /\ (Kept(x) => Kept(z))
  BY <1>1, KeptIsSame DEF Same, SameUri
<1>3. CASE value /\ ~x.doc.autosave /\ x.doc.modified
  <2>1. y = SaveChanges(z)
    BY <1>3 DEF SetAllowAutosave
  <2> HIDE DEF z
  <2>2. Autosaved(z, y)
    BY <1>1, <2>1, SaveChangesDoes
  <2>3. Same(x.doc, y.doc)
    BY <1>1, <2>2 DEF Autosaved, Same, SameUri, SameLevel, SameContent
  <2> QED
    BY <1>1, <1>2, <1>3, <2>2, <2>3 DEF Autosaved
<1>4. CASE ~(value /\ ~x.doc.autosave /\ x.doc.modified)
  <2>1. y = z
    BY <1>4 DEF SetAllowAutosave
  <2> HIDE DEF z
  <2> QED
    BY <1>1, <1>2, <1>4, <2>1
<1> QED
  BY <1>3, <1>4

LEMMA SetFileUriDoes ==
  ASSUME NEW x \in Pair, NEW f \in Files \cup {NoFile},
         NEW y, y = SetFileUri(x, f)
  PROVE  /\ y \in Pair /\ y.disk = x.disk /\ y.doc.uri = f
         /\ SameLevel(x.doc, y.doc) /\ SameContent(x.doc, y.doc)
         /\ y.doc.modified = x.doc.modified /\ y.doc.isNew = x.doc.isNew
         /\ y.doc.autosave = x.doc.autosave
BY DEF SetFileUri, Pair, Doc, SameLevel, SameContent

LEMMA SetIsExampleDoes ==
  ASSUME NEW x \in Pair, NEW value \in BOOLEAN,
         Level(x.doc) = "developer", NEW y, y = SetIsExample(x, value)
  PROVE  /\ y \in Pair
         /\ SameUri(x.doc, y.doc) /\ SameLevel(x.doc, y.doc)
         /\ y.doc.content = x.doc.content /\ y.doc.example = value
         /\ y.doc.autosave = x.doc.autosave
         /\ y.doc.isNew => x.doc.isNew
         /\ Kept(x) => Kept(y)
         /\ ~x.doc.autosave => y.disk = x.disk /\ (x.doc.modified => y.doc.modified)
<1>1. CASE x.doc.example = value
  BY <1>1 DEF SetIsExample, SameUri, SameLevel
<1>2. CASE x.doc.example # value
  <2> DEFINE z == [x EXCEPT !.doc.example = value]
  <2>1. /\ z \in Pair /\ z.disk = x.disk
        /\ SameUri(x.doc, z.doc) /\ SameLevel(x.doc, z.doc)
        /\ z.doc.content = x.doc.content /\ z.doc.example = value
        /\ z.doc.autosave = x.doc.autosave
    BY DEF Pair, Doc, SameUri, SameLevel
  <2>2. y = SetModified(z)
    BY <1>2 DEF SetIsExample
  <2> HIDE DEF z
  <2>3. Level(z.doc) = "developer"
    BY <2>1 DEF Level, SameUri, SameLevel
  <2> QED
    BY <2>1, <2>2, <2>3, SetModifiedDoes
    DEF Same, SameUri, SameLevel, SameContent
<1> QED
  BY <1>1, <1>2

LEMMA ChangeDoes ==
  ASSUME NEW x \in Pair, x.doc.content < MaxContent, NEW y, y = Change(x)
  PROVE  /\ y \in Pair
         /\ SameUri(x.doc, y.doc) /\ SameLevel(x.doc, y.doc)
         /\ y.doc.content = x.doc.content + 1 /\ y.doc.example = x.doc.example
         /\ y.doc.autosave = x.doc.autosave
         /\ y.doc.isNew => x.doc.isNew
         /\ Level(x.doc) = "developer" => Kept(y) /\ ~y.doc.isNew
         /\ ~x.doc.autosave => y.disk = x.disk
         /\ ~x.doc.autosave /\ Level(x.doc) = "developer" => y.doc.modified
<1> DEFINE z == [x EXCEPT !.doc.content = @ + 1]
<1>1. x.doc.content \in 0..MaxContent
  BY DEF Pair, Doc, Contents
<1>2. x.doc.content + 1 \in Contents
  BY <1>1, SessionAssumption DEF Contents
<1>3. /\ z \in Pair /\ z.disk = x.disk
      /\ SameUri(x.doc, z.doc) /\ SameLevel(x.doc, z.doc)
      /\ z.doc.content = x.doc.content + 1 /\ z.doc.example = x.doc.example
      /\ z.doc.autosave = x.doc.autosave /\ z.doc.isNew = x.doc.isNew
  BY <1>2 DEF Pair, Doc, SameUri, SameLevel
<1>4. y = SetModified(z)
  BY DEF Change
<1> HIDE DEF z
<1>5. Level(z.doc) = Level(x.doc)
  BY <1>3 DEF Level, SameUri, SameLevel
<1> QED
  BY <1>3, <1>4, <1>5, SetModifiedDoes
  DEF Same, SameUri, SameLevel, SameContent

LEMMA SaveAsDoes ==
  ASSUME NEW x \in Pair, NEW f \in Files, NEW y, y = SaveAs(x, f)
  PROVE  /\ y \in Pair /\ y.doc.uri = f
         /\ SameLevel(x.doc, y.doc) /\ SameContent(x.doc, y.doc)
         /\ y.doc.isNew = x.doc.isNew /\ y.doc.autosave = x.doc.autosave
         /\ ~x.doc.modified => y.disk = x.disk /\ ~y.doc.modified
<1> DEFINE z == SetFileUri(x, f)
<1>1. /\ z \in Pair /\ z.disk = x.disk /\ z.doc.uri = f
      /\ SameLevel(x.doc, z.doc) /\ SameContent(x.doc, z.doc)
      /\ z.doc.modified = x.doc.modified /\ z.doc.isNew = x.doc.isNew
      /\ z.doc.autosave = x.doc.autosave
  BY SetFileUriDoes
<1>2. y = IF SaveSucceeds(z) THEN SetUnmodified(Save(z)) ELSE z
  BY DEF SaveAs
<1> HIDE DEF z
<1>3. CASE SaveSucceeds(z)
  <2> DEFINE w == Save(z)
  <2>1. /\ w \in Pair /\ w.doc = z.doc
        /\ ~z.doc.modified => w.disk = z.disk
    BY <1>1, SaveDoes
  <2>2. y = SetUnmodified(w)
    BY <1>2, <1>3
  <2> HIDE DEF w
  <2> QED
    BY <1>1, <2>1, <2>2, SetUnmodifiedDoes
    DEF Same, SameUri, SameLevel, SameContent
<1>4. CASE ~SaveSucceeds(z)
  BY <1>1, <1>2, <1>4
<1> QED
  BY <1>3, <1>4

-----------------------------------------------------------------------------
(* Opening                                                                 *)

LEMMA NewDocIsDoc == NewDoc \in Doc
BY SessionAssumption DEF NewDoc, Doc, Contents, Levels

(* What is read equals its file.                                           *)
LEMMA ReadDoes ==
  ASSUME NEW x \in Pair, x.doc.uri \in Files, x.disk[x.doc.uri] # NoContent,
         Level(x.doc) = "developer" \/ ~x.doc.modified, NEW y, y = Read(x)
  PROVE  /\ y \in Pair /\ y.disk = x.disk
         /\ SameUri(x.doc, y.doc) /\ SameLevel(x.doc, y.doc)
         /\ y.doc.content = x.disk[x.doc.uri].content
         /\ y.doc.example = x.disk[x.doc.uri].example
         /\ ~y.doc.modified /\ ~y.doc.isNew /\ y.doc.autosave = x.doc.autosave
         /\ Kept(y)
<1> DEFINE file == x.disk[x.doc.uri]
           read == [x EXCEPT !.doc.content = file.content,
                             !.doc.example = file.example,
                             !.doc.isNew = FALSE]
<1>1. file \in Saved
  BY DEF Pair, Disk
<1>2. y = SetUnmodified(read)
  BY DEF Read
<1> HIDE DEF file
<1>3. /\ read \in Pair /\ read.disk = x.disk
      /\ SameUri(x.doc, read.doc) /\ SameLevel(x.doc, read.doc)
      /\ read.doc.content = file.content /\ read.doc.example = file.example
      /\ ~read.doc.isNew /\ read.doc.modified = x.doc.modified
      /\ read.doc.autosave = x.doc.autosave
  BY <1>1 DEF Pair, Doc, Saved, SameUri, SameLevel
<1>4. Level(read.doc) = Level(x.doc)
  BY <1>3 DEF Level, SameUri, SameLevel
<1> HIDE DEF read
<1>5. /\ y \in Pair /\ y.disk = x.disk /\ Same(read.doc, y.doc)
      /\ ~y.doc.isNew /\ y.doc.autosave = x.doc.autosave /\ ~y.doc.modified
  BY <1>2, <1>3, <1>4, SetUnmodifiedDoes
<1>6. /\ SameUri(x.doc, y.doc) /\ SameLevel(x.doc, y.doc)
      /\ y.doc.content = file.content /\ y.doc.example = file.example
  BY <1>3, <1>5 DEF Same, SameUri, SameLevel, SameContent
<1>7. Image(y.doc) = file
  BY <1>1, <1>6 DEF Image, Saved
<1>8. Kept(y)
  BY <1>5, <1>6, <1>7 DEF Kept, SameUri, file
<1> QED
  BY <1>5, <1>6, <1>8 DEF file

LEMMA LoadedIs ==
  ASSUME Inv, window = "choosing", doc.isNew,
         NEW f \in Files, disk[f] # NoContent, NEW y, y = Loaded(f)
  PROVE  /\ y \in Pair /\ y.disk = disk /\ y.doc.uri = f
         /\ y.doc.content = disk[f].content /\ y.doc.example = disk[f].example
         /\ ~y.doc.modified /\ ~y.doc.isNew /\ ~y.doc.autosave
         /\ y.doc.level = "developer"
         /\ Kept(y)
<1>1. Here \in Pair /\ Here.doc = NewDoc /\ Here.disk = disk
  BY HereIsPair DEF Inv, StillNew
<1> DEFINE located == SetFileUri(Here, f)
           read == Read(located)
<1>2. /\ located \in Pair /\ located.disk = disk /\ located.doc.uri = f
      /\ ~located.doc.modified /\ located.doc.level = "developer"
  BY <1>1, SetFileUriDoes DEF NewDoc, SameLevel
<1> HIDE DEF located
<1>3. /\ read \in Pair /\ read.disk = disk /\ read.doc.uri = f
      /\ read.doc.content = disk[f].content /\ read.doc.example = disk[f].example
      /\ ~read.doc.isNew /\ ~read.doc.modified /\ read.doc.level = "developer"
      /\ Kept(read)
  BY <1>2, ReadDoes DEF SameUri, SameLevel
<1> HIDE DEF read
<1>4. y = SetAllowAutosave(read, FALSE)
  BY DEF Loaded, located, read
<1>5. read \in Pair
  BY <1>3
<1>6. /\ y \in Pair /\ Same(read.doc, y.doc)
      /\ y.disk = read.disk /\ y.doc.modified = read.doc.modified
      /\ ~y.doc.autosave /\ y.doc.isNew = read.doc.isNew
      /\ Kept(read) => Kept(y)
  BY <1>4, <1>5, SetAllowAutosaveDoes
<1> QED
  BY <1>3, <1>6 DEF Same, SameUri, SameLevel, SameContent

LEMMA OpenedIs ==
  ASSUME NEW x \in Pair, x.doc.uri \in Files, NEW y, y = Opened(x)
  PROVE  /\ y \in Pair
         /\ SameUri(x.doc, y.doc) /\ SameContent(x.doc, y.doc)
         /\ y.doc.isNew = x.doc.isNew /\ y.doc.autosave
         /\ Kept(x) => Kept(y)
         /\ x.doc.autosave => y.disk = x.disk
<1> DEFINE v == SetUserLevel(x, "operator")
           w == SetAllowAutosave(v, TRUE)
<1>1. /\ v \in Pair /\ v.disk = x.disk
      /\ SameUri(x.doc, v.doc) /\ SameContent(x.doc, v.doc)
      /\ v.doc.modified = x.doc.modified /\ v.doc.isNew = x.doc.isNew
      /\ v.doc.autosave = x.doc.autosave /\ v.doc.level = "operator"
  BY SetUserLevelDoes DEF Levels
<1>2. Kept(x) => Kept(v)
  BY <1>1, KeptIsSame
<1> HIDE DEF v
<1>3. /\ w \in Pair /\ Same(v.doc, w.doc)
      /\ w.doc.autosave /\ w.doc.isNew = v.doc.isNew
      /\ Kept(v) => Kept(w)
      /\ v.doc.autosave => w.disk = v.disk
  BY <1>1, SetAllowAutosaveDoes
<1>4. Level(w.doc) # "developer"
  BY <1>1, <1>3, SessionAssumption DEF Level, Same, SameUri, SameLevel
<1>5. y = SetUnmodified(w)
  BY DEF Opened, v
<1> HIDE DEF w
<1>6. /\ y \in Pair /\ y.disk = w.disk /\ Same(w.doc, y.doc)
      /\ y.doc.isNew = w.doc.isNew /\ y.doc.autosave = w.doc.autosave
      /\ y.doc.modified = w.doc.modified
  BY <1>3, <1>4, <1>5, SetUnmodifiedDoes
<1>7. Kept(w) => Kept(y)
  BY <1>3, <1>6, KeptIsSame DEF Same
<1> QED
  BY <1>1, <1>2, <1>3, <1>6, <1>7 DEF Same, SameUri, SameContent

-----------------------------------------------------------------------------
(* Steps                                                                   *)

(* A step after which the document and the disk are y.                     *)
LEMMA Becoming ==
  ASSUME NEW y \in Pair, Becomes(y),
         y.doc.autosave,
         window' = "shown" =>
           y.doc.uri # NoFile /\ ~y.doc.isNew,
         broken' \subseteq Files, window' \in {"choosing", "shown", "closed"},
         cancelled' \in BOOLEAN, server' \in BOOLEAN, lost' \in BOOLEAN
  PROVE  /\ TypeOK'
         /\ Kept(y) => FlagKnows'
BY DEF Becomes, TypeOK, Pair, Disk, FlagKnows, IsSaved, Kept

(* What every step is to show: the invariant, and that the flag knows.     *)
Step == Inv' /\ (FlagKnows => FlagKnows')

LEMMA NewDocumentStep ==
  ASSUME Inv, NEW f \in Files,
         NEW outcome \in {"created", "noServer", "noDatabase"},
         NewDocument(f, outcome)
  PROVE  Step
<1> DEFINE saved == SaveAs(Here, f)
           dev == SetUserLevel(saved, "developer")
           located == Change(dev)
           connected == Change(located)
<1>1. /\ Here \in Pair /\ Here.doc = doc /\ Here.disk = disk
      /\ doc.autosave /\ doc.content + 2 <= MaxContent /\ f \notin ReadOnly
      /\ doc.content \in Nat /\ ~doc.example /\ window = "choosing"
      /\ f # NoFile
  BY HereIsPair, SessionAssumption
  DEF Inv, StillNew, TypeOK, NewDocument, Doc, Contents
<1>2. /\ saved \in Pair /\ saved.doc.uri = f /\ saved.doc.content = doc.content
      /\ saved.doc.autosave /\ ~saved.doc.example
  BY <1>1, SaveAsDoes DEF SameContent
<1> HIDE DEF saved
<1>3. /\ dev \in Pair /\ dev.doc.uri = f /\ dev.doc.content = doc.content
      /\ dev.doc.autosave /\ dev.doc.level = "developer" /\ ~dev.doc.example
  BY <1>1, <1>2, SetUserLevelDoes DEF SameUri, SameContent, Levels
<1> HIDE DEF dev
<1>4. /\ located \in Pair /\ located.doc.uri = f
      /\ located.doc.content = doc.content + 1
      /\ located.doc.autosave /\ located.doc.level = "developer"
      /\ ~located.doc.isNew /\ ~located.doc.example
  BY <1>1, <1>3, ChangeDoes, SessionAssumption
  DEF SameUri, SameLevel, Level
<1> HIDE DEF located
<1>5. /\ connected \in Pair /\ connected.doc.uri = f
      /\ connected.doc.autosave /\ ~connected.doc.isNew /\ Kept(connected)
      /\ ~connected.doc.example
  BY <1>1, <1>4, ChangeDoes, SessionAssumption
  DEF SameUri, SameLevel, Level
<1> HIDE DEF connected
<1>6. UNCHANGED <<broken, cancelled>>
  BY DEF NewDocument
<1>7. lost' \in BOOLEAN /\ server' \in BOOLEAN
  BY DEF NewDocument, ReplaceServer, Inv, TypeOK
<1>8. CASE outcome = "created"
  <2>1. Becomes(connected) /\ window' = "shown"
    BY <1>8 DEF NewDocument, connected, located, dev, saved
  <2>2. TypeOK' /\ FlagKnows'
    BY <1>1, <1>5, <1>6, <1>7, <2>1, Becoming DEF Inv, TypeOK
  <2> QED
    BY <2>1, <2>2 DEF Step, Inv, StillNew
<1>9. CASE outcome # "created"
  <2>1. PICK x \in {located, connected} :
          Becomes(SetFileUri(x, NoFile)) /\ window' = window
    BY <1>9 DEF NewDocument, connected, located, dev, saved
  <2> DEFINE y == SetFileUri(x, NoFile)
  <2>2. /\ y \in Pair /\ y.doc.autosave /\ ~y.doc.isNew /\ ~y.doc.example
    BY <1>4, <1>5, SetFileUriDoes DEF SameContent
  <2>3. Becomes(y)
    BY <2>1
  <2> HIDE DEF y
  <2>4. TypeOK'
    BY <1>1, <1>6, <1>7, <2>1, <2>2, <2>3, Becoming DEF Inv, TypeOK
  <2> QED
    BY <1>1, <2>1, <2>2, <2>3, <2>4
    DEF Step, Inv, StillNew, FlagKnows, Becomes
<1> QED
  BY <1>8, <1>9

(* Starting again with a new document.                                     *)
LEMMA StartAgainStep ==
  ASSUME Inv, window = "choosing", NEW x \in Pair, StartAgain(x),
         broken' \subseteq Files, cancelled' \in BOOLEAN,
         lost' \in BOOLEAN, server' = FALSE
  PROVE  Step
<1> DEFINE y == [x EXCEPT !.doc = NewDoc]
<1>1. y \in Pair /\ y.doc = NewDoc
  BY NewDocIsDoc DEF Pair
<1>2. Becomes(y) /\ window' = "choosing"
  BY DEF StartAgain
<1> HIDE DEF y
<1>3. y.doc.autosave
  <2>1. NewDoc.autosave
    BY DEF NewDoc
  <2> QED
    BY <1>1, <2>1
<1>4. TypeOK'
  <2>1. window' # "shown" /\ window' \in {"choosing", "shown", "closed"}
    BY <1>2
  <2>2. server' \in BOOLEAN
    OBVIOUS
  <2> QED
    BY <1>1, <1>2, <1>3, <2>1, <2>2, Becoming
<1> QED
  BY <1>1, <1>2, <1>4 DEF Step, Inv, StillNew, FlagKnows, Becomes, NewDoc

LEMMA FailToOpenStep ==
  ASSUME Inv, window = "choosing", NEW x \in Pair, FailToOpen(x),
         broken' \subseteq Files, cancelled' \in BOOLEAN
  PROVE  Step
BY StartAgainStep DEF FailToOpen, ReplaceServer, Inv, TypeOK

LEMMA OpenDocumentStep ==
  ASSUME Inv, NEW f \in Files, NEW port \in BOOLEAN,
         NEW outcome \in {"opened", "noServer", "cancelled"},
         OpenDocument(f, outcome, port)
  PROVE  Step
<1>1. /\ Here \in Pair /\ window = "choosing" /\ doc.isNew
      /\ disk[f] # NoContent /\ ~disk[f].example /\ f # NoFile
      /\ port => disk[f].content < MaxContent
      /\ broken' \subseteq Files /\ cancelled' \in BOOLEAN
  BY HereIsPair, SessionAssumption DEF Inv, TypeOK, OpenDocument
<1>2. CASE outcome = "opened"
  <2> DEFINE x == Loaded(f)
             z == IF port THEN Change(x) ELSE x
             y == Opened(z)
  <2>1. /\ x \in Pair /\ x.doc.uri = f /\ x.doc.content = disk[f].content
        /\ ~x.doc.example /\ ~x.doc.isNew /\ Kept(x)
        /\ x.doc.level = "developer"
    BY <1>1, LoadedIs
  <2> HIDE DEF x
  <2>2. /\ z \in Pair /\ z.doc.uri = f /\ ~z.doc.example /\ ~z.doc.isNew
        /\ Kept(z)
    <3>1. CASE port
      <4>1. x.doc.content < MaxContent
        BY <1>1, <2>1, <3>1
      <4>2. Level(x.doc) = "developer" \/ f \in ReadOnly
        BY <1>1, <2>1 DEF Level
      <4> QED
        BY <2>1, <3>1, <4>1, <4>2, ChangeDoes DEF SameUri, Kept
    <3>2. CASE ~port
      BY <2>1, <3>2
    <3> QED
      BY <3>1, <3>2
  <2>3. Becomes(y) /\ window' = "shown" /\ ReplaceServer(TRUE)
    BY <1>2 DEF OpenDocument, x
  <2> HIDE DEF z
  <2>4. /\ y \in Pair /\ y.doc.uri = f /\ ~y.doc.example /\ ~y.doc.isNew
        /\ y.doc.autosave /\ Kept(y)
    BY <2>2, OpenedIs DEF SameUri, SameContent
  <2> HIDE DEF y
  <2>5. TypeOK' /\ FlagKnows'
    BY <1>1, <2>3, <2>4, Becoming DEF ReplaceServer, Inv, TypeOK
  <2> QED
    BY <2>3, <2>5 DEF Step, Inv, StillNew
<1>3. CASE outcome = "noServer"
  <2>1. FailToOpen(Here)
    BY <1>3 DEF OpenDocument
  <2> QED
    BY <1>1, <2>1, FailToOpenStep
<1>4. CASE outcome = "cancelled"
  <2>1. StartAgain(Here) /\ UNCHANGED <<server, lost>>
    BY <1>4 DEF OpenDocument
  <2>2. lost' \in BOOLEAN /\ server' = FALSE
    BY <1>1, <2>1 DEF Inv, TypeOK, StillNew
  <2> QED
    BY <1>1, <2>1, <2>2, StartAgainStep
<1> QED
  BY <1>2, <1>3, <1>4

(* Only the file of the copy is written, and only once its database exists.*)
WritesOnlyTheCopy(g) ==
  \A h \in Files : disk'[h] # disk[h] =>
    h = g /\ window' = "shown" /\ ~disk'[g].example

LEMMA OpenExampleStep ==
  ASSUME Inv, NEW f \in Files, NEW g \in Files,
         NEW outcome \in {"created", "noServer", "noDatabase"},
         OpenExample(f, g, outcome)
  PROVE  Step /\ WritesOnlyTheCopy(g)
<1> DEFINE loaded == Loaded(f)
           unnamed == SetFileUri(loaded, NoFile)
           copy == SaveAs(unnamed, g)
           changed == Change(copy)
           named == SetIsExample(changed, FALSE)
           dev == SetUserLevel(named, "developer")
           made == SetModified(dev)
           on == SetAllowAutosave(made, TRUE)
           back == SetUserLevel(on, named.doc.level)
           y == Opened(back)
<1>1. /\ window = "choosing" /\ doc.isNew /\ disk[f] # NoContent
      /\ g \notin ReadOnly /\ g # NoFile /\ disk[f].content < MaxContent
      /\ broken' \subseteq Files /\ cancelled' \in BOOLEAN
      /\ disk \in [Files -> Saved \cup {NoContent}]
  BY SessionAssumption DEF OpenExample, Inv, TypeOK
<1>2. \/ /\ outcome = "created" /\ Becomes(y) /\ window' = "shown"
         /\ ReplaceServer(TRUE)
      \/ FailToOpen(named)
  BY DEF OpenExample
<1>3. /\ loaded \in Pair /\ loaded.disk = disk
      /\ loaded.doc.content = disk[f].content
      /\ ~loaded.doc.modified /\ ~loaded.doc.isNew /\ ~loaded.doc.autosave
      /\ loaded.doc.level = "developer"
  BY <1>1, LoadedIs
<1> HIDE DEF loaded
<1>4. /\ unnamed \in Pair /\ unnamed.disk = disk
      /\ unnamed.doc.content = disk[f].content
      /\ ~unnamed.doc.modified /\ ~unnamed.doc.isNew /\ ~unnamed.doc.autosave
      /\ unnamed.doc.level = "developer"
  BY <1>3, SetFileUriDoes DEF SameLevel, SameContent
<1> HIDE DEF unnamed
<1>5. /\ copy \in Pair /\ copy.disk = disk /\ copy.doc.uri = g
      /\ copy.doc.content = disk[f].content
      /\ ~copy.doc.isNew /\ ~copy.doc.autosave /\ copy.doc.level = "developer"
  BY <1>4, SaveAsDoes DEF SameLevel, SameContent
<1>6. Level(copy.doc) = "developer"
  BY <1>1, <1>5 DEF Level
<1> HIDE DEF copy
<1>7. /\ changed \in Pair /\ changed.disk = disk /\ changed.doc.uri = g
      /\ changed.doc.modified /\ ~changed.doc.isNew /\ ~changed.doc.autosave
      /\ changed.doc.level = "developer"
  BY <1>1, <1>5, <1>6, ChangeDoes DEF SameUri, SameLevel
<1>8. Level(changed.doc) = "developer"
  BY <1>1, <1>7 DEF Level
<1> HIDE DEF changed
<1>9. /\ named \in Pair /\ named.disk = disk /\ named.doc.uri = g
      /\ named.doc.modified /\ ~named.doc.isNew /\ ~named.doc.autosave
      /\ named.doc.level = "developer" /\ ~named.doc.example
  <2>1. named = SetIsExample(changed, FALSE) /\ FALSE \in BOOLEAN
    OBVIOUS
  <2> HIDE DEF named
  <2>2. /\ named \in Pair
        /\ SameUri(changed.doc, named.doc) /\ SameLevel(changed.doc, named.doc)
        /\ named.doc.example = FALSE /\ named.doc.autosave = changed.doc.autosave
        /\ named.doc.isNew => changed.doc.isNew
        /\ ~changed.doc.autosave =>
             named.disk = changed.disk /\ (changed.doc.modified => named.doc.modified)
    BY <1>7, <1>8, <2>1, SetIsExampleDoes
  <2> QED
    BY <1>7, <2>2 DEF SameUri, SameLevel
<1> HIDE DEF named
<1>10. /\ dev \in Pair /\ dev.disk = disk /\ dev.doc.uri = g
       /\ ~dev.doc.isNew /\ ~dev.doc.autosave
       /\ dev.doc.level = "developer" /\ ~dev.doc.example
  BY <1>1, <1>9, SetUserLevelDoes DEF SameUri, SameContent, Levels
<1>11. Level(dev.doc) = "developer"
  BY <1>1, <1>10 DEF Level
<1> HIDE DEF dev
<1>12. /\ made \in Pair /\ made.disk = disk /\ made.doc.uri = g
       /\ ~made.doc.isNew /\ ~made.doc.autosave
       /\ made.doc.level = "developer" /\ ~made.doc.example /\ Kept(made)
  BY <1>10, <1>11, SetModifiedDoes
  DEF Same, SameUri, SameLevel, SameContent
<1> HIDE DEF made
<1>13. /\ on \in Pair /\ on.doc.uri = g
       /\ ~on.doc.isNew /\ on.doc.autosave /\ ~on.doc.example /\ Kept(on)
       /\ on.disk = disk \/ on.disk = [disk EXCEPT ![g] = Image(made.doc)]
  <2>1. /\ on \in Pair /\ Same(made.doc, on.doc)
        /\ on.doc.autosave = TRUE /\ on.doc.isNew = made.doc.isNew
        /\ Kept(made) => Kept(on)
        /\ \/ on.disk = made.disk
           \/ on.disk = [made.disk EXCEPT ![made.doc.uri] = Image(made.doc)]
    BY <1>12, SetAllowAutosaveDoes
  <2>2. on.disk = disk \/ on.disk = [disk EXCEPT ![g] = Image(made.doc)]
    BY <1>12, <2>1
  <2> QED
    BY <1>12, <2>1, <2>2 DEF Same, SameUri, SameContent
<1> HIDE DEF on
<1>14. /\ back \in Pair /\ back.disk = on.disk /\ back.doc.uri = g
       /\ ~back.doc.isNew /\ back.doc.autosave /\ ~back.doc.example
       /\ Kept(back)
  <2>1. \A level \in Levels : back = SetUserLevel(on, level) =>
          /\ back \in Pair /\ back.disk = on.disk
          /\ SameUri(on.doc, back.doc) /\ SameContent(on.doc, back.doc)
          /\ back.doc.isNew = on.doc.isNew
          /\ back.doc.autosave = on.doc.autosave
          /\ Kept(back)
    BY <1>13, LevelKept
  <2>2. named.doc.level \in Levels
    BY <1>9 DEF Levels
  <2>3. back = SetUserLevel(on, named.doc.level)
    OBVIOUS
  <2> HIDE DEF back
  <2> QED
    BY <1>13, <2>1, <2>2, <2>3 DEF SameUri, SameContent
<1> HIDE DEF back
<1>15. /\ y \in Pair /\ y.disk = on.disk /\ y.doc.uri = g
       /\ ~y.doc.isNew /\ y.doc.autosave /\ ~y.doc.example /\ Kept(y)
  BY <1>1, <1>14, OpenedIs DEF SameUri, SameContent
<1> HIDE DEF y
<1>16. CASE Becomes(y) /\ window' = "shown" /\ ReplaceServer(TRUE)
  <2>1. TypeOK' /\ FlagKnows'
    BY <1>1, <1>15, <1>16, Becoming DEF ReplaceServer, Inv, TypeOK
  <2>2. disk' = disk \/ disk' = [disk EXCEPT ![g] = Image(made.doc)]
    BY <1>13, <1>15, <1>16 DEF Becomes
  <2>3. ~Image(made.doc).example
    BY <1>12 DEF Image
  <2>4. WritesOnlyTheCopy(g)
    BY <1>1, <1>16, <2>2, <2>3 DEF WritesOnlyTheCopy
  <2> QED
    BY <1>16, <2>1, <2>4 DEF Step, Inv, StillNew
<1>17. CASE FailToOpen(named)
  <2>1. Step
    BY <1>1, <1>9, <1>17, FailToOpenStep
  <2>2. disk' = disk
    BY <1>9, <1>17 DEF FailToOpen, StartAgain, Becomes
  <2> QED
    BY <2>1, <2>2 DEF WritesOnlyTheCopy
<1> QED
  BY <1>2, <1>16, <1>17

LEMMA CancelExampleStep ==
  ASSUME Inv, NEW f \in Files, CancelExample(f)
  PROVE  Step
<1>1. Here \in Pair /\ window = "choosing" /\ StartAgain(Here)
  BY HereIsPair DEF Inv, CancelExample
<1>2. /\ broken' \subseteq Files /\ cancelled' \in BOOLEAN
      /\ lost' \in BOOLEAN /\ server' = FALSE
  BY DEF Inv, TypeOK, StillNew, CancelExample
<1> QED
  BY <1>1, <1>2, StartAgainStep

(* Steps that leave the document and the disk alone.                       *)
LEMMA OtherStep ==
  ASSUME Inv, UNCHANGED <<doc, disk>>,
         window' = window \/ window' = "closed",
         window' = "choosing" => server' = server \/ ~server',
         broken' \subseteq Files,
         cancelled' \in BOOLEAN, server' \in BOOLEAN, lost' \in BOOLEAN
  PROVE  Step
<1>1. TypeOK'
  BY DEF Inv, TypeOK
<1>2. StillNew'
  BY DEF Inv, StillNew
<1>3. FlagKnows => FlagKnows'
  BY DEF FlagKnows, IsSaved
<1> QED
  BY <1>1, <1>2, <1>3 DEF Step, Inv

(* Steps in a shown window that becomes y.                                 *)
LEMMA ShownStep ==
  ASSUME Inv, window = "shown", window' \in {"shown", "closed"},
         NEW y \in Pair, Becomes(y),
         y.doc.uri = doc.uri, y.doc.isNew => doc.isNew,
         y.doc.autosave,
         broken' \subseteq Files,
         cancelled' \in BOOLEAN, server' \in BOOLEAN, lost' \in BOOLEAN
  PROVE  Inv' /\ (Kept(y) => FlagKnows')
<1>1. doc.uri # NoFile /\ ~doc.isNew
  BY DEF Inv, TypeOK
<1>2. TypeOK' /\ (Kept(y) => FlagKnows')
  BY <1>1, Becoming
<1> QED
  BY <1>2 DEF Inv, StillNew

LEMMA ShownIs ==
  ASSUME Inv, window = "shown"
  PROVE  /\ Here \in Pair /\ Here.doc = doc /\ Here.disk = disk
         /\ doc.uri \in Files /\ doc.uri # NoFile
         /\ ~doc.isNew /\ doc.autosave
         /\ FlagKnows => Kept(Here)
         /\ broken \subseteq Files /\ cancelled \in BOOLEAN
         /\ server \in BOOLEAN /\ lost \in BOOLEAN
<1>1. /\ Here \in Pair /\ Here.doc = doc /\ Here.disk = disk
      /\ doc.uri \in Files /\ doc.uri # NoFile
      /\ ~doc.isNew /\ doc.autosave
  BY HereIsPair, SessionAssumption DEF Inv, TypeOK, Doc
<1>2. FlagKnows => Kept(Here)
  BY <1>1 DEF FlagKnows, IsSaved, Kept
<1> QED
  BY <1>1, <1>2 DEF Inv, TypeOK

LEMMA ChangeUserLevelStep ==
  ASSUME Inv, NEW level \in Levels, ChangeUserLevel(level)
  PROVE  Step
<1> DEFINE y == SetUserLevel(Here, level)
<1>1. /\ window = "shown" /\ Becomes(y)
      /\ UNCHANGED <<broken, window, cancelled, server, lost>>
  BY DEF ChangeUserLevel
<1>2. /\ y \in Pair /\ y.disk = disk
      /\ SameUri(doc, y.doc) /\ SameContent(doc, y.doc)
      /\ y.doc.modified = doc.modified /\ y.doc.isNew = doc.isNew
      /\ y.doc.autosave = doc.autosave
  BY <1>1, ShownIs, SetUserLevelDoes
<1> HIDE DEF y
<1>3. Kept(Here) => Kept(y)
  BY <1>1, <1>2, ShownIs, KeptIsSame
<1>4. Inv' /\ (Kept(y) => FlagKnows')
  BY <1>1, <1>2, ShownIs, ShownStep DEF SameUri, SameContent
<1> QED
  BY <1>1, <1>3, <1>4, ShownIs DEF Step

LEMMA ChangeDocumentStep ==
  ASSUME Inv, ChangeDocument
  PROVE  Step
<1> DEFINE y == Change(Here)
<1>1. /\ window = "shown" /\ Becomes(y)
      /\ Level(doc) = "developer" /\ doc.content < MaxContent
      /\ UNCHANGED <<broken, window, cancelled, server, lost>>
  BY DEF ChangeDocument
<1>2. /\ y \in Pair
      /\ SameUri(doc, y.doc) /\ y.doc.example = doc.example
      /\ y.doc.autosave = doc.autosave /\ ~y.doc.isNew /\ Kept(y)
  BY <1>1, ShownIs, ChangeDoes
<1> HIDE DEF y
<1>3. Inv' /\ (Kept(y) => FlagKnows')
  BY <1>1, <1>2, ShownIs, ShownStep DEF SameUri
<1> QED
  BY <1>2, <1>3 DEF Step

LEMMA ChangeLanguageStep ==
  ASSUME Inv, ChangeLanguage
  PROVE  Step
<1>1. CASE disk[doc.uri] = NoContent
  <2>1. UNCHANGED <<doc, disk, broken, window, cancelled, server, lost>>
    BY <1>1 DEF ChangeLanguage, Becomes, Here
  <2> QED
    BY <2>1, OtherStep DEF Inv, TypeOK
<1>2. CASE disk[doc.uri] # NoContent
  <2> DEFINE y == Read(Here)
  <2>1. /\ window = "shown" /\ Level(doc) = "developer" /\ Becomes(y)
        /\ UNCHANGED <<broken, window, cancelled, server, lost>>
    BY <1>2 DEF ChangeLanguage
  <2>2. /\ y \in Pair /\ SameUri(doc, y.doc) /\ ~y.doc.isNew
        /\ y.doc.autosave = doc.autosave /\ Kept(y)
    BY <1>2, <2>1, ShownIs, ReadDoes
  <2> HIDE DEF y
  <2>3. Inv' /\ (Kept(y) => FlagKnows')
    BY <2>1, <2>2, ShownIs, ShownStep DEF SameUri
  <2> QED
    BY <2>2, <2>3 DEF Step
<1> QED
  BY <1>1, <1>2

LEMMA ShowNewTableStep ==
  ASSUME Inv, ShowNewTable
  PROVE  Inv'
<1> DEFINE z == SetModified(Here)
           y == SetUnmodified(z)
<1>1. /\ window = "shown" /\ Becomes(y)
      /\ UNCHANGED <<broken, window, cancelled, server, lost>>
  BY DEF ShowNewTable
<1>2. /\ z \in Pair /\ Same(doc, z.doc) /\ z.doc.autosave = doc.autosave
      /\ ~z.doc.isNew
  BY <1>1, ShownIs, SetModifiedDoes
<1> HIDE DEF z
<1>3. /\ y \in Pair /\ Same(z.doc, y.doc)
      /\ y.doc.isNew = z.doc.isNew /\ y.doc.autosave = z.doc.autosave
  BY <1>2, SetUnmodifiedDoes
<1> HIDE DEF y
<1> QED
  BY <1>1, <1>2, <1>3, ShownIs, ShownStep DEF Same, SameUri, SameContent

LEMMA SaveAsExampleStep ==
  ASSUME Inv, NEW g \in Files, SaveAsExample(g)
  PROVE  Inv'
<1> DEFINE off == SetAllowAutosave(Here, FALSE)
           moved == SetFileUri(off, g)
           as == SetIsExample(moved, TRUE)
           saved == Save(as)
           plain == SetIsExample(saved, FALSE)
           back == SetFileUri(plain, doc.uri)
           again == SetAllowAutosave(back, TRUE)
           y == IF SaveSucceeds(as) THEN SetUnmodified(again) ELSE again
<1>1. /\ window = "shown" /\ Becomes(y)
      /\ Level(doc) = "developer" /\ g \notin ReadOnly /\ g # NoFile
      /\ UNCHANGED <<broken, window, cancelled, server, lost>>
  BY SessionAssumption DEF SaveAsExample
<1>2. doc.level = "developer" /\ doc.uri \notin ReadOnly
  BY <1>1, ShownIs DEF Level
<1>3. /\ off \in Pair /\ off.doc.level = "developer" /\ ~off.doc.isNew
  <2>1. Here \in Pair /\ Here.doc = doc /\ ~doc.isNew
    BY <1>1, ShownIs
  <2>2. off \in Pair /\ Same(doc, off.doc) /\ off.doc.isNew = doc.isNew
    BY <2>1, SetAllowAutosaveDoes
  <2> QED
    BY <1>2, <2>1, <2>2 DEF Same, SameLevel
<1> HIDE DEF off
<1>4. /\ moved \in Pair /\ moved.doc.level = "developer"
      /\ moved.doc.uri = g /\ ~moved.doc.isNew
  BY <1>3, SetFileUriDoes DEF SameLevel
<1>5. Level(moved.doc) = "developer"
  BY <1>1, <1>4 DEF Level
<1> HIDE DEF moved
<1>6. /\ as \in Pair /\ as.doc.level = "developer"
      /\ as.doc.uri = g /\ ~as.doc.isNew
  BY <1>4, <1>5, SetIsExampleDoes DEF SameUri, SameLevel
<1> HIDE DEF as
<1>7. saved \in Pair /\ saved.doc = as.doc
  BY <1>6, SaveDoes
<1>8. Level(saved.doc) = "developer"
  BY <1>1, <1>6, <1>7 DEF Level
<1> HIDE DEF saved
<1>9. plain \in Pair /\ ~plain.doc.isNew /\ ~plain.doc.example
  BY <1>6, <1>7, <1>8, SetIsExampleDoes
<1> HIDE DEF plain
<1>10. /\ back \in Pair /\ ~back.doc.isNew /\ ~back.doc.example
       /\ back.doc.uri = doc.uri
  BY <1>1, <1>9, ShownIs, SetFileUriDoes DEF SameContent
<1> HIDE DEF back
<1>11. /\ again \in Pair /\ ~again.doc.isNew /\ ~again.doc.example
       /\ again.doc.uri = doc.uri /\ again.doc.autosave
  <2>1. /\ again \in Pair /\ Same(back.doc, again.doc)
        /\ again.doc.autosave = TRUE /\ again.doc.isNew = back.doc.isNew
    BY <1>10, SetAllowAutosaveDoes
  <2> QED
    BY <1>10, <2>1 DEF Same, SameUri, SameContent
<1> HIDE DEF again
<1>12. /\ y \in Pair /\ ~y.doc.isNew /\ ~y.doc.example
       /\ y.doc.uri = doc.uri /\ y.doc.autosave
  BY <1>11, SetUnmodifiedDoes DEF Same, SameUri, SameContent
<1> HIDE DEF y
<1> QED
  BY <1>1, <1>12, ShownIs, ShownStep

LEMMA CloseSavingStep ==
  ASSUME Inv, CloseSaving
  PROVE  Step
<1>1. /\ window = "shown" /\ doc.modified
      /\ broken' = broken /\ lost' = lost /\ server' = FALSE
      /\ cancelled' \in BOOLEAN /\ window' \in {"shown", "closed"}
  BY DEF CloseSaving, AfterClose
<1>2. CASE SaveSucceeds(Here)
  <2> DEFINE z == Save(Here)
             y == SetUnmodified(z)
  <2>1. Becomes(y)
    BY <1>2 DEF CloseSaving
  <2>2. Writable(doc.uri)
    BY <1>1, <1>2, ShownIs DEF SaveSucceeds
  <2>3. /\ z \in Pair /\ z.doc = doc
        /\ z.disk = [disk EXCEPT ![doc.uri] = Image(doc)]
    BY <1>1, <2>2, ShownIs, SaveDoes
  <2> HIDE DEF z
  <2>4. /\ y \in Pair /\ y.disk = z.disk /\ Same(doc, y.doc)
        /\ y.doc.isNew = doc.isNew /\ y.doc.autosave = doc.autosave
    BY <2>3, SetUnmodifiedDoes
  <2> HIDE DEF y
  <2>5. Kept(y)
    BY <1>1, <2>2, <2>3, <2>4, ShownIs, KeptIfWritten DEF Same
  <2>6. Inv' /\ (Kept(y) => FlagKnows')
    BY <1>1, <2>1, <2>4, ShownIs, ShownStep DEF Same, SameUri, SameContent
  <2> QED
    BY <2>5, <2>6 DEF Step
<1>3. CASE ~SaveSucceeds(Here)
  <2>1. UNCHANGED <<doc, disk>> /\ window' = "shown"
    BY <1>3 DEF CloseSaving, AfterClose
  <2> QED
    BY <1>1, <2>1, ShownIs, OtherStep
<1> QED
  BY <1>2, <1>3

LEMMA LaunchStep ==
  ASSUME Inv, Launch
  PROVE  Step
<1>1. /\ doc' = NewDoc /\ disk' = disk /\ broken' = broken
      /\ window' = "choosing" /\ cancelled' = FALSE
      /\ server' = FALSE /\ lost' \in BOOLEAN
  BY DEF Launch, Inv, TypeOK
<1>2. NewDoc.autosave /\ ~NewDoc.example
  BY DEF NewDoc
<1>3. TypeOK'
  BY <1>1, <1>2, NewDocIsDoc DEF Inv, TypeOK
<1> QED
  BY <1>1, <1>2, <1>3 DEF Step, Inv, StillNew, FlagKnows

-----------------------------------------------------------------------------
(* The invariant.                                                          *)

LEMMA InitInv == Init => Inv
<1> SUFFICES ASSUME Init PROVE Inv
  OBVIOUS
<1>1. disk \in [Files -> Saved \cup {NoContent}]
  <2>1. [example : BOOLEAN, content : {0}] \subseteq Saved
    BY SessionAssumption DEF Saved, Contents
  <2> QED
    BY <2>1 DEF Init
<1>2. NewDoc.autosave /\ ~NewDoc.example
  BY DEF NewDoc
<1>3. TypeOK
  BY <1>1, <1>2, NewDocIsDoc DEF Init, TypeOK
<1> QED
  BY <1>2, <1>3 DEF Inv, StillNew, Init

(* What forgets, and what does not.                                        *)
Forgets == ShowNewTable \/ \E g \in Files : SaveAsExample(g)

LEMMA NextStep ==
  ASSUME Inv, [Next]_vars
  PROVE  Inv' /\ (Forgets \/ Step)
<1>1. ASSUME NEW f \in Files,
             NEW outcome \in {"created", "noServer", "noDatabase"},
             NewDocument(f, outcome)
      PROVE  Step
  BY <1>1, NewDocumentStep
<1>2. ASSUME CancelNew PROVE Step
  BY <1>2, OtherStep DEF CancelNew, Inv, TypeOK
<1>3. ASSUME NEW f \in Files, NEW port \in BOOLEAN,
             NEW outcome \in {"opened", "noServer", "cancelled"},
             OpenDocument(f, outcome, port)
      PROVE  Step
  BY <1>3, OpenDocumentStep
<1>4. ASSUME NEW f \in Files, NEW g \in Files,
             NEW outcome \in {"created", "noServer", "noDatabase"},
             OpenExample(f, g, outcome)
      PROVE  Step
  BY <1>4, OpenExampleStep
<1>5. ASSUME NEW f \in Files, CancelExample(f) PROVE Step
  BY <1>5, CancelExampleStep
<1>6. ASSUME LeaveDialog PROVE Step
  BY <1>6, OtherStep DEF LeaveDialog, Inv, TypeOK
<1>7. ASSUME NEW level \in Levels, ChangeUserLevel(level) PROVE Step
  BY <1>7, ChangeUserLevelStep
<1>8. ASSUME ChangeDocument PROVE Step
  BY <1>8, ChangeDocumentStep
<1>17. ASSUME ChangeLanguage PROVE Step
  BY <1>17, ChangeLanguageStep
<1>9. CASE ShowNewTable
  BY <1>9, ShowNewTableStep DEF Forgets
<1>10. ASSUME NEW g \in Files, SaveAsExample(g) PROVE Inv' /\ Forgets
  BY <1>10, SaveAsExampleStep DEF Forgets
<1>11. ASSUME CancelSaveAsExample PROVE Step
  BY <1>11, OtherStep DEF CancelSaveAsExample, Inv, TypeOK
<1>12. ASSUME CloseUnmodified \/ CloseDiscarding \/ CloseCancelled
       PROVE  Step
  <2>1. /\ UNCHANGED <<doc, disk, broken, lost>> /\ window = "shown"
        /\ window' \in {"shown", "closed"} /\ server' = FALSE
        /\ cancelled' \in BOOLEAN
    BY <1>12
    DEF CloseUnmodified, CloseDiscarding, CloseCancelled, AfterClose, Inv, TypeOK
  <2> QED
    BY <2>1, OtherStep, ShownIs
<1>13. ASSUME CloseSaving PROVE Step
  BY <1>13, CloseSavingStep
<1>14. ASSUME Launch PROVE Step
  BY <1>14, LaunchStep
<1>15. ASSUME NEW f \in Files, Environment(f) PROVE Step
  <2>1. broken' \subseteq Files
    BY <1>15 DEF Environment, Inv, TypeOK
  <2> QED
    BY <1>15, <2>1, OtherStep DEF Environment, Inv, TypeOK
<1>16. ASSUME UNCHANGED vars PROVE Step
  BY <1>16, OtherStep DEF vars, Inv, TypeOK
<1> QED
  BY <1>1, <1>2, <1>3, <1>4, <1>5, <1>6, <1>7, <1>8, <1>9, <1>10, <1>11,
     <1>12, <1>13, <1>14, <1>15, <1>16, <1>17
  DEF Next, Step

(* Every state the program reaches satisfies the invariant.                *)
THEOREM SessionInvariant == Spec => []Inv
<1>1. Init => Inv
  BY InitInv
<1>2. Inv /\ [Next]_vars => Inv'
  BY NextStep
<1> QED
  BY <1>1, <1>2, PTL DEF Spec

(* Type correctness, with what a shown document and an unwritable file are.*)
THEOREM TypeCorrect == Spec => []TypeOK
<1>1. Inv => TypeOK
  BY DEF Inv
<1> QED
  BY <1>1, SessionInvariant, PTL

(* A failed autosave, a change of user level, opening by whatever way: none*)
(* of it clears the modified flag of a document that its file does not     *)
(* hold, but the two operations that reset the flag themselves.            *)
THEOREM OnlyTwoEverForget == Spec => OnlyTwoOperationsForget
<1>1. Inv /\ [Next]_vars =>
        [FlagKnows /\ ~FlagKnows' =>
           ShowNewTable \/ \E g \in Files : SaveAsExample(g)]_vars
  BY NextStep DEF Forgets, Step
<1> QED
  BY <1>1, SessionInvariant, PTL DEF Spec, OnlyTwoOperationsForget

(* Opening an example writes nothing but its copy, once all has worked.    *)
THEOREM ExamplesAreKept == Spec => FilesOfExamplesAreKept
<1>1. Inv /\ [Next]_vars =>
        [\A f, g \in Files, outcome \in {"created", "noServer", "noDatabase"} :
           OpenExample(f, g, outcome) =>
             \A h \in Files : disk'[h] # disk[h] =>
               h = g /\ window' = "shown" /\ ~disk'[g].example]_vars
  BY OpenExampleStep DEF WritesOnlyTheCopy
<1> QED
  BY <1>1, SessionInvariant, PTL DEF Spec, FilesOfExamplesAreKept

(* Opening a document never replaces the backend of a running server.      *)
THEOREM NoServerIsForgotten == Spec => OpeningForgetsNoServer
<1>1. ASSUME Inv, Next, ~lost, lost'
      PROVE  \/ Launch
             \/ \E f \in Files : \E outcome \in {"created", "noServer", "noDatabase"} :
                  NewDocument(f, outcome)
  <2>1. ASSUME NEW f \in Files, NEW port \in BOOLEAN,
               NEW outcome \in {"opened", "noServer", "cancelled"},
               OpenDocument(f, outcome, port)
        PROVE  ~lost'
    BY <1>1, <2>1
    DEF OpenDocument, FailToOpen, ReplaceServer, Inv, StillNew
  <2>2. ASSUME NEW f \in Files, NEW g \in Files,
               NEW outcome \in {"created", "noServer", "noDatabase"},
               OpenExample(f, g, outcome)
        PROVE  ~lost'
    BY <1>1, <2>2
    DEF OpenExample, FailToOpen, ReplaceServer, Inv, StillNew
  <2> QED
    BY <1>1, <2>1, <2>2
    DEF Next, CancelNew, CancelExample, LeaveDialog, ChangeUserLevel,
        ChangeDocument, ShowNewTable, ChangeLanguage, SaveAsExample,
        CancelSaveAsExample,
        CloseUnmodified, CloseSaving, CloseDiscarding, CloseCancelled,
        AfterClose, Environment
<1>2. Inv /\ [Next]_vars =>
        [~lost /\ lost' =>
           \/ Launch
           \/ \E f \in Files : \E outcome \in {"created", "noServer", "noDatabase"} :
                NewDocument(f, outcome)]_vars
  BY <1>1
<1> QED
  BY <1>2, SessionInvariant, PTL DEF Spec, OpeningForgetsNoServer
=============================================================================
