-------------------------- MODULE DocumentSession --------------------------
(***************************************************************************)
(* The life of a document in a window of Glom: it is created, made from an *)
(* example, opened, changed, saved as an example and closed, while files   *)
(* may be read-only or become unwritable, servers may not start, and the   *)
(* user may cancel any dialog.                                             *)
(*                                                                         *)
(* There is no Save menu item: every change is written at once ("autosave")*)
(* by Document::set_modified(), which does nothing unless the document is  *)
(* in developer mode, nothing but set a flag while autosave is off, and    *)
(* leaves the flag set when the file cannot be written.  The user is asked *)
(* when the window is closed and the flag is set.                          *)
(***************************************************************************)
EXTENDS Naturals

CONSTANTS
  Files,        \* URIs of .glom files
  ReadOnly,     \* those of files that nobody here may write
  NoFile,       \* an empty URI, or a cancelled file chooser
  MaxContent    \* bound on the versions of a document

ASSUME SessionAssumption ==
  /\ ReadOnly \subseteq Files
  /\ NoFile \notin Files
  /\ MaxContent \in Nat

VARIABLES
  doc,         \* the Document of the window
  disk,        \* what each file holds
  broken,      \* files in folders that cannot be written now
  window,      \* "choosing" in the initial dialog, "shown" or "closed"
  cancelled,   \* m_operation_cancelled
  server,      \* a server runs, and the pool's backend knows its port
  lost         \* a server runs that no backend knows any more

vars == <<doc, disk, broken, window, cancelled, server, lost>>

Levels == {"developer", "operator"}

Contents == 0..MaxContent

(* content is the version of everything that a developer designed.         *)
Doc ==
  [uri : Files \cup {NoFile}, modified : BOOLEAN, isNew : BOOLEAN,
   level : Levels, autosave : BOOLEAN, example : BOOLEAN, content : Contents]

Saved == [example : BOOLEAN, content : Contents]

NoContent == [example |-> FALSE]

TypeOK ==
  /\ doc \in Doc
  /\ doc.autosave
  /\ window = "shown" => doc.uri # NoFile /\ ~doc.isNew
  /\ disk \in [Files -> Saved \cup {NoContent}]
  /\ \A f \in ReadOnly : disk[f] # NoContent
  /\ broken \subseteq Files
  /\ window \in {"choosing", "shown", "closed"}
  /\ cancelled \in BOOLEAN
  /\ server \in BOOLEAN
  /\ lost \in BOOLEAN

-----------------------------------------------------------------------------
(* Document's setters.  Each takes the document and the disk, x, to those  *)
(* after it.                                                               *)

Level(d) ==
  IF d.uri \in ReadOnly THEN "operator"
  ELSE IF d.uri = NoFile THEN "developer" ELSE d.level

SetUserLevel(x, level) ==
  [x EXCEPT !.doc.level = IF x.doc.uri \in ReadOnly THEN "operator" ELSE level]

Writable(f) == f # NoFile /\ f \notin ReadOnly \cup broken

(* Document::save(): an unmodified document is not written.                *)
SaveSucceeds(x) ==
  x.doc.uri # NoFile /\ (x.doc.modified => Writable(x.doc.uri))

Image(d) == [example |-> d.example, content |-> d.content]

Save(x) ==
  IF x.doc.modified /\ Writable(x.doc.uri)
    THEN [x EXCEPT !.disk[x.doc.uri] = Image(x.doc)] ELSE x

(* set_modified(false) *)
SetUnmodified(x) ==
  IF Level(x.doc) = "developer" THEN [x EXCEPT !.doc.modified = FALSE] ELSE x

\* Mutant: the flag goes though the file could not be written.
SaveChangesAnyway(x) ==
  IF Level(x.doc) = "developer" THEN SetUnmodified(Save(x)) ELSE x

SaveChanges(x) ==
  IF Level(x.doc) = "developer" /\ SaveSucceeds(x)
    THEN SetUnmodified(Save(x)) ELSE x

(* set_modified(true) *)
SetModified(x) ==
  LET y == [x EXCEPT !.doc.modified = TRUE, !.doc.isNew = FALSE]
  IN  IF Level(x.doc) # "developer" THEN x
      ELSE IF x.doc.autosave THEN SaveChanges(y) ELSE y

SetAllowAutosave(x, value) ==
  LET y == [x EXCEPT !.doc.autosave = value]
  IN  IF value /\ ~x.doc.autosave /\ x.doc.modified THEN SaveChanges(y) ELSE y

(* Document overrides Bakery's setter, which called set_modified().        *)
SetFileUri(x, f) == [x EXCEPT !.doc.uri = f]

SetIsExample(x, value) ==
  IF x.doc.example = value THEN x
  ELSE SetModified([x EXCEPT !.doc.example = value])

(* Any of the setters that change what the document describes.             *)
Change(x) == SetModified([x EXCEPT !.doc.content = @ + 1])

(* AppWindow_WithDoc::on_menu_file_saveas() with a chosen file: a failure  *)
(* shows a warning, and a document without changes is not written.         *)
SaveAs(x, f) ==
  LET y == SetFileUri(x, f)
  IN  IF SaveSucceeds(y) THEN SetUnmodified(Save(y)) ELSE y

(* init_create_document() *)
NewDoc ==
  [uri |-> NoFile, modified |-> FALSE, isNew |-> TRUE, level |-> "developer",
   autosave |-> TRUE, example |-> FALSE, content |-> 0]

Here == [doc |-> doc, disk |-> disk]

Becomes(x) == doc' = x.doc /\ disk' = x.disk

-----------------------------------------------------------------------------
Init ==
  /\ doc = NewDoc
  /\ disk \in [Files -> {NoContent} \cup [example : BOOLEAN, content : {0}]]
  /\ \A f \in ReadOnly : disk[f] # NoContent
  /\ broken = {}
  /\ window = "choosing"
  /\ cancelled = FALSE
  /\ server = FALSE /\ lost = FALSE

(* ConnectionPool::setup_from_document() replaces the backend; the server  *)
(* of the new one runs in the end or not.                                  *)
ReplaceServer(runs) ==
  /\ lost' = (lost \/ server)
  /\ server' = runs

(* AppWindow::existing_or_new_new().  If the server cannot be started or   *)
(* connected to, it is stopped; if the database cannot be created, not.    *)
NewDocument(f, outcome) ==
  /\ window = "choosing"
  /\ disk[f] = NoContent
  /\ doc.content + 2 <= MaxContent
  /\ LET located   == Change(SetUserLevel(SaveAs(Here, f), "developer"))
         connected == Change(located)
     IN  \/ /\ outcome = "created"
            /\ Becomes(connected)
            /\ window' = "shown"
            /\ ReplaceServer(TRUE)
         \/ /\ outcome = "noServer"
            /\ Becomes(SetFileUri(located, NoFile))
            /\ window' = window
            /\ ReplaceServer(FALSE)
         \/ /\ outcome = "noDatabase"
            /\ Becomes(SetFileUri(connected, NoFile))
            /\ window' = window
            /\ ReplaceServer(TRUE)
  /\ UNCHANGED <<broken, cancelled>>

(* The user cancels the file chooser: cancel_close_or_exit().              *)
CancelNew ==
  /\ window = "choosing"
  /\ cancelled' = TRUE
  /\ UNCHANGED <<doc, disk, broken, window, server, lost>>

(* Document::load() from a file that can be read.                          *)
Read(x) ==
  LET file == x.disk[x.doc.uri]
  IN  SetUnmodified([x EXCEPT !.doc.content = file.content,
                              !.doc.example = file.example,
                              !.doc.isNew = FALSE])

(* AppWindow_WithDoc::open_document() up to Document::load() and the start *)
(* of AppWindow::on_document_load().  A document that is not new any more  *)
(* would be opened by another process.                                     *)
Loaded(f) == SetAllowAutosave(Read(SetFileUri(Here, f)), FALSE)

\* Mutant: autosave is turned on again only for a copy of an example.
OpenedForTheSession(x) == SetUnmodified(SetUserLevel(x, "operator"))

(* The end of on_document_load(), and set_document_modified(false) after.  *)
Opened(x) ==
  SetUnmodified(SetAllowAutosave(SetUserLevel(x, "operator"), TRUE))

(* A failure: the document is thrown away.                                 *)
StartAgain(x) ==
  /\ Becomes([x EXCEPT !.doc = NewDoc])
  /\ window' = window

\* Mutant: no cleanup() when the database could not be made.
FailWithServer(x) ==
  /\ StartAgain(x)
  /\ ReplaceServer(TRUE)

(* ... when the backend is that of the document, and its server stopped.   *)
FailToOpen(x) ==
  /\ StartAgain(x)
  /\ ReplaceServer(FALSE)

(* Opening a document that has a database.  Remembering the port of a      *)
(* shared server changes the document.                                     *)
OpenDocument(f, outcome, port) ==
  /\ window = "choosing" /\ doc.isNew
  /\ disk[f] # NoContent /\ ~disk[f].example
  /\ port => disk[f].content < MaxContent
  /\ \/ /\ outcome = "opened"
        /\ Becomes(Opened(IF port THEN Change(Loaded(f)) ELSE Loaded(f)))
        /\ window' = "shown"
        /\ ReplaceServer(TRUE)
     \/ /\ outcome = "noServer"
        /\ FailToOpen(Here)
     \/ /\ outcome = "cancelled"
        /\ f \in ReadOnly
        /\ StartAgain(Here)
        /\ UNCHANGED <<server, lost>>
  /\ UNCHANGED <<broken, cancelled>>

(* Opening an example makes a copy, and a database for it.  Autosave is    *)
(* off until the database is there.                                        *)
OpenExample(f, g, outcome) ==
  /\ window = "choosing" /\ doc.isNew
  /\ disk[f] # NoContent /\ disk[f].example
  /\ g \notin ReadOnly /\ disk[f].content < MaxContent
  /\ LET copy  == SaveAs(SetFileUri(Loaded(f), NoFile), g)
         named == SetIsExample(Change(copy), FALSE)
         made  == SetModified(SetUserLevel(named, "developer"))
     IN  \/ /\ outcome = "created"
            /\ Becomes(Opened(SetUserLevel(SetAllowAutosave(made, TRUE),
                                           named.doc.level)))
            /\ window' = "shown"
            /\ ReplaceServer(TRUE)
         \/ /\ outcome \in {"noServer", "noDatabase"}
            /\ FailToOpen(named)
  /\ cancelled' = FALSE
  /\ UNCHANGED broken

CancelExample(f) ==
  /\ window = "choosing" /\ doc.isNew
  /\ disk[f] # NoContent /\ disk[f].example
  /\ cancelled' = TRUE
  /\ StartAgain(Here)
  /\ UNCHANGED <<broken, server, lost>>

(* The initial dialog is closed without a choice.                          *)
LeaveDialog ==
  /\ window = "choosing"
  /\ window' = "closed"
  /\ UNCHANGED <<doc, disk, broken, cancelled, server, lost>>

-----------------------------------------------------------------------------
(* A developer at work.                                                    *)

(* Frame_Glom::attempt_change_usermode_to_developer(), ..._to_operator()   *)
ChangeUserLevel(level) ==
  /\ window = "shown"
  /\ level = "developer" => server
  /\ Becomes(SetUserLevel(Here, level))
  /\ UNCHANGED <<broken, window, cancelled, server, lost>>

ChangeDocument ==
  /\ window = "shown"
  /\ Level(doc) = "developer" /\ doc.content < MaxContent
  /\ Becomes(Change(Here))
  /\ UNCHANGED <<broken, window, cancelled, server, lost>>

(* Document::get_data_layout_groups_plus_new_fields(): a table is shown    *)
(* that has no layout yet; the default is stored, and the flag reset.      *)
ShowNewTable ==
  /\ window = "shown"
  /\ Becomes(SetUnmodified(SetModified(Here)))
  /\ UNCHANGED <<broken, window, cancelled, server, lost>>

(* AppWindow::on_menu_developer_changelanguage(): the document is loaded   *)
(* again, whatever was not saved.  The file of a new document may never    *)
(* have been written.                                                      *)
ChangeLanguage ==
  /\ window = "shown" /\ Level(doc) = "developer"
  /\ Becomes(IF disk[doc.uri] = NoContent THEN Here ELSE Read(Here))
  /\ UNCHANGED <<broken, window, cancelled, server, lost>>

(* AppWindow::on_menu_file_save_as_example() *)
SaveAsExample(g) ==
  /\ window = "shown" /\ Level(doc) = "developer" /\ server
  /\ g \notin ReadOnly
  /\ LET moved == SetFileUri(SetAllowAutosave(Here, FALSE), g)
         as    == SetIsExample(moved, TRUE)
         back  == SetFileUri(SetIsExample(Save(as), FALSE), doc.uri)
         again == SetAllowAutosave(back, TRUE)
     IN  Becomes(IF SaveSucceeds(as) THEN SetUnmodified(again) ELSE again)
  /\ UNCHANGED <<broken, window, cancelled, server, lost>>

CancelSaveAsExample ==
  /\ window = "shown" /\ Level(doc) = "developer"
  /\ cancelled' = TRUE
  /\ UNCHANGED <<doc, disk, broken, window, server, lost>>

-----------------------------------------------------------------------------
(* AppWindow_WithDoc::on_menu_file_close(): the server is stopped before   *)
(* it is known whether the user cancelled.                                 *)

AfterClose(isCancelled) ==
  /\ cancelled' = isCancelled
  /\ server' = FALSE
  /\ window' = IF isCancelled THEN "shown" ELSE "closed"
  /\ UNCHANGED <<broken, lost>>

CloseUnmodified ==
  /\ window = "shown" /\ ~doc.modified
  /\ AfterClose(cancelled)
  /\ UNCHANGED <<doc, disk>>

CloseSaving ==
  /\ window = "shown" /\ doc.modified
  /\ IF SaveSucceeds(Here)
       THEN Becomes(SetUnmodified(Save(Here))) /\ AfterClose(FALSE)
       ELSE AfterClose(TRUE) /\ UNCHANGED <<doc, disk>>

CloseDiscarding ==
  /\ window = "shown" /\ doc.modified
  /\ AfterClose(FALSE)
  /\ UNCHANGED <<doc, disk>>

CloseCancelled ==
  /\ window = "shown" /\ doc.modified
  /\ AfterClose(TRUE)
  /\ UNCHANGED <<doc, disk>>

(* Glom is started again.                                                  *)
Launch ==
  /\ window = "closed"
  /\ doc' = NewDoc
  /\ window' = "choosing"
  /\ cancelled' = FALSE
  /\ lost' = (lost \/ server)
  /\ server' = FALSE
  /\ UNCHANGED <<disk, broken>>

(* A disk is full, a share is gone; or it is well again.                   *)
Environment(f) ==
  /\ broken' = (broken \ {f}) \cup ({f} \ broken)
  /\ UNCHANGED <<doc, disk, window, cancelled, server, lost>>

Next ==
  \/ \E f \in Files : \E outcome \in {"created", "noServer", "noDatabase"} :
       NewDocument(f, outcome)
  \/ CancelNew
  \/ \E f \in Files, port \in BOOLEAN :
       \E outcome \in {"opened", "noServer", "cancelled"} :
         OpenDocument(f, outcome, port)
  \/ \E f, g \in Files : \E outcome \in {"created", "noServer", "noDatabase"} :
       OpenExample(f, g, outcome)
  \/ \E f \in Files : CancelExample(f)
  \/ LeaveDialog
  \/ \E level \in Levels : ChangeUserLevel(level)
  \/ ChangeDocument
  \/ ShowNewTable
  \/ ChangeLanguage
  \/ \E g \in Files : SaveAsExample(g)
  \/ CancelSaveAsExample
  \/ CloseUnmodified \/ CloseSaving \/ CloseDiscarding \/ CloseCancelled
  \/ Launch
  \/ \E f \in Files : Environment(f)

Spec == Init /\ [][Next]_vars

-----------------------------------------------------------------------------
(* Properties.                                                             *)

(* The file of the shown document holds all that was designed.             *)
IsSaved == disk[doc.uri] = Image(doc)

(* Through failed writes, changes of the user level, autosave off and on,  *)
(* and whatever way the document was opened, the modified flag (on which   *)
(* "asks user about unsaved changes" rests) never says less than it        *)
(* should; only the two operations that reset it themselves, whether or    *)
(* not the file could be written, make it forget.                          *)
FlagKnows ==
  window = "shown" /\ doc.uri \notin ReadOnly /\ ~doc.modified => IsSaved

OnlyTwoOperationsForget ==
  [][FlagKnows /\ ~FlagKnows' =>
       ShowNewTable \/ \E g \in Files : SaveAsExample(g)]_vars

(* "Prevent saving until we are sure that everything worked": opening an   *)
(* example touches no file unless its database was made, and then only the *)
(* copy, which is no example from then on if it could be written.          *)
FilesOfExamplesAreKept ==
  [][\A f, g \in Files, outcome \in {"created", "noServer", "noDatabase"} :
       OpenExample(f, g, outcome) =>
         \A h \in Files : disk'[h] # disk[h] =>
           h = g /\ window' = "shown" /\ ~disk'[g].example]_vars

(* setup_from_document() drops the backend that knows the server's port.   *)
(* Opening a document never does that to a running server: a server runs   *)
(* behind the dialog only for a new document whose database could not be   *)
(* created, and then only another attempt at a new one follows.            *)
OpeningForgetsNoServer ==
  [][~lost /\ lost' =>
       \/ Launch
       \/ \E f \in Files : \E outcome \in {"created", "noServer", "noDatabase"} :
            NewDocument(f, outcome)]_vars
=============================================================================
