------------------------------ MODULE CsvImport ------------------------------
(***************************************************************************)
(* The import of a CSV file: CsvParser, which reads the file and converts  *)
(* and splits it piece by piece in callbacks of the main loop;             *)
(* Dialog_Import_CSV, which guesses the encoding and starts the parser     *)
(* again when the user chooses another; and Dialog_Import_CSV_Progress,    *)
(* which waits for the parser and makes a record of each row.  The file    *)
(* may be one that DbUtilsExport wrote.                                    *)
(*                                                                         *)
(* The file is a sequence of bytes.  "q", "c" and "n" are a quote, a comma *)
(* and a newline in both encodings, "a" is any other character.  "l" and   *)
(* "t" are the two bytes of the character "u" in UTF-8, where neither      *)
(* means anything without the other, and characters of their own in Latin  *)
(* 1, which has no invalid bytes.  Of a number there is here only the text *)
(* that it is written as: how numbers are written and read, by way of a    *)
(* double that rounds long ones, is not modelled.                          *)
(***************************************************************************)
EXTENDS Integers, SequencesExt

CONSTANTS
  Tables,     \* tables to export and import again
  Foreign,    \* files from elsewhere
  ReadSize,   \* size of CsvParser::Buffer, in bytes
  ConvertSize,\* CONVERT_BUFFER_SIZE
  MaxStarts,  \* bound on set_file_and_start_parsing()
  Reread,     \* the files that it is called again for: a bound
  NoTable

Chars == {"a", "q", "c", "n", "u", "l", "t"}
Bytes == Chars \ {"u"}
Numbers == Seq({"a"})                \* as text, empty for no number
Texts == Seq(Chars \ {"l", "t"})     \* of another field

ASSUME CsvImportAssumption ==
  /\ Tables \subseteq Seq(Numbers \X Texts) /\ Foreign \subseteq Seq(Bytes)
  /\ ReadSize \in Nat \ {0} /\ ConvertSize \in Nat \ {0, 1}
  /\ MaxStarts \in Nat \ {0}
  /\ NoTable \notin Tables

VARIABLES
  file,       \* the bytes of the file
  table,      \* the table it was exported from
  parser,     \* the members of CsvParser
  reading,    \* the streams with a read_async() that has not been answered
  offset,     \* how much of the file each stream has delivered
  detect,     \* m_auto_detect_encoding, 0 for -1
  button,     \* whether the dialog lets the user start the import
  columns,    \* m_cols_count, 0 if there is no m_sample_model
  fields,     \* the columns that have a field in m_fields
  progress,   \* where the import is
  ready,      \* m_ready_connection: it hears of the parser's states
  imported,   \* the rows it has made records of, with the columns whose
              \* fields those records have
  fate,       \* what has become of the process
  starts,     \* history: the calls of set_file_and_start_parsing()
  stale       \* history: clear() left the beginning of a line behind

load == <<reading, offset>>
dialog == <<detect, button, columns, fields>>
source == <<file, table>>
import == <<progress, ready>>
history == <<starts, stale>>
importVars ==
  <<source, parser, load, dialog, import, imported, fate, history>>

AutoDetect == <<"utf8", "latin1">>   \* AUTODETECT_ENCODINGS_CHARSETS
Encodings == Range(AutoDetect)
Streams == 1..MaxStarts

Parsers ==
  [encoding : Encodings, state : {"none", "parsing", "parsed"},
   raw : Seq(Bytes), pos : Nat, line : Seq(Chars), quotes : BOOLEAN,
   idle : BOOLEAN, rows : Seq(Seq(Seq(Chars))), next : Nat,
   opening : 0..MaxStarts, opened : 0..MaxStarts, stream : 0..MaxStarts,
   buffer : 0..MaxStarts]

ImportTypeOK ==
  /\ parser \in Parsers
  /\ parser.pos <= Len(parser.raw)
  /\ parser.buffer \in {0, parser.stream}
  /\ reading \subseteq Streams
  /\ offset \in [Streams -> 0..Len(file)]
  /\ detect \in 0..Len(AutoDetect) + 1
  /\ button \in BOOLEAN /\ ready \in BOOLEAN
  /\ columns \in Nat /\ fields \in SUBSET Nat
  /\ progress \in {"off", "waiting", "importing", "complete", "closed"}
  /\ imported \in Seq([row : Seq(Seq(Chars)), fields : SUBSET Nat])
  /\ fate \in {"running", "hung", "aborted", "undefined"}
  /\ starts \in Streams

----------------------------------------------------------------------------
(* Fields and lines.  A row of a table is a number and a text.             *)

(* FoldLeft() that has the value of each step before it takes the next.    *)
Folded(op(_, _), base, s) ==
  LET f[i \in 0..Len(s)] ==
        IF i = 0 THEN base
        ELSE CHOOSE r \in {op(v, s[i]) : v \in {f[i - 1]}} : TRUE
  IN  f[Len(s)]

Twice(text) ==
  FlattenSeq([i \in DOMAIN text |->
    IF text[i] = "q" THEN <<"q", "q">> ELSE <<text[i]>>])

AsItIs(text) == text                        \* mutant: quotes are not escaped

(* Field::to_file_format() escapes the quotes of a text.                   *)
ToFileFormat(text) == Twice(text)

(* export_data_to_stream(): the comma goes before a field only if there is *)
(* something on the line already, and texts are quoted.                    *)
ExportedRow(row) ==
  row[1] \o (IF row[1] = <<>> THEN <<>> ELSE <<"c">>)
    \o <<"q">> \o ToFileFormat(row[2]) \o <<"q", "n">>

Encoded(text) ==
  FlattenSeq([i \in DOMAIN text |->
    IF text[i] = "u" THEN <<"l", "t">> ELSE <<text[i]>>])

Exported(rows) ==
  Encoded(FlattenSeq([i \in DOMAIN rows |-> ExportedRow(rows[i])]))

(* advance_field(), one character at a time: the fields that are complete, *)
(* the one that is not, whether it is inside quotes, and whether the last  *)
(* character was the first of two quotes.                                  *)
Advanced(f, c) ==
  IF c = "q"
  THEN IF f.inside
       THEN [f EXCEPT !.inside = FALSE, !.ended = TRUE]
       ELSE [f EXCEPT !.inside = TRUE, !.ended = FALSE,
                      !.field = IF f.ended THEN Append(@, "q") ELSE @]
  ELSE IF c = "c" /\ ~f.inside
       THEN [done |-> Append(f.done, f.field), field |-> <<>>,
             inside |-> FALSE, ended |-> FALSE]
       ELSE [f EXCEPT !.ended = FALSE, !.field = Append(@, c)]

(* do_line_scanned()                                                       *)
FieldsOf(line) ==
  LET f == Folded(Advanced, [done |-> <<>>, field |-> <<>>,
                               inside |-> FALSE, ended |-> FALSE], line)
  IN  Append(f.done, f.field)

(* Field::from_file_format() makes one quote of two, once more: what it    *)
(* has made, and whether the last character was the first of two quotes.   *)
Unescaped(t, c) ==
  IF c = "q" /\ t.one THEN [t EXCEPT !.one = FALSE]
  ELSE [out |-> Append(t.out, c), one |-> c = "q"]

FromFileFormat(text) ==
  Folded(Unescaped, [out |-> <<>>, one |-> FALSE], text).out

----------------------------------------------------------------------------
(* Conversion and lines                                                    *)

(* iconv(): the characters of the bytes, at most max of them, how many     *)
(* bytes those are, and why it stopped.                                    *)
ConvertedByte(encoding, max, c, b) ==
  IF c.why # "done" \/ Len(c.chars) = max THEN c
  ELSE IF c.half
  THEN IF b = "t" THEN [c EXCEPT !.chars = Append(@, "u"),
                                 !.used = @ + 2, !.half = FALSE]
       ELSE [c EXCEPT !.why = "EILSEQ"]
  ELSE IF encoding = "utf8" /\ b = "l" THEN [c EXCEPT !.half = TRUE]
  ELSE IF encoding = "utf8" /\ b = "t" THEN [c EXCEPT !.why = "EILSEQ"]
  ELSE [c EXCEPT !.chars = Append(@, b), !.used = @ + 1]

Converted(encoding, bytes, max) ==
  LET byte(c, b) == ConvertedByte(encoding, max, c, b)
      c == Folded(byte, [chars |-> <<>>, used |-> 0, half |-> FALSE,
                           why |-> "done"], bytes)
  IN  IF c.why = "done" /\ c.half THEN [c EXCEPT !.why = "EINVAL"] ELSE c

(* The loop of on_idle_parse() for one character: an unquoted newline ends *)
(* the line, an empty line is no row.                                      *)
ScannedChar(p, c) ==
  IF c = "n" /\ ~p.quotes
  THEN [p EXCEPT !.line = <<>>,
                 !.rows = IF p.line = <<>> THEN @
                          ELSE Append(@, FieldsOf(p.line))]
  ELSE [p EXCEPT !.line = Append(@, c),
                 !.quotes = IF c = "q" THEN ~@ ELSE @]

(* Mutant: quotes do not work across calls of on_idle_parse().             *)
ScannedAlone(p, chars) ==
  Folded(ScannedChar, [p EXCEPT !.quotes = FALSE], chars)

Scanned(p, chars) == Folded(ScannedChar, p, chars)

----------------------------------------------------------------------------
(* What changes along with the parser                                      *)

(* Mutant: m_raw is cleared, the position in it is not.                    *)
ClearedRaw(p) ==
  [p EXCEPT !.state = "none", !.rows = <<>>, !.raw = <<>>, !.quotes = FALSE,
            !.idle = FALSE, !.buffer = 0]

(* clear() keeps m_raw, m_current_line, m_stream and m_row_index.          *)
Cleared(p) ==
  [p EXCEPT !.state = "none", !.rows = <<>>, !.pos = 0, !.quotes = FALSE,
            !.idle = FALSE, !.buffer = 0]

(* set_file_and_start_parsing()                                            *)
Started(p) == [p EXCEPT !.state = "parsing", !.opening = @ + 1]

(* on_data_source_state_changed(): the progress dialog that began to wait  *)
(* hears of the parser's states until it is cancelled.                     *)
HearsOf(state) ==
  IF ~ready \/ state = parser.state
  THEN UNCHANGED <<import, fate>>
  ELSE CASE state = "parsed" -> /\ progress' = "importing"
                                /\ UNCHANGED <<ready, fate>>
         [] state = "encoding_error" -> /\ progress' = "off" /\ ready' = FALSE
                                        /\ UNCHANGED fate
         [] OTHER -> /\ fate' = "aborted"
                     /\ UNCHANGED import

Forgets == stale' = (stale \/ parser.line # <<>>)

(* validate_primary_key() of a table whose key is generated.               *)
Validated(p) == button' = (p.state # "none")

Running == fate = "running"
Shown == Running /\ progress # "closed"

(* Dialog_Import_CSV::on_parser_line_scanned(): while there is no sample   *)
(* model, and so no row yet, the first row that is scanned decides how     *)
(* many columns there are.                                                 *)
ScannedFirst(rows) ==
  IF columns = 0 /\ rows # <<>>
  THEN /\ columns' = Len(rows[1])
       /\ fields' = fields \cap 1..columns'
  ELSE UNCHANGED <<columns, fields>>

----------------------------------------------------------------------------
(* Dialog_Import_CSV::import()                                             *)
NoParser ==
  [encoding |-> AutoDetect[1], state |-> "none", raw |-> <<>>, pos |-> 0,
   line |-> <<>>, quotes |-> FALSE, idle |-> FALSE, rows |-> <<>>,
   next |-> 0, opening |-> 0, opened |-> 0, stream |-> 0, buffer |-> 0]

ImportInit ==
  /\ \/ \E t \in Tables : table = t /\ file = Exported(t)
     \/ table = NoTable /\ file \in Foreign
  /\ parser = Started(NoParser)
  /\ reading = {} /\ offset = [s \in Streams |-> 0]
  /\ detect = 1 /\ button = FALSE /\ columns = 0 /\ fields = {}
  /\ progress = "off" /\ ready = FALSE /\ imported = <<>> /\ fate = "running"
  /\ starts = 1 /\ stale = FALSE

(* on_file_read(): the file is open.                                       *)
Opened ==
  /\ Shown /\ parser.opening > 0
  /\ LET s == parser.opened + 1
     IN  /\ parser' = [parser EXCEPT !.opening = @ - 1, !.opened = s,
                         !.stream = s, !.buffer = s, !.idle = TRUE]
         /\ reading' = reading \cup {s}
  /\ UNCHANGED <<source, offset, dialog, import, imported, fate, history>>

(* on_file_read(): the file cannot be opened.                              *)
NotOpened ==
  /\ Shown /\ parser.opening > 0
  /\ parser' = [Cleared(parser) EXCEPT !.opening = @ - 1]
  /\ HearsOf("none") /\ Forgets
  /\ UNCHANGED <<source, load, dialog, imported, starts>>

(* Mutant: the idle handler is not connected again.                        *)
Wake(p) == p

(* ensure_idle_handler_connection()                                        *)
EnsureIdle(p) == [p EXCEPT !.idle = TRUE]

(* on_buffer_read(), copy_buffer_and_continue_reading() with some bytes.   *)
(* They were written to the buffer that was current when they were asked   *)
(* for: what happens if that is gone is undefined.                         *)
BufferRead(s) ==
  /\ Shown /\ s \in reading
  /\ offset[s] < Len(file)
  /\ IF parser.buffer = s
     THEN LET end == Min({offset[s] + ReadSize, Len(file)})
          IN  /\ parser' = EnsureIdle([parser EXCEPT
                   !.raw = @ \o SubSeq(file, offset[s] + 1, end)])
              /\ offset' = [offset EXCEPT ![s] = end]
              /\ UNCHANGED fate
     ELSE /\ fate' = "undefined"
          /\ UNCHANGED <<parser, offset>>
  /\ UNCHANGED <<source, reading, dialog, import, imported, history>>

(* on_buffer_read() at the end of the file.  The answer is taken from      *)
(* m_stream, which may be null, or the stream of a later start; that one   *)
(* is then closed as if it had ended, since it says -1, to an error too.   *)
EndRead(s) ==
  /\ Shown /\ s \in reading
  /\ offset[s] = Len(file) \/ parser.stream # s
  /\ reading' = reading \ {s}
  /\ IF parser.stream = 0
     THEN /\ fate' = "undefined"
          /\ UNCHANGED parser
     ELSE /\ parser' = EnsureIdle([parser EXCEPT !.stream = 0, !.buffer = 0])
          /\ UNCHANGED fate
  /\ UNCHANGED <<source, offset, dialog, import, imported, history>>

(* on_buffer_read(): the file cannot be read on.                           *)
ReadFails(s) ==
  /\ Shown /\ s \in reading /\ parser.stream = s
  /\ reading' = reading \ {s}
  /\ parser' = Cleared(parser)
  /\ HearsOf("none") /\ Forgets
  /\ UNCHANGED <<source, offset, dialog, imported, starts>>

----------------------------------------------------------------------------
(* on_idle_parse()                                                         *)

(* The parser when the conversion gave a piece, and when that was the last *)
(* piece: the line that it ends with is a row, too.                        *)
After(p, piece) ==
  [Scanned(p, piece.chars) EXCEPT
     !.pos = @ + piece.used,
     !.idle = piece.why # "EINVAL" /\ p.pos + piece.used < Len(p.raw)]

Finished(p) ==
  IF p.stream # 0 \/ p.pos < Len(p.raw) THEN p
  ELSE [p EXCEPT !.state = "parsed",
                 !.rows = IF p.line = <<>> THEN @
                          ELSE Append(@, FieldsOf(p.line))]

Piece ==
  LET left == SubSeq(parser.raw, parser.pos + 1, Len(parser.raw))
  IN  Converted(parser.encoding, left, ConvertSize)

Invalid(piece) ==
  \/ piece.why = "EILSEQ"
  \/ piece.why = "EINVAL" /\ parser.stream = 0

ParsePiece ==
  /\ Shown /\ parser.idle
  /\ \E piece \in {Piece} :
       /\ ~Invalid(piece)
       /\ \E p \in {After(parser, piece)} :
            /\ parser' = Finished(p)
            /\ HearsOf(Finished(p).state)
            /\ ScannedFirst(Finished(p).rows)
  /\ UNCHANGED <<source, load, detect, button, imported, history>>

(* The encoding is wrong: Dialog_Import_CSV::on_parser_encoding_error()    *)
(* clears the parser and, with begin_parse(), sets the next encoding to be *)
(* tried.  It does not start the parser again.                             *)
EncodingError ==
  /\ Shown /\ parser.idle /\ Invalid(Piece)
  /\ HearsOf("encoding_error") /\ Forgets
  /\ LET next == IF detect = 0 THEN 0 ELSE detect + 1
     IN  /\ detect' = next
         /\ parser' = [Cleared(parser) EXCEPT !.encoding =
                         IF next \in DOMAIN AutoDetect THEN AutoDetect[next]
                         ELSE @]
  /\ columns' = 0
  /\ Validated(parser')
  /\ UNCHANGED <<source, load, fields, imported, starts>>

----------------------------------------------------------------------------
(* The user                                                                *)

(* on_combo_encoding_changed(): set_encoding() clears the parser only if   *)
(* the encoding is another one.                                            *)
ChangeEncoding(d, encoding) ==
  /\ Running /\ progress = "off"
  /\ starts < MaxStarts /\ file \in Reread
  /\ IF d = 1 THEN detect = 0 /\ encoding = AutoDetect[1]
     ELSE detect # 0 \/ encoding # parser.encoding
  /\ detect' = d
  /\ IF encoding = parser.encoding
     THEN /\ parser' = Started(parser)
          /\ UNCHANGED stale
     ELSE /\ parser' = Started([Cleared(parser) EXCEPT !.encoding = encoding])
          /\ Forgets
  /\ starts' = starts + 1
  /\ UNCHANGED <<source, load, button, columns, fields, import, imported, fate>>

(* on_field_edited(): a column is given no field or one that no or another *)
(* column had, which then loses it.                                        *)
ChooseField(k) ==
  /\ Running /\ progress = "off"
  /\ \/ fields' = fields \ {k}
     \/ \E other \in 0..columns : fields' = (fields \ {other}) \cup {k}
  /\ Validated(parser)
  /\ UNCHANGED <<source, parser, load, detect, columns, import, imported, fate,
                 history>>

(* Dialog_Import_CSV_Progress::import()                                    *)
PressImport ==
  /\ Running /\ progress = "off" /\ button
  /\ CASE parser.state = "parsing" -> /\ progress' = "waiting" /\ ready' = TRUE
                                      /\ UNCHANGED fate
       [] parser.state = "parsed" -> /\ progress' = "importing"
                                     /\ UNCHANGED <<ready, fate>>
       [] OTHER -> /\ fate' = "aborted"
                   /\ UNCHANGED import
  /\ UNCHANGED <<source, parser, load, dialog, imported, history>>

(* fetch_next_row() in a build with the checks of g_return_val_if_fail():  *)
(* one of its two checks fails in every state, and calls it again.         *)
FetchRowForEver ==
  /\ Running /\ progress = "importing"
  /\ parser.next = 0 /\ imported = <<>>
  /\ fate' = "hung"
  /\ UNCHANGED <<source, parser, load, dialog, import, imported, history>>

(* on_idle_import(), and fetch_next_row() in a build without: a record has *)
(* the columns of the row that have a field.  Whether it and its values    *)
(* are accepted is the matter of Records.                                  *)
ImportRow ==
  /\ Running /\ progress = "importing"
  /\ IF parser.next < Len(parser.rows)
     THEN /\ imported' = Append(imported,
               [row |-> parser.rows[parser.next + 1], fields |-> fields])
          /\ parser' = [parser EXCEPT !.next = @ + 1]
          /\ UNCHANGED progress
     ELSE /\ progress' = "complete"
          /\ UNCHANGED <<parser, imported>>
  /\ UNCHANGED <<source, load, dialog, ready, fate, history>>

CancelAndRewind ==                 \* mutant: the next import begins at row 1
  /\ Running /\ progress \in {"waiting", "importing"}
  /\ progress' = "off" /\ ready' = FALSE
  /\ parser' = [parser EXCEPT !.next = 0]
  /\ UNCHANGED <<source, load, dialog, imported, fate, history>>

(* The progress dialog is cancelled, or closed when it is complete:        *)
(* on_response() and clear(), which knows nothing of the parser's          *)
(* m_row_index.  The dialog is shown again.                                *)
CancelImport ==
  /\ Running /\ progress \in {"waiting", "importing", "complete"}
  /\ progress' = "off" /\ ready' = FALSE
  /\ UNCHANGED <<source, parser, load, dialog, imported, fate, history>>

(* It is cancelled by an event that on_idle_import() lets GTK+ process: it *)
(* goes on with the null m_data_source that clear() left.                  *)
CancelWithinImport ==
  /\ Running /\ progress = "importing"
  /\ fate' = "undefined"
  /\ UNCHANGED <<source, parser, load, dialog, import, imported, history>>

(* The dialog is cancelled, or the complete import is answered with OK: it *)
(* is deleted with the parser.                                             *)
CloseDialog ==
  /\ Running /\ progress \in {"off", "complete"}
  /\ progress' = "closed"
  /\ UNCHANGED <<source, parser, load, dialog, ready, imported, fate, history>>

(* The answer to a parser that is gone.                                    *)
LateAnswer ==
  /\ Running /\ progress = "closed"
  /\ parser.opening > 0 \/ reading # {}
  /\ fate' = "undefined"
  /\ UNCHANGED <<source, parser, load, dialog, import, imported, history>>

Opening == Opened \/ NotOpened
Reading == \E s \in Streams : BufferRead(s) \/ EndRead(s) \/ ReadFails(s)
Parsing == ParsePiece \/ EncodingError

ImportNext ==
  \/ Opening \/ Reading \/ Parsing
  \/ \E e \in Encodings : ChangeEncoding(0, e) \/ ChangeEncoding(1, e)
  \/ \E k \in 1..columns : ChooseField(k)
  \/ PressImport \/ FetchRowForEver \/ ImportRow \/ CancelImport
  \/ CancelWithinImport \/ CloseDialog \/ LateAnswer

Fairness ==
  WF_importVars(Opening) /\ WF_importVars(Reading) /\ WF_importVars(Parsing)

ImportSpec == ImportInit /\ [][ImportNext]_importVars /\ Fairness

----------------------------------------------------------------------------
(* Properties                                                              *)

(* The rows of a text as the CSV RFC has them: a newline with an even      *)
(* number of quotes before it ends a line, and empty lines are no rows.    *)
(* Edges are the places before, between and after the lines.               *)
Edges(text) ==
  LET quotes(i) == {j \in 1..i : text[j] = "q"}
  IN  {0, Len(text) + 1} \cup
        {i \in DOMAIN text : text[i] = "n" /\ Cardinality(quotes(i)) % 2 = 0}

LineBefore(text, e) ==
  SubSeq(text, Max({i \in Edges(text) : i < e}) + 1, e - 1)

RowEnds(text) == {e \in Edges(text) \ {0} : e - 1 \notin Edges(text)}

RowsOf(text) ==
  LET nth(k) == CHOOSE e \in RowEnds(text) :
                  Cardinality({d \in RowEnds(text) : d <= e}) = k
  IN  [k \in 1..Cardinality(RowEnds(text)) |->
         FieldsOf(LineBefore(text, nth(k)))]

AllRows == RowsOf(Converted(parser.encoding, file, Len(file)).chars)

(* What follows is not said of a parser that was started again, since the  *)
(* file is then appended to what was read of it, nor of one that kept the  *)
(* beginning of a line.                                                    *)
Fresh == Running /\ starts = 1 /\ ~stale

(* However the file comes in pieces and wherever a piece ends, between the *)
(* bytes of a character, within quotes or between two quotes, the parser   *)
(* has found rows of the file and nothing else, in their order, and all of *)
(* them when it says that it has parsed it (on_idle_parse()).              *)
RowsFollowTheFile ==
  Fresh => /\ IsPrefix(parser.rows, AllRows)
           /\ parser.state = "parsed" => parser.rows = AllRows

(* Whether the import is cancelled and begun again or not, each row of the *)
(* file becomes one record (Dialog_Import_CSV_Progress), of columns that   *)
(* the first row has ("The first row decides the amount of columns in our  *)
(* model", says m_cols_count).                                             *)
Taken == [i \in DOMAIN imported |-> imported[i].row]

ImportsEachRowOnce ==
  Fresh => /\ IsPrefix(Taken, AllRows)
           /\ progress = "complete" => Taken = AllRows
           /\ \A i \in DOMAIN imported :
                imported[i].fields \subseteq 1..Len(AllRows[1])

(* When a table is imported from its export, every record has of the row   *)
(* what the columns held that were given a field: the text its number was  *)
(* written as, and the text.  Excepted are a text with two quotes next to  *)
(* each other, which from_file_format() takes for one, and a row without a *)
(* number, whose text moves to the number's column.  The text's column can *)
(* be given a field when the first row has a number: otherwise that row    *)
(* has one column, and no other row may have more.                         *)
Plain(row) ==
  /\ row[1] # <<>>
  /\ \A i \in 1..Len(row[2]) - 1 : row[2][i] # "q" \/ row[2][i + 1] # "q"

ExportedComesBack ==
  /\ Fresh /\ progress = "complete" /\ table # NoTable
  => /\ Len(imported) = Len(table)
     /\ table # <<>> => columns = IF table[1][1] = <<>> THEN 1 ELSE 2
     /\ \A i \in DOMAIN table :
          Plain(table[i]) =>
            \A k \in imported[i].fields :
              /\ k = 1 => imported[i].row[1] = table[i][1]
              /\ k = 2 => FromFileFormat(imported[i].row[2]) = table[i][2]

(* A started parser comes to an end, and so does the wait of the import    *)
(* for it, however reads and idle handlers alternate.                      *)
ParsingEnds ==
  /\ Shown
  /\ parser.state = "parsing" \/ progress = "waiting"
  ~> \/ ~Shown
     \/ parser.state # "parsing" /\ progress # "waiting"

=============================================================================
