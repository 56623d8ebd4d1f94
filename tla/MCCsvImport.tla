---------------------------- MODULE MCCsvImport ----------------------------
(* Instances of CsvImport for TLC: many files that are read once, a few    *)
(* of which may be read again in the middle.                               *)
EXTENDS CsvImport

MCNumbers == {<<>>, <<"a">>}
MCTexts == {<<"u">>, <<"q", "c">>, <<"q", "q">>, <<"n", "u">>, <<"n">>}
MCRows == MCNumbers \X MCTexts
MCTables ==
  {<<>>, << <<<<>>, <<"u", "c">>>> >>} \cup {<<row>> : row \in MCRows} \cup
  {<<first, second>> : first, second \in MCRows}

(* Without a newline at the end, with empty lines, in Latin 1, with half a *)
(* character at the end, with a row that is longer or shorter than the     *)
(* first.                                                                  *)
MCForeign ==
  {<<>>, <<"n">>, <<"a", "n", "n", "a">>, <<"a", "c", "n", "c">>,
   <<"a", "n", "l", "a">>, <<"a", "l", "n", "t">>, <<"a", "a", "l">>,
   <<"q", "n", "l", "t", "n">>, <<"a", "n", "a", "c">>,
   <<"a", "c", "c", "n", "l", "t", "n", "c">>}

(* The files that the user reads again in the middle.                      *)
MCReread ==
  {Exported(<< <<<<>>, <<"u", "c">>>> >>),
   <<>>, <<"n">>, <<"a", "n", "n", "a">>, <<"a", "l", "n", "t">>,
   <<"a", "a", "l">>, <<"q", "n", "l", "t", "n">>, <<"a", "n", "a", "c">>}
=============================================================================
