---------------------------- MODULE Calculations ----------------------------
(***************************************************************************)
(* How the change of one field of a record reaches the calculated fields   *)
(* and the lookup fields of that record (Base_DB).                         *)
(*                                                                         *)
(* set_field_value_in_database() stores a value, then stores what the      *)
(* lookups that the field triggers find (do_lookups), then has the fields  *)
(* whose formula uses the field calculated (do_calculations), and the      *)
(* fields that use those.  calculate_field() first has the calculated      *)
(* fields of its formula calculated, runs the formula and calls            *)
(* set_field_value_in_database() for the result, so that the three         *)
(* functions call each other.  m_FieldsCalculationInProgress tells which   *)
(* fields are being calculated, and which are finished; the outermost      *)
(* do_calculations() clears it first and last.                             *)
(*                                                                         *)
(* The stack of the model is the stack of these calls, a frame for each    *)
(* with what it still has to do.  Of the values it keeps which calculated  *)
(* fields are stale: their formula would now give another value.           *)
(***************************************************************************)
EXTENDS Naturals, Sequences, SequencesExt

CONSTANTS
  N,          \* number of fields of the table, in the document's order
  Designs,    \* the designs of that table to be looked at
  MaxDepth    \* bound on the calls, instead of the size of the C++ stack

Fields == 1..N

(* needs[f]: the fields that the formula of f uses; looks[f]: the fields   *)
(* that look their values up through a relationship from f.                *)
Design ==
  [needs : [Fields -> SUBSET Fields], looks : [Fields -> SUBSET Fields]]

ASSUME CalculationsAssumption ==
  /\ N \in Nat /\ MaxDepth \in Nat
  /\ Designs \subseteq Design

VARIABLES
  design,     \* the Document's part
  progress,   \* m_FieldsCalculationInProgress
  stack,      \* the calls, the innermost last
  stale,      \* calculated fields with a value that is not their formula's
  failed,     \* history: reading a record or storing a value failed, or Glom
              \* ended in mid-calculation
  ended       \* how Glom ended: "no", "overflow" of the stack, or "crash"

vars == <<design, progress, stack, stale, failed, ended>>

Calculated == {f \in Fields : design.needs[f] # {}}

Frames ==
  [at : {"needs", "lookups", "calculations", "triggers"}, field : Fields,
   todo : SUBSET Fields, first : BOOLEAN]

(* Clear: clear_fields_calculation_in_progress()                           *)
Clear == [f \in Fields |-> "no"]

TypeOK ==
  /\ design \in Design
  /\ progress \in [Fields -> {"no", "calculating", "finished"}]
  /\ stack \in Seq(Frames)
  /\ stale \subseteq Calculated
  /\ failed \in BOOLEAN
  /\ ended \in {"no", "overflow", "crash"}

Init ==
  /\ design \in Designs
  /\ progress = Clear
  /\ stack = <<>>
  /\ stale = {}
  /\ failed = FALSE
  /\ ended = "no"

----------------------------------------------------------------------------
(* What the document says.                                                 *)

(* The loops over fields of the document take them in its order.           *)
FirstOf(S) == {f \in S : \A g \in S : f <= g}

(* Mutant: lookup fields are taken for calculated ones.                    *)
UsersAndLookups(f) ==
  {g \in Fields : f \in design.needs[g]} \cup design.looks[f]

(* get_calculated_fields(): the fields whose formula uses f.               *)
UsersOf(f) == {g \in Fields : f \in design.needs[g]}

NothingNeeded(f) == {}                         \* mutant: no dependencies first

(* get_calculation_fields(), those of them that are calculated.            *)
Needed(f) == design.needs[f] \cap Calculated

LookupFieldsAndItself(f) == design.looks[f]    \* mutant: it may

(* Document::get_lookup_fields(): "Don't let a field trigger its own value"*)
LookupFields(f) == design.looks[f] \ {f}

----------------------------------------------------------------------------
(* Calls                                                                   *)

Call(what, f, todo, isFirst) ==
  [at |-> what, field |-> f, todo |-> todo, first |-> isFirst]

Top == Last(stack)

(* The stack as the innermost call takes one of the fields it has to do.   *)
Taken(f) == [stack EXCEPT ![Len(stack)].todo = @ \ {f}]

In(what) ==
  /\ ended = "no"
  /\ stack # <<>> /\ Len(stack) < MaxDepth
  /\ Top.at = what

(* calculate_field() does nothing for a field that is being calculated, or *)
(* is finished.                                                            *)
Begun(f, calls) ==
  IF progress[f] = "no"
  THEN /\ progress' = [progress EXCEPT ![f] = "calculating"]
       /\ stack' = Append(calls, Call("needs", f, Needed(f), FALSE))
  ELSE /\ UNCHANGED progress
       /\ stack' = calls

(* The rest of set_field_value_in_database(f) once the value is stored:    *)
(* lookups, then calculations.                                             *)
Stored(f, calls, isFirst) ==
  stack' = calls \o <<Call("calculations", f, {}, isFirst),
                      Call("lookups", f, LookupFields(f), isFirst)>>

(* A new value of f makes what is calculated from it stale; f, too, if it  *)
(* is calculated and the value is not that of its formula.                 *)
Changed(f) == stale' = (stale \ {f}) \cup (UsersOf(f) \ {f})
Overwritten(f) == stale' = stale \cup ({f} \cap Calculated) \cup UsersOf(f)

----------------------------------------------------------------------------
Idle == ended = "no" /\ stack = <<>>

(* The user enters a value, in the list or in the details; or related      *)
(* records change, on which formulas depend as on a field                  *)
(* (recalculate_fields_for_related_records).                               *)
Edit(f) ==
  /\ Idle
  /\ f \notin Calculated
  /\ Overwritten(f)
  /\ Stored(f, <<>>, TRUE)
  /\ UNCHANGED <<design, progress, failed, ended>>

(* A developer gives f another formula: calculate_field_in_all_records().  *)
ChangeFormula(f) ==
  /\ Idle
  /\ f \in Calculated
  /\ stale' = stale \cup {f}
  /\ progress' = [Clear EXCEPT ![f] = "calculating"]
  /\ stack' = <<Call("needs", f, Needed(f), FALSE)>>
  /\ UNCHANGED <<design, failed, ended>>

(* calculate_field(): the calculated fields of its formula first, in the   *)
(* order in which the formula names them, which may be any.                *)
CalculateNeeded ==
  /\ In("needs")
  /\ \E f \in Top.todo : Begun(f, Taken(f))
  /\ UNCHANGED <<design, stale, failed, ended>>

(* The formula is run on the values of the record, and its value stored.   *)
Evaluate ==
  /\ In("needs")
  /\ Top.todo = {}
  /\ progress[Top.field] = "calculating"
  /\ progress' = [progress EXCEPT ![Top.field] = "finished"]
  /\ IF Top.field \in stale THEN Changed(Top.field) ELSE UNCHANGED stale
  /\ Stored(Top.field, Front(stack), FALSE)
  /\ UNCHANGED <<design, failed, ended>>

(* When the record cannot be read get_record_field_values() answers with   *)
(* empty values, as for a record that does not exist yet.                  *)
EvaluateUnread ==
  /\ In("needs")
  /\ Top.todo = {}
  /\ progress[Top.field] = "calculating"
  /\ progress' = [progress EXCEPT ![Top.field] = "finished"]
  /\ Overwritten(Top.field)
  /\ Stored(Top.field, Front(stack), FALSE)
  /\ failed' = TRUE
  /\ UNCHANGED <<design, ended>>

UpdateFails ==
  /\ In("needs")
  /\ Top.todo = {}
  /\ progress[Top.field] = "calculating"
  /\ progress' = [progress EXCEPT ![Top.field] = "finished"]
  /\ stack' = Front(stack)
  /\ failed' = TRUE
  /\ UNCHANGED <<design, stale, ended>>

CalculatedMeanwhile ==
  /\ In("needs")
  /\ Top.todo = {}
  /\ progress[Top.field] = "finished"
  /\ stack' = Front(stack)
  /\ UNCHANGED <<design, progress, stale, failed, ended>>

(* "Always succeeds", says the code of looking the field up again.         *)
NoLongerInProgress ==
  /\ In("needs")
  /\ Top.todo = {}
  /\ progress[Top.field] = "no"
  /\ ended' = "crash"
  /\ UNCHANGED <<design, progress, stack, stale, failed>>

(* do_lookups(): a lookup is stored with use_current_calculations left at  *)
(* its default, false.                                                     *)
LookUp ==
  /\ In("lookups")
  /\ \E found \in FirstOf(Top.todo) :
       \/ /\ Overwritten(found)
          /\ Stored(found, Taken(found), TRUE)
          /\ UNCHANGED failed
       \/ /\ stack' = Taken(found)
          /\ failed' = TRUE
          /\ UNCHANGED stale
  /\ UNCHANGED <<design, progress, ended>>

(* The value that calculate_field() stored is a reference into             *)
(* m_FieldsCalculationInProgress, and it is used again after each lookup   *)
(* has cleared that.                                                       *)
UseClearedValue ==
  /\ In("lookups")
  /\ ~Top.first
  /\ progress[Top.field] = "no"
  /\ ended' = "crash"
  /\ UNCHANGED <<design, progress, stack, stale, failed>>

LookupsDone ==
  /\ In("lookups")
  /\ Top.todo = {}
  /\ stack' = Front(stack)
  /\ UNCHANGED <<design, progress, stale, failed, ended>>

(* do_calculations()                                                       *)
Triggers == [stack EXCEPT ![Len(stack)].at = "triggers",
                          ![Len(stack)].todo = UsersOf(Top.field)]

(* Mutant: every do_calculations() clears.                                 *)
ClearAndBeginCalculations ==
  /\ In("calculations")
  /\ progress' = Clear
  /\ stack' = Triggers
  /\ UNCHANGED <<design, stale, failed, ended>>

BeginCalculations ==
  /\ In("calculations")
  /\ progress' = IF Top.first THEN Clear ELSE progress
  /\ stack' = Triggers
  /\ UNCHANGED <<design, stale, failed, ended>>

Trigger ==
  /\ In("triggers")
  /\ \E f \in FirstOf(Top.todo) :
       Begun(f, Append(Taken(f), Call("calculations", f, {}, FALSE)))
  /\ UNCHANGED <<design, stale, failed, ended>>

CalculationsDone ==
  /\ In("triggers")
  /\ Top.todo = {}
  /\ progress' = IF Top.first THEN Clear ELSE progress
  /\ stack' = Front(stack)
  /\ UNCHANGED <<design, stale, failed, ended>>

Overflow ==
  /\ ended = "no"
  /\ Len(stack) >= MaxDepth
  /\ ended' = "overflow"
  /\ UNCHANGED <<design, progress, stack, stale, failed>>

(* The user starts Glom again.                                             *)
StartAgain ==
  /\ ended # "no"
  /\ ended' = "no"
  /\ stack' = <<>>
  /\ progress' = Clear
  /\ failed' = TRUE
  /\ UNCHANGED <<design, stale>>

Step ==
  \/ CalculateNeeded \/ Evaluate \/ EvaluateUnread
  \/ UpdateFails \/ CalculatedMeanwhile
  \/ NoLongerInProgress
  \/ LookUp \/ UseClearedValue \/ LookupsDone
  \/ BeginCalculations \/ Trigger \/ CalculationsDone
  \/ Overflow

Next ==
  \/ \E f \in Fields : Edit(f) \/ ChangeFormula(f)
  \/ Step
  \/ StartAgain

(* The calls are one thread's: they go on until they return.               *)
Spec == Init /\ [][Next]_vars /\ WF_vars(Step)

----------------------------------------------------------------------------
(* No field depends on itself, through formulas and lookups: some field of *)
(* any set depends on none in it.                                          *)
Acyclic(d) ==
  \A S \in SUBSET Fields \ {{}} :
     \E f \in S : \A g \in S :
        g \notin d.needs[f] /\ (f \notin d.looks[g] \/ f = g)

LooksUpFromCalculated(d) ==
  \E f \in Fields : d.needs[f] # {} /\ d.looks[f] \ {f} # {}

(* A developer may give a field both a formula and a lookup.               *)
LooksUpCalculated(d) ==
  \E f \in Fields : \E g \in d.looks[f] \ {f} : d.needs[g] # {}

(* A calculated field is calculated from one that is calculated from       *)
(* another.                                                                *)
ThreeInAChain(d) ==
  \E f, g, h \in Fields :
     d.needs[f] # {} /\ f \in d.needs[g] /\ g \in d.needs[h]

(* When all calls have returned every calculated field has the value of    *)
(* its formula, unless reading the record or storing a value failed: a     *)
(* change reaches all the fields that depend on it, however the document   *)
(* orders them.  This is so only where no chain of three calculated fields *)
(* exists, and no lookup stores into a calculated field or follows one.    *)
ConsistentWhenDone ==
  Idle /\ ~failed /\ stale # {} =>
    \/ ThreeInAChain(design)
    \/ LooksUpFromCalculated(design) \/ LooksUpCalculated(design)

(* The entries of m_FieldsCalculationInProgress that a call refers to, or  *)
(* looks up again, are gone only where a lookup goes from a calculated     *)
(* field: there the lookup has cleared them.                               *)
CrashesOnlyAfterLookups ==
  ended = "crash" => LooksUpFromCalculated(design)

(* Every change comes to an end, with no field in progress for ever and    *)
(* without exhausting the stack, when no field depends on itself: only     *)
(* calculate_field() looks for circles, and neither do_calculations() nor  *)
(* do_lookups() does.                                                      *)
ChangesEnd ==
  /\ stack # <<>> /\ ended = "no"
  /\ Acyclic(design) /\ ~LooksUpFromCalculated(design)
  ~> Idle

(* calculate_field() skips a field that is finished: "Don't bother         *)
(* calculating it again.  The correct value is already in the database and *)
(* layout."                                                                *)
FinishedIsCorrect ==
  /\ In("triggers") /\ ~failed
  /\ Acyclic(design)
  /\ ~LooksUpFromCalculated(design) /\ ~LooksUpCalculated(design)
  => \A f \in FirstOf(Top.todo) : progress[f] = "finished" => f \notin stale
=============================================================================
