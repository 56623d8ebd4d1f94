------------------------ MODULE Calculations_proofs ------------------------
(***************************************************************************)
(* Proofs about Calculations: what the entries of                          *)
(* m_FieldsCalculationInProgress say of the calls on the stack, and from   *)
(* that, that no call misses its entry, and that a change reaches the      *)
(* fields that are calculated from it, for tables and stacks of any size.  *)
(*                                                                         *)
(* The actions replace the innermost call by up to three others.  The      *)
(* lemmas of the first part say which, the invariants look at no more.     *)
(***************************************************************************)
EXTENDS Calculations, SequenceTheorems, TLAPS

-----------------------------------------------------------------------------
(* Stacks                                                                  *)

(* A stack without its last call.                                          *)
LEMMA FrontOfCalls ==
  ASSUME NEW S, NEW s \in Seq(S), s # <<>>
  PROVE  /\ Front(s) \in Seq(S)
         /\ Len(s) \in Nat \ {0}
         /\ Len(Front(s)) = Len(s) - 1
         /\ \A i \in 1 .. Len(s) - 1 : Front(s)[i] = s[i]
<1>1. Len(s) \in Nat \ {0}
  BY EmptySeq, LenProperties
<1>2. \A i \in 1 .. Len(s) - 1 : s[i] \in S
  BY <1>1, ElementOfSeq
<1>3. 1 \in Int /\ Len(s) - 1 \in Int
  BY <1>1
<1> DEFINE m == Len(s) - 1
<1>4. /\ SubSeq(s, 1, m) \in Seq(S)
      /\ Len(SubSeq(s, 1, m)) = IF 1 <= m THEN m - 1 + 1 ELSE 0
      /\ \A i \in 1 .. m - 1 + 1 : SubSeq(s, 1, m)[i] = s[1 + i - 1]
  <2> HIDE DEF m
  <2> QED
    BY <1>2, <1>3, SubSeqProperties DEF m
<1>5. m \in Nat /\ m - 1 + 1 = m /\ \A i \in 1 .. m : 1 + i - 1 = i
  BY <1>1
<1>6. Front(s) = SubSeq(s, 1, m)
  BY DEF Front
<1> HIDE DEF m
<1>7. /\ Front(s) \in Seq(S) /\ Len(Front(s)) = m
      /\ \A i \in 1 .. m : Front(s)[i] = s[i]
  BY <1>4, <1>5, <1>6
<1> QED
  BY <1>1, <1>7 DEF m

(* One call more.                                                          *)
LEMMA AppendCall ==
  ASSUME NEW S, NEW s \in Seq(S), NEW c \in S
  PROVE  /\ Append(s, c) \in Seq(S)
         /\ Len(Append(s, c)) = Len(s) + 1
         /\ \A i \in 1 .. Len(s) : Append(s, c)[i] = s[i]
         /\ Append(s, c)[Len(s) + 1] = c
BY AppendProperties

(* Two calls more.                                                         *)
LEMMA AppendTwo ==
  ASSUME NEW S, NEW s \in Seq(S), NEW c \in S, NEW e \in S
  PROVE  /\ s \o <<c, e>> \in Seq(S)
         /\ Len(s \o <<c, e>>) = Len(s) + 2
         /\ \A i \in 1 .. Len(s) : (s \o <<c, e>>)[i] = s[i]
         /\ (s \o <<c, e>>)[Len(s) + 1] = c
         /\ (s \o <<c, e>>)[Len(s) + 2] = e
<1>1. <<c, e>> \in Seq(S) /\ Len(<<c, e>>) = 2
  OBVIOUS
<1> QED
  BY <1>1, ConcatProperties, LenProperties

(* A call on the stack.                                                    *)
LEMMA Frame ==
  ASSUME NEW what \in {"needs", "lookups", "calculations", "triggers"},
         NEW f \in Fields, NEW T \in SUBSET Fields, NEW b \in BOOLEAN
  PROVE  /\ Call(what, f, T, b) \in Frames
         /\ Call(what, f, T, b).at = what /\ Call(what, f, T, b).field = f
         /\ Call(what, f, T, b).todo = T /\ Call(what, f, T, b).first = b
BY DEF Call, Frames

LEMMA FrameTaken ==
  ASSUME NEW c \in Frames, NEW T
  PROVE  [c EXCEPT !.todo = T] = Call(c.at, c.field, T, c.first)
<1> DEFINE d == [c EXCEPT !.todo = T]
<1>1. /\ d.at = c.at /\ d.field = c.field /\ d.todo = T /\ d.first = c.first
      /\ d = [at |-> d.at, field |-> d.field, todo |-> d.todo,
              first |-> d.first]
  BY DEF Frames
<1> QED
  BY <1>1 DEF Call

(* What the document says is about its fields.                             *)
LEMMA FieldSets ==
  ASSUME TypeOK, NEW f \in Fields
  PROVE  /\ UsersOf(f) \subseteq Calculated /\ Needed(f) \subseteq Calculated
         /\ LookupFields(f) \subseteq Fields /\ Calculated \subseteq Fields
BY DEF TypeOK, Design, UsersOf, Needed, LookupFields, Calculated

(* The calls of a well-typed stack.                                        *)
LEMMA CallsTyped ==
  ASSUME TypeOK
  PROVE  /\ Len(stack) \in Nat
         /\ \A i \in 1 .. Len(stack) : stack[i] \in Frames
         /\ stack # <<>> => Len(stack) >= 1 /\ Top = stack[Len(stack)]
                            /\ Top \in Frames
<1>1. stack \in Seq(Frames)
  BY DEF TypeOK
<1>2. Len(stack) \in Nat /\ \A i \in 1 .. Len(stack) : stack[i] \in Frames
  BY <1>1, ElementOfSeq, LenProperties
<1>3. stack # <<>> => Len(stack) # 0
  BY <1>1, EmptySeq
<1> QED
  BY <1>2, <1>3 DEF Top, Last

(* The innermost call goes on with something else.                         *)
LEMMA Replaced ==
  ASSUME TypeOK, stack # <<>>, NEW c \in Frames
  PROVE  LET s == [stack EXCEPT ![Len(stack)] = c]
         IN  /\ s \in Seq(Frames) /\ Len(s) = Len(stack)
             /\ s[Len(stack)] = c
             /\ \A i \in 1 .. Len(stack) - 1 : s[i] = stack[i]
<1>1. stack \in Seq(Frames) /\ Len(stack) \in 1 .. Len(stack)
  BY CallsTyped DEF TypeOK
<1> QED
  BY <1>1, ExceptSeq

(* It takes one of the fields it has to do.                                *)
LEMMA TakenStack ==
  ASSUME TypeOK, stack # <<>>, NEW f
  PROVE  /\ Taken(f) \in Seq(Frames) /\ Len(Taken(f)) = Len(stack)
         /\ \A i \in 1 .. Len(stack) - 1 : Taken(f)[i] = stack[i]
         /\ Taken(f)[Len(stack)]
              = Call(Top.at, Top.field, Top.todo \ {f}, Top.first)
<1> DEFINE c == Call(Top.at, Top.field, Top.todo \ {f}, Top.first)
<1>1. Top \in Frames /\ Top = stack[Len(stack)]
  BY CallsTyped
<1>2. c \in Frames
  BY <1>1 DEF Call, Frames
<1>3. [Top EXCEPT !.todo = Top.todo \ {f}] = c
  BY <1>1, FrameTaken
<1>4. Taken(f) = [stack EXCEPT ![Len(stack)] = c]
  BY <1>1, <1>3 DEF Taken
<1> HIDE DEF c
<1>5. /\ [stack EXCEPT ![Len(stack)] = c] \in Seq(Frames)
      /\ Len([stack EXCEPT ![Len(stack)] = c]) = Len(stack)
      /\ [stack EXCEPT ![Len(stack)] = c][Len(stack)] = c
      /\ \A i \in 1 .. Len(stack) - 1 :
           [stack EXCEPT ![Len(stack)] = c][i] = stack[i]
  BY <1>2, Replaced
<1> QED
  BY <1>4, <1>5 DEF c

(* do_calculations() knows the fields it has to have calculated.           *)
LEMMA TriggersStack ==
  ASSUME TypeOK, stack # <<>>
  PROVE  /\ Triggers \in Seq(Frames) /\ Len(Triggers) = Len(stack)
         /\ \A i \in 1 .. Len(stack) - 1 : Triggers[i] = stack[i]
         /\ Triggers[Len(stack)]
              = Call("triggers", Top.field, UsersOf(Top.field), Top.first)
<1> DEFINE c == Call("triggers", Top.field, UsersOf(Top.field), Top.first)
           n == Len(stack)
<1>1. Top \in Frames /\ Top = stack[n] /\ stack \in Seq(Frames)
      /\ n \in 1 .. n
  BY CallsTyped DEF TypeOK
<1>2. Top.field \in Fields /\ UsersOf(Top.field) \in SUBSET Fields
  BY <1>1, FieldSets DEF Frames
<1>3. c \in Frames
  BY <1>1, <1>2 DEF Call, Frames
<1>4. [[Top EXCEPT !.at = "triggers"] EXCEPT !.todo = UsersOf(Top.field)] = c
  <2> DEFINE t == [Top EXCEPT !.at = "triggers"]
  <2>1. /\ t \in Frames /\ t.at = "triggers" /\ t.field = Top.field
        /\ t.first = Top.first
    BY <1>1 DEF Frames
  <2> HIDE DEF t
  <2>2. [t EXCEPT !.todo = UsersOf(Top.field)] = c
    BY <2>1, FrameTaken
  <2> QED
    BY <2>2 DEF t
<1>5. DOMAIN stack = 1 .. n
  BY <1>1, LenProperties
<1>6. Triggers = [stack EXCEPT ![n] = c]
  <2> DEFINE t == [Top EXCEPT !.at = "triggers"]
             s == [stack EXCEPT ![n] = t]
  <2>1. Triggers = [s EXCEPT ![n] = [s[n] EXCEPT !.todo = UsersOf(Top.field)]]
    BY <1>1 DEF Triggers
  <2>2. s[n] = t
    BY <1>1, <1>5
  <2>3. Triggers = [s EXCEPT ![n] = c]
    BY <1>4, <2>1, <2>2
  <2> HIDE DEF c, t
  <2> QED
    BY <2>3
<1> HIDE DEF c
<1>7. /\ [stack EXCEPT ![n] = c] \in Seq(Frames)
      /\ Len([stack EXCEPT ![n] = c]) = n
      /\ [stack EXCEPT ![n] = c][n] = c
      /\ \A i \in 1 .. n - 1 : [stack EXCEPT ![n] = c][i] = stack[i]
  BY <1>3, Replaced
<1> QED
  BY <1>6, <1>7 DEF c

-----------------------------------------------------------------------------
(* What the actions do to the stack.                                       *)

Kept(n) == \A i \in 1 .. n : stack'[i] = stack[i]

(* The innermost call before a step.                                       *)
LEMMA InTop ==
  ASSUME TypeOK, NEW what, In(what)
  PROVE  /\ ended = "no" /\ stack # <<>> /\ stack \in Seq(Frames)
         /\ Len(stack) \in Nat \ {0} /\ Top = stack[Len(stack)]
         /\ Top \in Frames /\ Top.at = what
         /\ Top.field \in Fields /\ Top.todo \subseteq Fields
         /\ Top.first \in BOOLEAN
BY CallsTyped DEF In, Frames, TypeOK

(* calculate_field() is called from the end of the given calls.            *)
BegunFrom(f, n) ==
  \/ /\ progress[f] = "no"
     /\ progress' = [progress EXCEPT ![f] = "calculating"]
     /\ Len(stack') = n + 1
     /\ stack'[n + 1] = Call("needs", f, Needed(f), FALSE)
  \/ /\ progress[f] # "no"
     /\ progress' = progress
     /\ Len(stack') = n

LEMMA BegunStep ==
  ASSUME TypeOK, NEW f \in Fields, NEW calls \in Seq(Frames), Begun(f, calls)
  PROVE  /\ stack' \in Seq(Frames)
         /\ progress' \in [Fields -> {"no", "calculating", "finished"}]
         /\ \A i \in 1 .. Len(calls) : stack'[i] = calls[i]
         /\ BegunFrom(f, Len(calls))
<1> DEFINE c == Call("needs", f, Needed(f), FALSE)
<1>1. c \in Frames
  BY FieldSets, Frame
<1>2. /\ Append(calls, c) \in Seq(Frames)
      /\ Len(Append(calls, c)) = Len(calls) + 1
      /\ \A i \in 1 .. Len(calls) : Append(calls, c)[i] = calls[i]
      /\ Append(calls, c)[Len(calls) + 1] = c
  BY <1>1, AppendCall
<1>3. CASE progress[f] = "no"
  <2>1. /\ progress' = [progress EXCEPT ![f] = "calculating"]
        /\ stack' = Append(calls, c)
    BY <1>3 DEF Begun
  <2> HIDE DEF c
  <2>2. progress' \in [Fields -> {"no", "calculating", "finished"}]
    BY <2>1 DEF TypeOK
  <2> QED
    BY <1>2, <1>3, <2>1, <2>2 DEF BegunFrom, c
<1>4. CASE progress[f] # "no"
  <2>1. progress' = progress /\ stack' = calls
    BY <1>4 DEF Begun
  <2> QED
    BY <1>4, <2>1 DEF BegunFrom, TypeOK
<1> QED
  BY <1>3, <1>4

(* The two calls that follow the UPDATE.                                   *)
StoredFrom(f, n, isFirst) ==
  /\ Len(stack') = n + 2
  /\ stack'[n + 1] = Call("calculations", f, {}, isFirst)
  /\ stack'[n + 2] = Call("lookups", f, LookupFields(f), isFirst)

LEMMA StoredStep ==
  ASSUME TypeOK, NEW f \in Fields, NEW calls \in Seq(Frames),
         NEW isFirst \in BOOLEAN, Stored(f, calls, isFirst)
  PROVE  /\ stack' \in Seq(Frames)
         /\ \A i \in 1 .. Len(calls) : stack'[i] = calls[i]
         /\ StoredFrom(f, Len(calls), isFirst)
<1> DEFINE c == Call("calculations", f, {}, isFirst)
           e == Call("lookups", f, LookupFields(f), isFirst)
<1>1. c \in Frames /\ e \in Frames
  BY FieldSets, Frame
<1>2. stack' = calls \o <<c, e>>
  BY DEF Stored
<1>3. StoredFrom(f, Len(calls), isFirst)
       <=> /\ Len(stack') = Len(calls) + 2
           /\ stack'[Len(calls) + 1] = c
           /\ stack'[Len(calls) + 2] = e
  BY DEF StoredFrom
<1> HIDE DEF c, e
<1> QED
  BY <1>1, <1>2, <1>3, AppendTwo

(* A change makes only calculated fields stale.                            *)
LEMMA StaleTyped ==
  ASSUME TypeOK, NEW f \in Fields, design' = design,
         Changed(f) \/ Overwritten(f)
  PROVE  stale' \subseteq Calculated'
<1>1. Calculated' = Calculated
  BY DEF Calculated
<1> QED
  BY <1>1, FieldSets DEF Changed, Overwritten, TypeOK

LEMMA EditStep ==
  ASSUME TypeOK, NEW f \in Fields, Edit(f)
  PROVE  /\ TypeOK'
         /\ Len(stack) = 0 /\ StoredFrom(f, 0, TRUE)
<1>1. /\ stack = <<>> /\ Stored(f, <<>>, TRUE) /\ Overwritten(f)
      /\ UNCHANGED <<design, progress, failed, ended>>
  BY DEF Edit, Idle
<1>2. <<>> \in Seq(Frames) /\ Len(<<>>) = 0
  BY EmptySeq
<1>3. stack' \in Seq(Frames) /\ StoredFrom(f, 0, TRUE)
  BY <1>1, <1>2, StoredStep
<1>4. stale' \subseteq Calculated'
  BY <1>1, StaleTyped
<1> QED
  BY <1>1, <1>2, <1>3, <1>4 DEF TypeOK

LEMMA ChangeFormulaStep ==
  ASSUME TypeOK, NEW f \in Fields, ChangeFormula(f)
  PROVE  /\ TypeOK'
         /\ Len(stack) = 0 /\ Len(stack') = 1
         /\ stack'[1] = Call("needs", f, Needed(f), FALSE)
<1> DEFINE c == Call("needs", f, Needed(f), FALSE)
<1>1. /\ stack = <<>> /\ f \in Calculated
      /\ stale' = stale \cup {f} /\ stack' = <<c>>
      /\ progress' = [Clear EXCEPT ![f] = "calculating"]
      /\ UNCHANGED <<design, failed, ended>>
  BY DEF ChangeFormula, Idle
<1>2. c \in Frames
  BY FieldSets, Frame
<1>3. Calculated' = Calculated
  BY <1>1 DEF Calculated
<1> HIDE DEF c
<1>4. stack' \in Seq(Frames) /\ Len(stack') = 1 /\ stack'[1] = c
  BY <1>1, <1>2
<1>5. progress' \in [Fields -> {"no", "calculating", "finished"}]
  BY <1>1 DEF Clear
<1>6. TypeOK'
  BY <1>1, <1>3, <1>4, <1>5 DEF TypeOK
<1> QED
  BY <1>1, <1>4, <1>6, EmptySeq DEF c

LEMMA CalculateNeededStep ==
  ASSUME TypeOK, CalculateNeeded
  PROVE  /\ TypeOK'
         /\ Kept(Len(stack) - 1)
         /\ \E f \in Top.todo :
              /\ stack'[Len(stack)]
                   = Call("needs", Top.field, Top.todo \ {f}, Top.first)
              /\ BegunFrom(f, Len(stack))
<1>1. In("needs") /\ UNCHANGED <<design, stale, failed, ended>>
  BY DEF CalculateNeeded
<1>2. PICK f \in Top.todo : Begun(f, Taken(f))
  BY DEF CalculateNeeded
<1>3. /\ stack # <<>> /\ Len(stack) \in Nat \ {0} /\ Top.at = "needs"
      /\ f \in Fields
  BY <1>1, <1>2, InTop
<1>4. /\ Taken(f) \in Seq(Frames) /\ Len(Taken(f)) = Len(stack)
      /\ \A i \in 1 .. Len(stack) - 1 : Taken(f)[i] = stack[i]
      /\ Taken(f)[Len(stack)]
           = Call(Top.at, Top.field, Top.todo \ {f}, Top.first)
  BY <1>3, TakenStack
<1>5. /\ stack' \in Seq(Frames)
      /\ progress' \in [Fields -> {"no", "calculating", "finished"}]
      /\ \A i \in 1 .. Len(Taken(f)) : stack'[i] = Taken(f)[i]
      /\ BegunFrom(f, Len(Taken(f)))
  BY <1>2, <1>3, <1>4, BegunStep
<1>6. TypeOK'
  BY <1>1, <1>5 DEF TypeOK, Calculated
<1>7. /\ \A i \in 1 .. Len(stack) - 1 : stack'[i] = stack[i]
      /\ stack'[Len(stack)] = Taken(f)[Len(stack)]
  BY <1>3, <1>4, <1>5
<1> QED
  BY <1>3, <1>4, <1>5, <1>6, <1>7 DEF Kept

(* The innermost call returns.                                             *)
LEMMA FrontStep ==
  ASSUME TypeOK, stack # <<>>, stack' = Front(stack)
  PROVE  /\ stack' \in Seq(Frames) /\ Len(stack') = Len(stack) - 1
         /\ Kept(Len(stack) - 1)
BY FrontOfCalls DEF TypeOK, Kept

LEMMA EvaluateStep ==
  ASSUME TypeOK, Evaluate \/ EvaluateUnread
  PROVE  /\ TypeOK'
         /\ Kept(Len(stack) - 1)
         /\ StoredFrom(Top.field, Len(stack) - 1, FALSE)
<1>1. /\ In("needs")
      /\ progress' = [progress EXCEPT ![Top.field] = "finished"]
      /\ Stored(Top.field, Front(stack), FALSE)
      /\ UNCHANGED <<design, ended>> /\ failed' \in {failed, TRUE}
  BY DEF Evaluate, EvaluateUnread
<1>2. stack # <<>> /\ stack \in Seq(Frames) /\ Top.field \in Fields
  BY <1>1, InTop
<1>3. /\ Front(stack) \in Seq(Frames)
      /\ Len(Front(stack)) = Len(stack) - 1
      /\ \A i \in 1 .. Len(stack) - 1 : Front(stack)[i] = stack[i]
  BY <1>2, FrontOfCalls
<1>4. /\ stack' \in Seq(Frames)
      /\ \A i \in 1 .. Len(Front(stack)) : stack'[i] = Front(stack)[i]
      /\ StoredFrom(Top.field, Len(Front(stack)), FALSE)
  BY <1>1, <1>2, <1>3, StoredStep
<1>5. stale' \subseteq Calculated'
  <2>1. CASE Changed(Top.field)
    BY <1>1, <1>2, <2>1, StaleTyped
  <2>2. CASE UNCHANGED stale
    BY <1>1, <2>2 DEF TypeOK, Calculated
  <2>3. CASE Overwritten(Top.field)
    BY <1>1, <1>2, <2>3, StaleTyped
  <2> QED
    BY <2>1, <2>2, <2>3 DEF Evaluate, EvaluateUnread
<1>6. progress' \in [Fields -> {"no", "calculating", "finished"}]
  BY <1>1, <1>2 DEF TypeOK
<1>7. TypeOK'
  BY <1>1, <1>4, <1>5, <1>6 DEF TypeOK
<1> QED
  BY <1>3, <1>4, <1>7 DEF Kept

LEMMA LookUpStep ==
  ASSUME TypeOK, LookUp
  PROVE  /\ TypeOK'
         /\ Kept(Len(stack) - 1)
         /\ \E found \in Top.todo :
              /\ stack'[Len(stack)]
                   = Call("lookups", Top.field, Top.todo \ {found}, Top.first)
              /\ \/ /\ Overwritten(found) /\ failed' = failed
                    /\ StoredFrom(found, Len(stack), TRUE)
                 \/ /\ stale' = stale /\ failed' = TRUE
                    /\ Len(stack') = Len(stack)
<1>1. In("lookups") /\ UNCHANGED <<design, progress, ended>>
  BY DEF LookUp
<1>2. PICK f \in Top.todo :
        \/ Overwritten(f) /\ Stored(f, Taken(f), TRUE) /\ UNCHANGED failed
        \/ stack' = Taken(f) /\ failed' = TRUE /\ UNCHANGED stale
  BY DEF LookUp, FirstOf
<1>3. /\ stack # <<>> /\ Len(stack) \in Nat \ {0} /\ Top.at = "lookups"
      /\ f \in Fields
  BY <1>1, <1>2, InTop
<1>4. /\ Taken(f) \in Seq(Frames) /\ Len(Taken(f)) = Len(stack)
      /\ \A i \in 1 .. Len(stack) - 1 : Taken(f)[i] = stack[i]
      /\ Taken(f)[Len(stack)]
           = Call(Top.at, Top.field, Top.todo \ {f}, Top.first)
  BY <1>3, TakenStack
<1>5. CASE Overwritten(f) /\ Stored(f, Taken(f), TRUE) /\ UNCHANGED failed
  <2>1. /\ stack' \in Seq(Frames)
        /\ \A i \in 1 .. Len(Taken(f)) : stack'[i] = Taken(f)[i]
        /\ StoredFrom(f, Len(Taken(f)), TRUE)
    BY <1>3, <1>4, <1>5, StoredStep
  <2>2. stale' \subseteq Calculated'
    BY <1>1, <1>3, <1>5, StaleTyped
  <2>3. TypeOK'
    BY <1>1, <1>5, <2>1, <2>2 DEF TypeOK
  <2>4. /\ \A i \in 1 .. Len(stack) - 1 : stack'[i] = stack[i]
        /\ stack'[Len(stack)] = Taken(f)[Len(stack)]
    BY <1>3, <1>4, <2>1
  <2> QED
    BY <1>3, <1>4, <1>5, <2>1, <2>3, <2>4 DEF Kept
<1>6. CASE stack' = Taken(f) /\ failed' = TRUE /\ UNCHANGED stale
  <2>1. TypeOK'
    BY <1>1, <1>4, <1>6 DEF TypeOK, Calculated
  <2> QED
    BY <1>3, <1>4, <1>6, <2>1 DEF Kept
<1> QED
  BY <1>2, <1>5, <1>6

LEMMA ClearTyped == Clear \in [Fields -> {"no", "calculating", "finished"}]
BY DEF Clear

LEMMA BeginCalculationsStep ==
  ASSUME TypeOK, BeginCalculations
  PROVE  /\ TypeOK'
         /\ Kept(Len(stack) - 1) /\ Len(stack') = Len(stack)
         /\ stack'[Len(stack)]
              = Call("triggers", Top.field, UsersOf(Top.field), Top.first)
<1>1. /\ In("calculations") /\ stack' = Triggers
      /\ progress' = IF Top.first THEN Clear ELSE progress
      /\ UNCHANGED <<design, stale, failed, ended>>
  BY DEF BeginCalculations
<1>2. stack # <<>>
  BY <1>1, InTop
<1>3. progress' \in [Fields -> {"no", "calculating", "finished"}]
  BY <1>1, ClearTyped DEF TypeOK
<1>4. /\ Triggers \in Seq(Frames) /\ Len(Triggers) = Len(stack)
      /\ \A i \in 1 .. Len(stack) - 1 : Triggers[i] = stack[i]
      /\ Triggers[Len(stack)]
           = Call("triggers", Top.field, UsersOf(Top.field), Top.first)
  BY <1>2, TriggersStack
<1>5. TypeOK'
  BY <1>1, <1>3, <1>4 DEF TypeOK, Calculated
<1> QED
  BY <1>1, <1>4, <1>5 DEF Kept

LEMMA TriggerStep ==
  ASSUME TypeOK, Trigger
  PROVE  /\ TypeOK'
         /\ Kept(Len(stack) - 1)
         /\ \E f \in Top.todo :
              /\ stack'[Len(stack)]
                   = Call("triggers", Top.field, Top.todo \ {f}, Top.first)
              /\ stack'[Len(stack) + 1] = Call("calculations", f, {}, FALSE)
              /\ BegunFrom(f, Len(stack) + 1)
<1>1. In("triggers") /\ UNCHANGED <<design, stale, failed, ended>>
  BY DEF Trigger
<1>2. PICK f \in Top.todo :
        Begun(f, Append(Taken(f), Call("calculations", f, {}, FALSE)))
  BY DEF Trigger, FirstOf
<1> DEFINE c == Call("calculations", f, {}, FALSE)
<1>3. /\ stack # <<>> /\ Len(stack) \in Nat \ {0} /\ Top.at = "triggers"
      /\ f \in Fields
  BY <1>1, <1>2, InTop
<1>4. /\ Taken(f) \in Seq(Frames) /\ Len(Taken(f)) = Len(stack)
      /\ \A i \in 1 .. Len(stack) - 1 : Taken(f)[i] = stack[i]
      /\ Taken(f)[Len(stack)]
           = Call(Top.at, Top.field, Top.todo \ {f}, Top.first)
  BY <1>3, TakenStack
<1>5. c \in Frames
  BY <1>3, Frame
<1> HIDE DEF c
<1> DEFINE calls == Append(Taken(f), c)
<1>6. /\ calls \in Seq(Frames) /\ Len(calls) = Len(stack) + 1
      /\ \A i \in 1 .. Len(stack) : calls[i] = Taken(f)[i]
      /\ calls[Len(stack) + 1] = c
  BY <1>4, <1>5, AppendCall
<1>7. Begun(f, calls)
  BY <1>2 DEF c
<1> HIDE DEF calls
<1>8. /\ stack' \in Seq(Frames)
      /\ progress' \in [Fields -> {"no", "calculating", "finished"}]
      /\ \A i \in 1 .. Len(calls) : stack'[i] = calls[i]
      /\ BegunFrom(f, Len(calls))
  BY <1>3, <1>6, <1>7, BegunStep
<1>9. TypeOK'
  BY <1>1, <1>8 DEF TypeOK, Calculated
<1>10. /\ \A i \in 1 .. Len(stack) - 1 : stack'[i] = stack[i]
       /\ stack'[Len(stack)] = Taken(f)[Len(stack)]
       /\ stack'[Len(stack) + 1] = c
  <2> DEFINE n == Len(stack)
             t == Taken(f)
  <2>1. /\ n \in Nat \ {0} /\ \A i \in 1 .. n + 1 : stack'[i] = calls[i]
        /\ \A i \in 1 .. n : calls[i] = t[i]
        /\ \A i \in 1 .. n - 1 : t[i] = stack[i]
        /\ calls[n + 1] = c
    BY <1>3, <1>4, <1>6, <1>8
  <2> HIDE DEF n, t
  <2>2. /\ \A i \in 1 .. n - 1 : stack'[i] = stack[i]
        /\ stack'[n] = t[n] /\ stack'[n + 1] = c
    BY <2>1
  <2> QED
    BY <2>2 DEF n, t
<1> QED
  BY <1>3, <1>4, <1>6, <1>8, <1>9, <1>10 DEF Kept, c

(* The other calls return, the outermost do_calculations() with a clean    *)
(* slate.                                                                  *)
Returns ==
  UpdateFails \/ CalculatedMeanwhile \/ LookupsDone \/ CalculationsDone

LEMMA ReturnsStep ==
  ASSUME TypeOK, Returns
  PROVE  /\ TypeOK'
         /\ stack # <<>> /\ Len(stack) \in Nat \ {0}
         /\ Len(stack') = Len(stack) - 1 /\ Kept(Len(stack) - 1)
<1>1. \E what : In(what)
  BY DEF Returns, UpdateFails, CalculatedMeanwhile, LookupsDone,
         CalculationsDone
<1>2. /\ stack # <<>> /\ Len(stack) \in Nat \ {0} /\ Top.field \in Fields
  BY <1>1, InTop
<1>3. stack' = Front(stack) /\ UNCHANGED <<design, stale, ended>>
      /\ failed' \in {failed, TRUE}
  BY DEF Returns, UpdateFails, CalculatedMeanwhile, LookupsDone,
         CalculationsDone
<1>4. progress' \in [Fields -> {"no", "calculating", "finished"}]
  <2>1. CASE UpdateFails
    BY <1>2, <2>1 DEF UpdateFails, TypeOK
  <2>2. CASE CalculatedMeanwhile \/ LookupsDone
    BY <2>2 DEF CalculatedMeanwhile, LookupsDone, TypeOK
  <2>3. CASE CalculationsDone
    BY <2>3, ClearTyped DEF CalculationsDone, TypeOK
  <2> QED
    BY <2>1, <2>2, <2>3 DEF Returns
<1>5. /\ stack' \in Seq(Frames) /\ Len(stack') = Len(stack) - 1
      /\ Kept(Len(stack) - 1)
  BY <1>2, <1>3, FrontStep
<1>6. TypeOK'
  BY <1>3, <1>4, <1>5 DEF TypeOK, Calculated
<1> QED
  BY <1>2, <1>5, <1>6

(* What is left ends Glom, starts it again, or does nothing.               *)
Stops == NoLongerInProgress \/ UseClearedValue \/ Overflow

LEMMA StopsStep ==
  ASSUME TypeOK, Stops
  PROVE  TypeOK' /\ UNCHANGED <<design, progress, stack, stale, failed>>
BY DEF Stops, NoLongerInProgress, UseClearedValue, Overflow, TypeOK, Calculated

LEMMA StartAgainStep ==
  ASSUME TypeOK, StartAgain
  PROVE  TypeOK' /\ Len(stack') = 0
BY ClearTyped, EmptySeq DEF StartAgain, TypeOK, Calculated

LEMMA StutterStep ==
  ASSUME TypeOK, UNCHANGED vars
  PROVE  TypeOK'
BY DEF vars, TypeOK, Calculated

(* All steps, as the proofs below divide them.                             *)
LEMMA NextSteps ==
  ASSUME [Next]_vars
  PROVE  \/ \E f \in Fields : Edit(f)
         \/ \E f \in Fields : ChangeFormula(f)
         \/ CalculateNeeded \/ Evaluate \/ EvaluateUnread
         \/ LookUp \/ BeginCalculations \/ Trigger
         \/ Returns \/ Stops \/ StartAgain
         \/ UNCHANGED vars
BY DEF Next, Step, Returns, Stops

-----------------------------------------------------------------------------
LEMMA InitTyped == Init => TypeOK
BY CalculationsAssumption, ClearTyped, EmptySeq DEF Init, TypeOK

LEMMA NextTyped == ASSUME TypeOK, [Next]_vars PROVE TypeOK'
BY NextSteps, EditStep, ChangeFormulaStep, CalculateNeededStep, EvaluateStep,
   LookUpStep, BeginCalculationsStep, TriggerStep, ReturnsStep, StopsStep,
   StartAgainStep, StutterStep

(* What is on the stack are calls of the functions of Base_DB, for fields  *)
(* of the table, and only a field with a formula can be stale.             *)
THEOREM CallsTypeCorrect == Spec => []TypeOK
BY InitTyped, NextTyped, PTL DEF Spec

-----------------------------------------------------------------------------
(* No call misses its entry.  A call has to do with fields that the        *)
(* document connects with its own; only what calculate_field() stores is   *)
(* stored with use_current_calculations.                                   *)

Connected(d, c) ==
  /\ c.at = "needs" =>
       ~c.first /\ \A g \in c.todo : g \in d.needs[c.field] /\ d.needs[g] # {}
  /\ c.at = "lookups" => c.todo \subseteq d.looks[c.field] \ {c.field}
  /\ c.at = "triggers" => \A g \in c.todo : c.field \in d.needs[g]
  /\ ~c.first => d.needs[c.field] # {}

CallsConnected == \A i \in 1 .. Len(stack) : Connected(design, stack[i])

(* As long as no lookup goes from a calculated field, the calls that clear *)
(* m_FieldsCalculationInProgress are those at the bottom of the stack, the *)
(* user's edit and the lookups that follow it ...                          *)
FirstBelowOthers ==
  \A i, j \in 1 .. Len(stack) : i < j /\ stack[j].first =>
    stack[i].first /\ stack[i].at \in {"calculations", "lookups"}

(* ... so that each field is calculated once at a time, ...                *)
CalculatingOnce ==
  \A i \in 1 .. Len(stack) : stack[i].at = "needs" =>
    /\ progress[stack[i].field] = "calculating"
    /\ \A j \in 1 .. Len(stack) :
         stack[j].at = "needs" /\ stack[j].field = stack[i].field => j = i

(* ... and the value that was calculated is there as long as it is used.   *)
StoredThere ==
  \A i \in 1 .. Len(stack) : stack[i].at = "lookups" /\ ~stack[i].first =>
    progress[stack[i].field] # "no"

NoneMissing ==
  FirstBelowOthers /\ CalculatingOnce /\ StoredThere /\ ended # "crash"

CrashInv ==
  /\ TypeOK
  /\ CallsConnected
  /\ LooksUpFromCalculated(design) \/ NoneMissing

(* A call's field and the innermost call, once more.                       *)
LEMMA TopConnected ==
  ASSUME CrashInv, NEW what, In(what)
  PROVE  /\ Connected(design, Top) /\ Top = stack[Len(stack)]
         /\ Len(stack) \in Nat \ {0} /\ Top.at = what
         /\ Top.field \in Fields /\ Top.todo \subseteq Fields
         /\ Top.first \in BOOLEAN
BY InTop DEF CrashInv, CallsConnected

(* Only what the user has entered is looked up for.                        *)
LEMMA LookUpsAreFirst ==
  ASSUME CrashInv, In("lookups"), Top.todo # {},
         ~LooksUpFromCalculated(design)
  PROVE  Top.first
<1> SUFFICES ASSUME ~Top.first PROVE FALSE
  OBVIOUS
<1>1. /\ Top.field \in Calculated /\ Top.todo \subseteq LookupFields(Top.field)
  BY TopConnected DEF Connected, Calculated, LookupFields
<1> QED
  BY <1>1 DEF Calculated, LookupFields, LooksUpFromCalculated

(* The calls that a step leaves alone stay connected.                      *)
LEMMA KeptConnected ==
  ASSUME CallsConnected, design' = design, NEW n \in 0 .. Len(stack), Kept(n)
  PROVE  \A i \in 1 .. n : Connected(design', stack'[i])
BY DEF CallsConnected, Kept

LEMMA EditCrash ==
  ASSUME CrashInv, NEW f \in Fields, Edit(f) PROVE CrashInv'
<1>1. /\ Len(stack') = 2
      /\ stack'[1] = Call("calculations", f, {}, TRUE)
      /\ stack'[2] = Call("lookups", f, LookupFields(f), TRUE)
      /\ TypeOK' /\ design' = design /\ ended' # "crash"
  <2>1. TypeOK' /\ StoredFrom(f, 0, TRUE)
    BY EditStep DEF CrashInv
  <2>2. design' = design /\ ended' = "no"
    BY DEF Edit, Idle
  <2>3. 0 + 1 = 1 /\ 0 + 2 = 2
    OBVIOUS
  <2>4. ended' # "crash"
    BY <2>2
  <2> QED
    BY <2>1, <2>2, <2>3, <2>4, Zenon DEF StoredFrom
<1>2. /\ stack'[1].at = "calculations" /\ stack'[1].first
      /\ stack'[2].at = "lookups" /\ stack'[2].first /\ stack'[2].field = f
      /\ stack'[2].todo = design'.looks[f] \ {f}
  BY <1>1 DEF Call, LookupFields
<1>3. \A i \in 1 .. Len(stack') : i = 1 \/ i = 2
  BY <1>1
<1>4. CallsConnected'
  BY <1>2, <1>3 DEF CallsConnected, Connected
<1>5. FirstBelowOthers' /\ CalculatingOnce' /\ StoredThere'
  BY <1>2, <1>3 DEF FirstBelowOthers, CalculatingOnce, StoredThere
<1> QED
  BY <1>1, <1>4, <1>5 DEF CrashInv, NoneMissing

LEMMA ChangeFormulaCrash ==
  ASSUME CrashInv, NEW f \in Fields, ChangeFormula(f) PROVE CrashInv'
<1>1. /\ Len(stack') = 1
      /\ stack'[1] = Call("needs", f, Needed(f), FALSE)
      /\ TypeOK' /\ design' = design /\ ended' # "crash"
      /\ f \in Calculated /\ progress'[f] = "calculating"
  BY ChangeFormulaStep DEF ChangeFormula, Idle, CrashInv, Clear
<1>2. /\ stack'[1].at = "needs" /\ ~stack'[1].first /\ stack'[1].field = f
      /\ stack'[1].todo = Needed(f)
  BY <1>1 DEF Call
<1>3. \A i \in 1 .. Len(stack') : i = 1
  BY <1>1
<1>4. CallsConnected'
  BY <1>1, <1>2, <1>3 DEF CallsConnected, Connected, Needed, Calculated
<1>5. FirstBelowOthers' /\ CalculatingOnce' /\ StoredThere'
  BY <1>1, <1>2, <1>3 DEF FirstBelowOthers, CalculatingOnce, StoredThere
<1> QED
  BY <1>1, <1>4, <1>5 DEF CrashInv, NoneMissing

(* A field that is begun was not begun before: what is known of the calls  *)
(* below stays true, if there are n of them, the innermost but the last    *)
(* ones the same as before.                                                *)
LEMMA BegunKeeps ==
  ASSUME CrashInv, NoneMissing, NEW f \in Fields, NEW n \in Nat,
         Len(stack) <= n,
         \A i \in 1 .. Len(stack) :
            /\ stack'[i].at = stack[i].at /\ stack'[i].field = stack[i].field
            /\ stack'[i].first = stack[i].first,
         \A i \in Len(stack) + 1 .. n :
            stack'[i].at \notin {"needs", "lookups"} /\ ~stack'[i].first,
         BegunFrom(f, n)
  PROVE  FirstBelowOthers' /\ CalculatingOnce' /\ StoredThere'
<1>1. /\ progress \in [Fields -> {"no", "calculating", "finished"}]
      /\ Len(stack) \in Nat
      /\ \A i \in 1 .. Len(stack) : stack[i].field \in Fields
  BY CallsTyped DEF CrashInv, TypeOK, Frames
<1>2. CASE progress[f] = "no"
  <2>1. /\ Len(stack') = n + 1
        /\ progress' = [progress EXCEPT ![f] = "calculating"]
        /\ stack'[n + 1].at = "needs" /\ stack'[n + 1].field = f
        /\ stack'[n + 1].first = FALSE
    BY <1>2 DEF BegunFrom, Call
  <2>2. \A i \in 1 .. n + 1 : i \in 1 .. n \/ i = n + 1
    OBVIOUS
  <2>3. FirstBelowOthers'
    BY <1>1, <2>1, <2>2 DEF FirstBelowOthers, NoneMissing
  <2>4. CalculatingOnce'
    BY <1>1, <1>2, <2>1, <2>2 DEF CalculatingOnce, NoneMissing
  <2>5. StoredThere'
    BY <1>1, <2>1, <2>2 DEF StoredThere, NoneMissing
  <2> QED
    BY <2>3, <2>4, <2>5
<1>3. CASE progress[f] # "no"
  <2>1. Len(stack') = n /\ progress' = progress
    BY <1>3 DEF BegunFrom
  <2>2. FirstBelowOthers'
    BY <1>1, <2>1 DEF FirstBelowOthers, NoneMissing
  <2>3. CalculatingOnce'
    BY <1>1, <2>1 DEF CalculatingOnce, NoneMissing
  <2>4. StoredThere'
    BY <1>1, <2>1 DEF StoredThere, NoneMissing
  <2> QED
    BY <2>2, <2>3, <2>4
<1> QED
  BY <1>2, <1>3

(* The call that is begun is connected, if its field is calculated.        *)
LEMMA BegunConnected ==
  ASSUME NEW f \in Calculated, NEW n \in Nat, design' = design,
         \A i \in 1 .. n : Connected(design', stack'[i]),
         BegunFrom(f, n)
  PROVE  CallsConnected'
<1>1. CASE progress[f] = "no"
  <2>1. /\ Len(stack') = n + 1
        /\ stack'[n + 1].at = "needs" /\ stack'[n + 1].field = f
        /\ stack'[n + 1].todo = Needed(f) /\ stack'[n + 1].first = FALSE
    BY <1>1 DEF BegunFrom, Call
  <2>2. Connected(design', stack'[n + 1])
    BY <2>1 DEF Connected, Needed, Calculated
  <2>3. \A i \in 1 .. n + 1 : i \in 1 .. n \/ i = n + 1
    OBVIOUS
  <2> QED
    BY <2>1, <2>2, <2>3 DEF CallsConnected
<1>2. CASE progress[f] # "no"
  BY <1>2 DEF BegunFrom, CallsConnected
<1> QED
  BY <1>1, <1>2

LEMMA CalculateNeededCrash ==
  ASSUME CrashInv, CalculateNeeded PROVE CrashInv'
<1> DEFINE n == Len(stack)
<1>1. /\ In("needs") /\ UNCHANGED <<design, stale, failed, ended>>
      /\ TypeOK' /\ Kept(n - 1)
  BY CalculateNeededStep DEF CalculateNeeded, CrashInv
<1>2. /\ Connected(design, Top) /\ Top = stack[n] /\ n \in Nat \ {0}
      /\ Top.at = "needs"
  BY <1>1, TopConnected
<1>3. PICK f \in Top.todo :
        /\ stack'[n] = Call("needs", Top.field, Top.todo \ {f}, Top.first)
        /\ BegunFrom(f, n)
  BY CalculateNeededStep DEF CrashInv
<1>4. /\ stack'[n].at = "needs" /\ stack'[n].field = Top.field
      /\ stack'[n].todo = Top.todo \ {f} /\ stack'[n].first = Top.first
  BY <1>3 DEF Call
<1>5. f \in Calculated
  <2>1. f \in Fields
    BY <1>1, TopConnected
  <2> QED
    BY <1>2, <2>1 DEF Connected, Calculated
<1>6. \A i \in 1 .. n : (i \in 1 .. n - 1 /\ stack'[i] = stack[i]) \/ i = n
  BY <1>1, <1>2 DEF Kept
<1>7. CallsConnected'
  <2>1. Connected(design', stack'[n])
    BY <1>1, <1>2, <1>4 DEF Connected
  <2>2. \A i \in 1 .. n - 1 : Connected(design', stack'[i])
    BY <1>1, <1>2, KeptConnected DEF CrashInv
  <2> HIDE DEF n
  <2> QED
    BY <1>1, <1>2, <1>3, <1>5, <1>6, <2>1, <2>2, BegunConnected
<1>8. ASSUME NoneMissing PROVE NoneMissing'
  <2>1. \A i \in 1 .. n :
          /\ stack'[i].at = stack[i].at /\ stack'[i].field = stack[i].field
          /\ stack'[i].first = stack[i].first
    BY <1>2, <1>4, <1>6
  <2>2. f \in Fields
    BY <1>5 DEF Calculated
  <2> QED
    BY <1>1, <1>2, <1>3, <1>8, <2>1, <2>2, BegunKeeps DEF NoneMissing
<1> QED
  BY <1>1, <1>7, <1>8 DEF CrashInv

(* What is stored is stored by a call that knows its field.                *)
LEMMA StoredConnected ==
  ASSUME NEW f \in Fields, NEW n \in Nat, NEW b \in BOOLEAN, design' = design,
         ~b => f \in Calculated,
         \A i \in 1 .. n : Connected(design', stack'[i]),
         StoredFrom(f, n, b)
  PROVE  CallsConnected'
<1>1. /\ Len(stack') = n + 2
      /\ stack'[n + 1].at = "calculations" /\ stack'[n + 1].field = f
      /\ stack'[n + 1].first = b
      /\ stack'[n + 2].at = "lookups" /\ stack'[n + 2].field = f
      /\ stack'[n + 2].todo = LookupFields(f) /\ stack'[n + 2].first = b
  BY DEF StoredFrom, Call
<1>2. Connected(design', stack'[n + 1]) /\ Connected(design', stack'[n + 2])
  BY <1>1 DEF Connected, LookupFields, Calculated
<1>3. \A i \in 1 .. n + 2 : i \in 1 .. n \/ i = n + 1 \/ i = n + 2
  OBVIOUS
<1> QED
  BY <1>1, <1>2, <1>3 DEF CallsConnected

LEMMA EvaluateCrash ==
  ASSUME CrashInv, Evaluate \/ EvaluateUnread PROVE CrashInv'
<1> DEFINE n == Len(stack)
           f == Top.field
<1>1. /\ In("needs") /\ UNCHANGED <<design, ended>>
      /\ progress' = [progress EXCEPT ![f] = "finished"]
  BY DEF Evaluate, EvaluateUnread
<1>2. TypeOK' /\ Kept(n - 1) /\ StoredFrom(f, n - 1, FALSE)
  BY EvaluateStep DEF CrashInv
<1>3. /\ Connected(design, Top) /\ Top = stack[n] /\ n \in Nat \ {0}
      /\ Top.at = "needs" /\ f \in Fields
  BY <1>1, TopConnected
<1>4. f \in Calculated
  BY <1>3 DEF Connected, Calculated
<1> HIDE DEF f
<1>5. CallsConnected'
  <2>1. \A i \in 1 .. n - 1 : Connected(design', stack'[i])
    BY <1>1, <1>2, <1>3, KeptConnected DEF CrashInv
  <2>2. n - 1 \in Nat
    BY <1>3
  <2> HIDE DEF n
  <2> QED
    BY <1>1, <1>2, <1>3, <1>4, <2>1, <2>2, StoredConnected
<1>6. ASSUME NoneMissing PROVE NoneMissing'
  <2>1. /\ Len(stack') = n + 1
        /\ stack'[n].at = "calculations" /\ stack'[n].field = f
        /\ ~stack'[n].first
        /\ stack'[n + 1].at = "lookups" /\ stack'[n + 1].field = f
        /\ ~stack'[n + 1].first
    <3>1. n - 1 + 1 = n /\ n - 1 + 2 = n + 1
      BY <1>3
    <3> QED
      BY <1>2, <3>1 DEF StoredFrom, Call
  <2>2. \A i \in 1 .. n + 1 :
          (i \in 1 .. n - 1 /\ stack'[i] = stack[i]) \/ i = n \/ i = n + 1
    BY <1>2, <1>3 DEF Kept
  <2>3. /\ progress \in [Fields -> {"no", "calculating", "finished"}]
        /\ \A i \in 1 .. n : stack[i].field \in Fields
    BY CallsTyped DEF CrashInv, TypeOK, Frames
  <2>4. \A i \in 1 .. n - 1 : stack[i].at = "needs" => stack[i].field # f
    BY <1>3, <1>6 DEF NoneMissing, CalculatingOnce, f
  <2>5. FirstBelowOthers'
    BY <1>3, <1>6, <2>1, <2>2 DEF FirstBelowOthers, NoneMissing
  <2>6. CalculatingOnce'
    BY <1>1, <1>3, <1>6, <2>1, <2>2, <2>3, <2>4
    DEF CalculatingOnce, NoneMissing
  <2>7. StoredThere'
    BY <1>1, <1>3, <1>6, <2>1, <2>2, <2>3 DEF StoredThere, NoneMissing
  <2> QED
    BY <1>1, <1>6, <2>5, <2>6, <2>7 DEF NoneMissing
<1> QED
  BY <1>1, <1>2, <1>5, <1>6 DEF CrashInv

LEMMA LookUpCrash ==
  ASSUME CrashInv, LookUp PROVE CrashInv'
<1> DEFINE n == Len(stack)
<1>1. /\ In("lookups") /\ UNCHANGED <<design, progress, ended>>
      /\ TypeOK' /\ Kept(n - 1)
  BY LookUpStep DEF LookUp, CrashInv
<1>2. PICK f \in Top.todo :
        /\ stack'[n] = Call("lookups", Top.field, Top.todo \ {f}, Top.first)
        /\ StoredFrom(f, n, TRUE) \/ Len(stack') = n
  BY LookUpStep DEF CrashInv
<1>3. /\ Connected(design, Top) /\ Top = stack[n] /\ n \in Nat \ {0}
      /\ Top.at = "lookups" /\ f \in Fields
  BY <1>1, TopConnected
<1>4. /\ stack'[n].at = "lookups" /\ stack'[n].field = Top.field
      /\ stack'[n].todo = Top.todo \ {f} /\ stack'[n].first = Top.first
  BY <1>2 DEF Call
<1>5. \A i \in 1 .. n : Connected(design', stack'[i])
  <2>1. Connected(design', stack'[n])
    BY <1>1, <1>3, <1>4 DEF Connected
  <2>2. \A i \in 1 .. n - 1 : Connected(design', stack'[i])
    BY <1>1, <1>3, KeptConnected DEF CrashInv
  <2> QED
    BY <1>3, <2>1, <2>2
<1>6. CallsConnected'
  <2>1. CASE StoredFrom(f, n, TRUE)
    <3> HIDE DEF n
    <3> QED
      BY <1>1, <1>3, <1>5, <2>1, StoredConnected
  <2>2. CASE Len(stack') = n
    BY <1>5, <2>2 DEF CallsConnected
  <2> QED
    BY <1>2, <2>1, <2>2
<1>7. ASSUME NoneMissing, ~LooksUpFromCalculated(design) PROVE NoneMissing'
  <2>1. Top.first
    BY <1>1, <1>2, <1>7, LookUpsAreFirst
  <2>2. \A i \in 1 .. n : /\ stack'[i].at = stack[i].at
                          /\ stack'[i].field = stack[i].field
                          /\ stack'[i].first = stack[i].first
    BY <1>1, <1>3, <1>4 DEF Kept
  <2>3. \A i \in 1 .. n :
          stack[i].first /\ stack[i].at \in {"calculations", "lookups"}
    BY <1>3, <1>7, <2>1 DEF NoneMissing, FirstBelowOthers
  <2>4. \A i \in 1 .. Len(stack') :
          stack'[i].first /\ stack'[i].at \in {"calculations", "lookups"}
    <3>1. CASE StoredFrom(f, n, TRUE)
      <4>1. /\ Len(stack') = n + 2
            /\ stack'[n + 1].at = "calculations" /\ stack'[n + 1].first
            /\ stack'[n + 2].at = "lookups" /\ stack'[n + 2].first
        BY <3>1 DEF StoredFrom, Call
      <4>2. \A i \in 1 .. n + 2 : i \in 1 .. n \/ i = n + 1 \/ i = n + 2
        BY <1>3
      <4> QED
        BY <2>2, <2>3, <4>1, <4>2
    <3>2. CASE Len(stack') = n
      BY <2>2, <2>3, <3>2
    <3> QED
      BY <1>2, <3>1, <3>2
  <2>5. FirstBelowOthers' /\ CalculatingOnce' /\ StoredThere'
    <3>1. FirstBelowOthers'
      BY <2>4 DEF FirstBelowOthers
    <3>2. CalculatingOnce'
      BY <2>4 DEF CalculatingOnce
    <3>3. StoredThere'
      BY <2>4 DEF StoredThere
    <3> QED
      BY <3>1, <3>2, <3>3
  <2> QED
    BY <1>1, <1>7, <2>5 DEF NoneMissing
<1> QED
  BY <1>1, <1>6, <1>7 DEF CrashInv

(* The slate is wiped clean only by a call with none above or below that   *)
(* looks at it.                                                            *)
LEMMA BeginCalculationsCrash ==
  ASSUME CrashInv, BeginCalculations PROVE CrashInv'
<1> DEFINE n == Len(stack)
<1>1. /\ In("calculations") /\ UNCHANGED <<design, stale, failed, ended>>
      /\ progress' = IF Top.first THEN Clear ELSE progress
  BY DEF BeginCalculations
<1>2. /\ TypeOK' /\ Kept(n - 1) /\ Len(stack') = n
      /\ stack'[n] = Call("triggers", Top.field, UsersOf(Top.field), Top.first)
  BY BeginCalculationsStep DEF CrashInv
<1>3. /\ Connected(design, Top) /\ Top = stack[n] /\ n \in Nat \ {0}
      /\ Top.at = "calculations" /\ Top.field \in Fields
  BY <1>1, TopConnected
<1>4. /\ stack'[n].at = "triggers" /\ stack'[n].field = Top.field
      /\ stack'[n].todo = UsersOf(Top.field) /\ stack'[n].first = Top.first
  BY <1>2 DEF Call
<1>5. \A i \in 1 .. n : (i \in 1 .. n - 1 /\ stack'[i] = stack[i]) \/ i = n
  BY <1>2, <1>3 DEF Kept
<1>6. CallsConnected'
  <2>1. Connected(design', stack'[n])
    BY <1>1, <1>3, <1>4 DEF Connected, UsersOf
  <2>2. \A i \in 1 .. n - 1 : Connected(design', stack'[i])
    BY <1>1, <1>2, <1>3, KeptConnected DEF CrashInv
  <2> QED
    BY <1>2, <1>5, <2>1, <2>2 DEF CallsConnected
<1>7. ASSUME NoneMissing PROVE NoneMissing'
  <2>1. FirstBelowOthers'
    BY <1>2, <1>3, <1>4, <1>5, <1>7 DEF FirstBelowOthers, NoneMissing
  <2>2. CASE Top.first
    <3>1. \A i \in 1 .. n - 1 : stack[i].first /\ stack[i].at # "needs"
      BY <1>3, <1>7, <2>2 DEF NoneMissing, FirstBelowOthers
    <3>2. CalculatingOnce'
      BY <1>2, <1>4, <1>5, <3>1 DEF CalculatingOnce
    <3>3. StoredThere'
      BY <1>2, <1>4, <1>5, <3>1 DEF StoredThere
    <3> QED
      BY <1>1, <1>7, <2>1, <3>2, <3>3 DEF NoneMissing
  <2>3. CASE ~Top.first
    <3>1. progress' = progress
      BY <1>1, <2>3
    <3>2. CalculatingOnce'
      BY <1>2, <1>3, <1>4, <1>5, <1>7, <3>1 DEF CalculatingOnce, NoneMissing
    <3>3. StoredThere'
      BY <1>2, <1>3, <1>4, <1>5, <1>7, <3>1 DEF StoredThere, NoneMissing
    <3> QED
      BY <1>1, <1>7, <2>1, <3>2, <3>3 DEF NoneMissing
  <2> QED
    BY <2>2, <2>3
<1> QED
  BY <1>1, <1>2, <1>6, <1>7 DEF CrashInv

LEMMA TriggerCrash ==
  ASSUME CrashInv, Trigger PROVE CrashInv'
<1> DEFINE n == Len(stack)
<1>1. /\ In("triggers") /\ UNCHANGED <<design, stale, failed, ended>>
      /\ TypeOK' /\ Kept(n - 1)
  BY TriggerStep DEF Trigger, CrashInv
<1>2. PICK f \in Top.todo :
        /\ stack'[n] = Call("triggers", Top.field, Top.todo \ {f}, Top.first)
        /\ stack'[n + 1] = Call("calculations", f, {}, FALSE)
        /\ BegunFrom(f, n + 1)
  BY TriggerStep DEF CrashInv
<1>3. /\ Connected(design, Top) /\ Top = stack[n] /\ n \in Nat \ {0}
      /\ Top.at = "triggers" /\ f \in Fields
  BY <1>1, TopConnected
<1>4. /\ stack'[n].at = "triggers" /\ stack'[n].field = Top.field
      /\ stack'[n].todo = Top.todo \ {f} /\ stack'[n].first = Top.first
      /\ stack'[n + 1].at = "calculations" /\ stack'[n + 1].field = f
      /\ ~stack'[n + 1].first
  BY <1>2 DEF Call
<1>5. f \in Calculated
  BY <1>3 DEF Connected, Calculated
<1>6. CallsConnected'
  <2>1. Connected(design', stack'[n])
    BY <1>1, <1>3, <1>4 DEF Connected
  <2>2. Connected(design', stack'[n + 1])
    BY <1>1, <1>4, <1>5 DEF Connected, Calculated
  <2>3. \A i \in 1 .. n - 1 : Connected(design', stack'[i])
    BY <1>1, <1>3, KeptConnected DEF CrashInv
  <2>4. \A i \in 1 .. n + 1 : i \in 1 .. n - 1 \/ i = n \/ i = n + 1
    BY <1>3
  <2>5. \A i \in 1 .. n + 1 : Connected(design', stack'[i])
    BY <2>1, <2>2, <2>3, <2>4
  <2>6. n + 1 \in Nat
    BY <1>3
  <2> HIDE DEF n
  <2> QED
    BY <1>1, <1>2, <1>5, <2>5, <2>6, BegunConnected
<1>7. ASSUME NoneMissing PROVE NoneMissing'
  <2>1. \A i \in 1 .. Len(stack) :
          /\ stack'[i].at = stack[i].at /\ stack'[i].field = stack[i].field
          /\ stack'[i].first = stack[i].first
    BY <1>1, <1>3, <1>4 DEF Kept
  <2>2. \A i \in Len(stack) + 1 .. n + 1 :
          stack'[i].at \notin {"needs", "lookups"} /\ ~stack'[i].first
    BY <1>3, <1>4
  <2>3. n + 1 \in Nat /\ Len(stack) <= n + 1
    BY <1>3
  <2>4. FirstBelowOthers' /\ CalculatingOnce' /\ StoredThere'
    BY <1>2, <1>3, <1>7, <2>1, <2>2, <2>3, BegunKeeps
  <2> QED
    BY <1>1, <1>7, <2>4 DEF NoneMissing
<1> QED
  BY <1>1, <1>6, <1>7 DEF CrashInv

LEMMA ReturnsCrash ==
  ASSUME CrashInv, Returns PROVE CrashInv'
<1> DEFINE n == Len(stack)
<1>1. /\ TypeOK' /\ stack # <<>> /\ n \in Nat \ {0} /\ Len(stack') = n - 1
      /\ Kept(n - 1)
  BY ReturnsStep DEF CrashInv
<1>2. /\ UNCHANGED <<design, ended>>
      /\ progress \in [Fields -> {"no", "calculating", "finished"}]
  BY DEF Returns, UpdateFails, CalculatedMeanwhile, LookupsDone,
         CalculationsDone, CrashInv, TypeOK
<1>3. CallsConnected'
  BY <1>1, <1>2, KeptConnected DEF CrashInv, CallsConnected
<1>4. \A i \in 1 .. n - 1 : stack'[i] = stack[i] /\ i \in 1 .. Len(stack)
  BY <1>1 DEF Kept
<1>5. /\ \A i \in 1 .. n : stack[i].field \in Fields
      /\ Top = stack[n]
  BY <1>1, CallsTyped DEF CrashInv, Frames
<1>6. ASSUME NoneMissing PROVE NoneMissing'
  <2>1. FirstBelowOthers'
    BY <1>1, <1>4, <1>6 DEF FirstBelowOthers, NoneMissing
  <2>once. /\ \A i \in 1 .. n - 1 : stack'[i].at = "needs" =>
             progress[stack'[i].field] = "calculating"
        /\ \A i, j \in 1 .. n - 1 :
             /\ stack'[i].at = "needs" /\ stack'[j].at = "needs"
             /\ stack'[i].field = stack'[j].field
             => i = j
    BY <1>4, <1>6 DEF CalculatingOnce, NoneMissing
  <2>2. CASE UpdateFails
    <3>1. /\ Top.at = "needs"
          /\ progress' = [progress EXCEPT ![Top.field] = "finished"]
      BY <2>2 DEF UpdateFails, In
    <3>2. \A i \in 1 .. n - 1 :
            stack[i].at = "needs" => stack[i].field # Top.field
      BY <1>1, <1>4, <1>5, <1>6, <3>1 DEF NoneMissing, CalculatingOnce
    <3>still. \A i \in 1 .. n - 1 : stack'[i].at = "needs" =>
            progress'[stack'[i].field] = "calculating"
      BY <1>1, <1>2, <1>4, <1>5, <2>once, <3>1, <3>2
    <3>3. CalculatingOnce'
      <4> HIDE DEF n
      <4> QED
        BY <1>1, <2>once, <3>still DEF CalculatingOnce
    <3>4. StoredThere'
      BY <1>1, <1>2, <1>4, <1>5, <1>6, <3>1 DEF StoredThere, NoneMissing
    <3> QED
      BY <1>2, <1>6, <2>1, <3>3, <3>4 DEF NoneMissing
  <2>3. CASE progress' = progress
    <3>1. CalculatingOnce'
      <4> HIDE DEF n
      <4> QED
        BY <1>1, <2>3, <2>once DEF CalculatingOnce
    <3>2. StoredThere'
      BY <1>1, <1>4, <1>6, <2>3 DEF StoredThere, NoneMissing
    <3> QED
      BY <1>2, <1>6, <2>1, <3>1, <3>2 DEF NoneMissing
  <2>4. CASE CalculationsDone /\ Top.first
    <3>1. \A i \in 1 .. n - 1 : stack[i].first /\ stack[i].at # "needs"
      BY <1>1, <1>4, <1>5, <1>6, <2>4 DEF NoneMissing, FirstBelowOthers
    <3>2. CalculatingOnce'
      BY <1>1, <1>4, <3>1 DEF CalculatingOnce
    <3>3. StoredThere'
      BY <1>1, <1>4, <3>1 DEF StoredThere
    <3> QED
      BY <1>2, <1>6, <2>1, <3>2, <3>3 DEF NoneMissing
  <2> QED
    BY <2>2, <2>3, <2>4 DEF Returns, CalculatedMeanwhile, LookupsDone,
         CalculationsDone
<1> QED
  BY <1>1, <1>2, <1>3, <1>6 DEF CrashInv

(* Glom does not end for want of an entry.                                 *)
LEMMA StopsCrash ==
  ASSUME CrashInv, Stops PROVE CrashInv'
<1>1. TypeOK' /\ UNCHANGED <<design, progress, stack, stale, failed>>
  BY StopsStep DEF CrashInv
<1>2. CallsConnected'
  BY <1>1 DEF CrashInv, CallsConnected
<1>3. ASSUME NoneMissing PROVE ended' # "crash"
  <2>1. ~NoLongerInProgress
    <3> SUFFICES ASSUME NoLongerInProgress PROVE FALSE
      OBVIOUS
    <3>1. In("needs") /\ progress[Top.field] = "no"
      BY DEF NoLongerInProgress
    <3>2. progress[Top.field] = "calculating"
      BY <1>3, <3>1, TopConnected DEF NoneMissing, CalculatingOnce
    <3> QED
      BY <3>1, <3>2
  <2>2. ~UseClearedValue
    <3> SUFFICES ASSUME UseClearedValue PROVE FALSE
      OBVIOUS
    <3>1. In("lookups") /\ ~Top.first /\ progress[Top.field] = "no"
      BY DEF UseClearedValue
    <3>2. progress[Top.field] # "no"
      BY <1>3, <3>1, TopConnected DEF NoneMissing, StoredThere
    <3> QED
      BY <3>1, <3>2
  <2> QED
    BY <2>1, <2>2 DEF Stops, Overflow
<1>4. ASSUME NoneMissing PROVE NoneMissing'
  BY <1>1, <1>3, <1>4
  DEF NoneMissing, FirstBelowOthers, CalculatingOnce, StoredThere
<1> QED
  BY <1>1, <1>2, <1>4 DEF CrashInv

LEMMA StartAgainCrash ==
  ASSUME CrashInv, StartAgain PROVE CrashInv'
<1>1. TypeOK' /\ Len(stack') = 0 /\ ended' # "crash"
  BY StartAgainStep DEF CrashInv, StartAgain
<1> QED
  BY <1>1 DEF CrashInv, CallsConnected, NoneMissing, FirstBelowOthers,
    CalculatingOnce, StoredThere

LEMMA InitCrash == Init => CrashInv
<1>1. Init => TypeOK /\ Len(stack) = 0 /\ ended # "crash"
  BY InitTyped, EmptySeq DEF Init
<1> QED
  BY <1>1 DEF CrashInv, CallsConnected, NoneMissing, FirstBelowOthers,
    CalculatingOnce, StoredThere

LEMMA NextCrash == ASSUME CrashInv, [Next]_vars PROVE CrashInv'
<1> HIDE DEF CrashInv
<1>1. CASE UNCHANGED vars
  BY <1>1, StutterStep DEF vars, CrashInv, CallsConnected, NoneMissing,
    FirstBelowOthers, CalculatingOnce, StoredThere
<1> QED
  BY <1>1, NextSteps, EditCrash, ChangeFormulaCrash, CalculateNeededCrash,
     EvaluateCrash, LookUpCrash, BeginCalculationsCrash, TriggerCrash,
     ReturnsCrash, StopsCrash, StartAgainCrash

(* calculate_field() finds its entry again ("Always succeeds"), and        *)
(* do_lookups() uses no value that is gone, for every table in which no    *)
(* lookup goes from a calculated field.                                    *)
THEOREM NoneMissingWithoutLookups == Spec => []CrashesOnlyAfterLookups
<1>1. CrashInv => CrashesOnlyAfterLookups
  BY DEF CrashInv, NoneMissing, CrashesOnlyAfterLookups
<1> HIDE DEF CrashInv
<1> QED
  BY <1>1, InitCrash, NextCrash, PTL DEF Spec

-----------------------------------------------------------------------------
(* Where no three calculated fields depend on each other in a chain and no *)
(* lookup has to do with a calculated field, a change is carried on by     *)
(* some call until the fields it makes stale have their formula's value.   *)

Plain(d) ==
  /\ ~ThreeInAChain(d)
  /\ ~LooksUpFromCalculated(d) /\ ~LooksUpCalculated(d)

(* The formula of g uses the calculated field c.                           *)
Uses(d, g, c) == c \in d.needs[g] /\ d.needs[c] # {}

Leaf(d, g) == \A c \in Fields : ~Uses(d, g, c)

(* The call will have g calculated: it is the calculation of g, or a       *)
(* do_calculations() that comes to g and does not find it finished.        *)
Covers(d, p, call, g) ==
  \/ /\ call.at = "calculations" /\ call.field \in d.needs[g]
     /\ call.first \/ p[g] # "finished"
  \/ call.at = "triggers" /\ g \in call.todo /\ p[g] # "finished"
  \/ call.at = "needs" /\ call.field = g

StaleAreCovered ==
  \A g \in stale :
    \E i \in 1 .. Len(stack) : Covers(design, progress, stack[i], g)

(* For a field that is in progress there is a call, ...                    *)
BegunAreCalled ==
  \A g \in Fields : progress[g] = "calculating" =>
    \E i \in 1 .. Len(stack) : stack[i].at = "needs" /\ stack[i].field = g

(* ... the innermost, if the field needs no other calculated field, ...    *)
LeavesOnTop ==
  \A i \in 1 .. Len(stack) :
    stack[i].at = "needs" /\ Leaf(design, stack[i].field) => i = Len(stack)

(* ... and has the fields begun that it needs, ...                         *)
NeededAreBegun ==
  \A i \in 1 .. Len(stack) : stack[i].at = "needs" =>
    \A c \in Fields :
      Uses(design, stack[i].field, c) /\ c \notin stack[i].todo =>
        progress[c] # "no"

(* ... so that they are finished when it is.                               *)
FinishedFromFinished ==
  \A g, c \in Fields :
    progress[g] = "finished" /\ Uses(design, g, c) => progress[c] = "finished"

Reaching ==
  /\ StaleAreCovered /\ BegunAreCalled /\ LeavesOnTop /\ NeededAreBegun
  /\ FinishedFromFinished

ConsistentInv ==
  /\ CrashInv
  /\ ~failed /\ Plain(design) => Reaching

(* What a step starts from.                                                *)
LEMMA ReachingNow ==
  ASSUME ConsistentInv, ~failed, Plain(design)
  PROVE  /\ CrashInv /\ TypeOK /\ NoneMissing /\ Reaching
         /\ progress \in [Fields -> {"no", "calculating", "finished"}]
         /\ stale \subseteq Fields
         /\ Len(stack) \in Nat
         /\ \A i \in 1 .. Len(stack) : stack[i].field \in Fields
BY CallsTyped
DEF ConsistentInv, CrashInv, Plain, TypeOK, Calculated, Frames

LEMMA NothingInProgress ==
  ASSUME ConsistentInv, ~failed, Plain(design), stack = <<>>
  PROVE  stale = {} /\ \A g \in Fields : progress[g] # "calculating"
<1>1. Len(stack) = 0
  BY EmptySeq
<1> QED
  BY <1>1, ReachingNow DEF Reaching, StaleAreCovered, BegunAreCalled

LEMMA EditReaching ==
  ASSUME ConsistentInv, ~failed, Plain(design), NEW f \in Fields, Edit(f)
  PROVE  Reaching'
<1>1. /\ stack = <<>> /\ f \notin Calculated
      /\ stale' = stale \cup ({f} \cap Calculated) \cup UsersOf(f)
      /\ UNCHANGED <<design, progress, failed>>
  BY DEF Edit, Idle, Overwritten
<1>2. stale' = UsersOf(f) /\ \A g \in Fields : progress[g] # "calculating"
  BY <1>1, NothingInProgress
<1>3. /\ Len(stack') = 2
      /\ stack'[1].at = "calculations" /\ stack'[1].first
      /\ stack'[1].field = f /\ stack'[2].at = "lookups"
  <2>1. StoredFrom(f, 0, TRUE)
    BY EditStep, ReachingNow
  <2>2. 0 + 1 = 1 /\ 0 + 2 = 2
    OBVIOUS
  <2> QED
    BY <2>1, <2>2 DEF StoredFrom, Call
<1>4. \A i \in 1 .. Len(stack') : i = 1 \/ i = 2
  BY <1>3
<1>5. StaleAreCovered'
  <2>1. ASSUME NEW g \in stale'
        PROVE  Covers(design', progress', stack'[1], g)
    BY <1>1, <1>2, <1>3, <2>1 DEF Covers, UsersOf
  <2>2. 1 \in 1 .. Len(stack')
    BY <1>3
  <2> QED
    BY <2>1, <2>2 DEF StaleAreCovered
<1>6. BegunAreCalled' /\ LeavesOnTop' /\ NeededAreBegun'
  BY <1>1, <1>2, <1>3, <1>4
  DEF BegunAreCalled, LeavesOnTop, NeededAreBegun
<1>7. FinishedFromFinished'
  BY <1>1, ReachingNow DEF Reaching, FinishedFromFinished
<1> QED
  BY <1>5, <1>6, <1>7 DEF Reaching

LEMMA ChangeFormulaReaching ==
  ASSUME ConsistentInv, ~failed, Plain(design), NEW f \in Fields,
         ChangeFormula(f)
  PROVE  Reaching'
<1>1. /\ stale' = {f}
      /\ progress' = [Clear EXCEPT ![f] = "calculating"]
      /\ design' = design
  BY NothingInProgress DEF ChangeFormula, Idle
<1>2. /\ \A g \in Fields : g # f => progress'[g] = "no"
      /\ progress'[f] = "calculating"
  BY <1>1 DEF Clear
<1>3. /\ Len(stack') = 1
      /\ stack'[1].at = "needs" /\ stack'[1].field = f
      /\ stack'[1].todo = Needed(f)
  <2>1. Len(stack') = 1 /\ stack'[1] = Call("needs", f, Needed(f), FALSE)
    BY ChangeFormulaStep, ReachingNow
  <2> QED
    BY <2>1 DEF Call
<1>4. 1 \in 1 .. Len(stack') /\ \A i \in 1 .. Len(stack') : i = 1
  BY <1>3
<1>5. StaleAreCovered'
  BY <1>1, <1>3, <1>4 DEF StaleAreCovered, Covers
<1>6. BegunAreCalled'
  BY <1>2, <1>3, <1>4 DEF BegunAreCalled
<1>7. LeavesOnTop'
  BY <1>3, <1>4 DEF LeavesOnTop
<1>8. NeededAreBegun'
  BY <1>1, <1>3, <1>4 DEF NeededAreBegun, Uses, Needed, Calculated
<1>9. FinishedFromFinished'
  BY <1>2 DEF FinishedFromFinished
<1> QED
  BY <1>5, <1>6, <1>7, <1>8, <1>9 DEF Reaching

(* A call that goes on without f, or as it was.                            *)
GoesOn(c, e, f) ==
  /\ e.at = c.at /\ e.field = c.field /\ e.first = c.first
  /\ e.todo = c.todo \/ e.todo = c.todo \ {f}

(* The calls go on, f is calculated for one of them.                       *)
LEMMA BegunReaching ==
  ASSUME ConsistentInv, ~failed, Plain(design), NEW f \in Fields,
         NEW n \in Nat, Len(stack) <= n, UNCHANGED <<design, stale>>,
         \A i \in 1 .. Len(stack) : GoesOn(stack[i], stack'[i], f),
         \A i \in Len(stack) + 1 .. n : stack'[i].at # "needs",
         \A i \in 1 .. Len(stack) :
           stack[i].at = "needs" => ~Leaf(design, stack[i].field),
         BegunFrom(f, n)
  PROVE  Reaching'
<1>1. /\ Reaching /\ Len(stack) \in Nat
      /\ progress \in [Fields -> {"no", "calculating", "finished"}]
      /\ stale \subseteq Fields
      /\ \A i \in 1 .. Len(stack) : stack[i].field \in Fields
  BY ReachingNow
<1>2. /\ \A g \in Fields : g # f => progress'[g] = progress[g]
      /\ progress[f] # "no" => progress'[f] = progress[f]
      /\ progress'[f] # "no"
      /\ progress[f] = "no" => progress'[f] = "calculating"
  BY <1>1 DEF BegunFrom
<1>3. /\ Len(stack') \in {n, n + 1}
      /\ progress[f] = "no" <=> Len(stack') = n + 1
      /\ progress[f] = "no" =>
           /\ stack'[n + 1].at = "needs" /\ stack'[n + 1].field = f
           /\ stack'[n + 1].todo = Needed(f)
  BY DEF BegunFrom, Call
<1>4. \A i \in 1 .. Len(stack') :
        \/ i \in 1 .. Len(stack)
        \/ i \in Len(stack) + 1 .. n
        \/ i = n + 1 /\ Len(stack') = n + 1
  BY <1>1, <1>3
<1>5. \A i \in 1 .. Len(stack) : i \in 1 .. Len(stack')
  BY <1>1, <1>3
<1>6. BegunAreCalled'
  <2>1. ASSUME NEW g \in Fields, progress'[g] = "calculating"
        PROVE  \E i \in 1 .. Len(stack') :
                 stack'[i].at = "needs" /\ stack'[i].field = g
    <3>1. CASE g = f /\ progress[f] = "no"
      <4>1. n + 1 \in 1 .. Len(stack')
        BY <1>3, <3>1
      <4> QED
        BY <1>3, <3>1, <4>1
    <3>2. CASE ~(g = f /\ progress[f] = "no")
      <4>1. progress[g] = "calculating"
        BY <1>2, <2>1, <3>2
      <4>2. PICK i \in 1 .. Len(stack) :
              stack[i].at = "needs" /\ stack[i].field = g
        BY <1>1, <4>1 DEF Reaching, BegunAreCalled
      <4> QED
        BY <1>5, <4>2 DEF GoesOn
    <3> QED
      BY <3>1, <3>2
  <2> QED
    BY <2>1 DEF BegunAreCalled
<1>7. StaleAreCovered'
  <2>1. ASSUME NEW g \in stale
        PROVE  \E i \in 1 .. Len(stack') :
                 Covers(design, progress', stack'[i], g)
    <3>1. PICK i \in 1 .. Len(stack) : Covers(design, progress, stack[i], g)
      BY <1>1 DEF Reaching, StaleAreCovered
    <3>2. /\ progress[g] # "finished" => progress'[g] # "finished"
          /\ GoesOn(stack[i], stack'[i], f) /\ g \in Fields
      BY <1>1, <1>2
    <3>3. CASE Covers(design, progress', stack'[i], g)
      BY <1>5, <3>3
    <3>4. CASE ~Covers(design, progress', stack'[i], g)
      <4>1. g = f /\ progress[f] # "finished"
        BY <3>1, <3>2, <3>4 DEF Covers, GoesOn
      <4>2. progress'[f] = "calculating"
        BY <1>1, <1>2, <4>1
      <4>3. PICK j \in 1 .. Len(stack') :
              stack'[j].at = "needs" /\ stack'[j].field = f
        BY <1>6, <4>2 DEF BegunAreCalled
      <4> QED
        BY <4>1, <4>3 DEF Covers
    <3> QED
      BY <3>3, <3>4
  <2> QED
    BY <2>1 DEF StaleAreCovered
<1>8. LeavesOnTop'
  <2>1. ASSUME NEW i \in 1 .. Len(stack'), stack'[i].at = "needs",
               Leaf(design, stack'[i].field)
        PROVE  i = Len(stack')
    <3>1. i \notin 1 .. Len(stack)
      BY <2>1 DEF GoesOn
    <3> QED
      BY <1>4, <2>1, <3>1
  <2> QED
    BY <2>1 DEF LeavesOnTop
<1>9. NeededAreBegun'
  <2>1. ASSUME NEW i \in 1 .. Len(stack'), stack'[i].at = "needs",
               NEW c \in Fields, Uses(design, stack'[i].field, c),
               c \notin stack'[i].todo
        PROVE  progress'[c] # "no"
    <3>1. CASE i \in 1 .. Len(stack)
      <4>1. GoesOn(stack[i], stack'[i], f)
        BY <3>1
      <4>2. c = f \/ progress[c] # "no"
        BY <1>1, <2>1, <3>1, <4>1 DEF GoesOn, Reaching, NeededAreBegun
      <4> QED
        BY <1>2, <4>2
    <3>2. CASE i = n + 1 /\ Len(stack') = n + 1
      BY <1>3, <2>1, <3>2 DEF Uses, Needed, Calculated
    <3> QED
      BY <1>4, <2>1, <3>1, <3>2
  <2> QED
    BY <2>1 DEF NeededAreBegun
<1>10. FinishedFromFinished'
  <2>1. ASSUME NEW g \in Fields, NEW c \in Fields, progress'[g] = "finished",
               Uses(design, g, c)
        PROVE  progress'[c] = "finished"
    <3>1. progress[g] = "finished"
      BY <1>2, <2>1
    <3>2. progress[c] = "finished"
      BY <1>1, <2>1, <3>1 DEF Reaching, FinishedFromFinished
    <3> QED
      BY <1>2, <3>2
  <2> QED
    BY <2>1 DEF FinishedFromFinished
<1> QED
  BY <1>6, <1>7, <1>8, <1>9, <1>10 DEF Reaching

LEMMA CalculateNeededReaching ==
  ASSUME ConsistentInv, ~failed, Plain(design), CalculateNeeded
  PROVE  Reaching'
<1> DEFINE n == Len(stack)
<1>1. In("needs") /\ UNCHANGED <<design, stale>> /\ Kept(n - 1)
  BY CalculateNeededStep, ReachingNow DEF CalculateNeeded
<1>2. /\ Connected(design, Top) /\ Top = stack[n] /\ n \in Nat \ {0}
      /\ Top.at = "needs" /\ Top.field \in Fields /\ Top.todo \subseteq Fields
  BY <1>1, TopConnected, ReachingNow
<1>3. PICK f \in Top.todo :
        /\ stack'[n] = Call("needs", Top.field, Top.todo \ {f}, Top.first)
        /\ BegunFrom(f, n)
  BY CalculateNeededStep, ReachingNow
<1>4. f \in Fields /\ ~Leaf(design, Top.field)
  BY <1>2 DEF Connected, Leaf, Uses
<1>5. \A i \in 1 .. n : GoesOn(stack[i], stack'[i], f)
  <2>1. GoesOn(stack[n], stack'[n], f)
    BY <1>2, <1>3 DEF GoesOn, Call
  <2>2. \A i \in 1 .. n - 1 : GoesOn(stack[i], stack'[i], f)
    BY <1>1 DEF GoesOn, Kept
  <2> QED
    BY <1>2, <2>1, <2>2
<1>6. \A i \in 1 .. n :
        stack[i].at = "needs" => ~Leaf(design, stack[i].field)
  BY <1>2, <1>4, ReachingNow DEF Reaching, LeavesOnTop
<1> QED
  BY <1>1, <1>2, <1>3, <1>4, <1>5, <1>6, BegunReaching

LEMMA TriggerReaching ==
  ASSUME ConsistentInv, ~failed, Plain(design), Trigger
  PROVE  Reaching'
<1> DEFINE n == Len(stack)
<1>1. In("triggers") /\ UNCHANGED <<design, stale>> /\ Kept(n - 1)
  BY TriggerStep, ReachingNow DEF Trigger
<1>2. /\ Top = stack[n] /\ n \in Nat \ {0}
      /\ Top.at = "triggers" /\ Top.todo \subseteq Fields
  BY <1>1, TopConnected, ReachingNow
<1>3. PICK f \in Top.todo :
        /\ stack'[n] = Call("triggers", Top.field, Top.todo \ {f}, Top.first)
        /\ stack'[n + 1] = Call("calculations", f, {}, FALSE)
        /\ BegunFrom(f, n + 1)
  BY TriggerStep, ReachingNow
<1>4. \A i \in 1 .. n : GoesOn(stack[i], stack'[i], f)
  <2>1. GoesOn(stack[n], stack'[n], f)
    BY <1>2, <1>3 DEF GoesOn, Call
  <2>2. \A i \in 1 .. n - 1 : GoesOn(stack[i], stack'[i], f)
    BY <1>1 DEF GoesOn, Kept
  <2> QED
    BY <1>2, <2>1, <2>2
<1>5. \A i \in n + 1 .. n + 1 : stack'[i].at # "needs"
  <2>1. stack'[n + 1].at # "needs"
    BY <1>3 DEF Call
  <2>2. \A i \in n + 1 .. n + 1 : i = n + 1
    BY <1>2
  <2> QED
    BY <2>1, <2>2
<1>6. \A i \in 1 .. n :
        stack[i].at = "needs" => ~Leaf(design, stack[i].field)
  BY <1>2, ReachingNow DEF Reaching, LeavesOnTop
<1>7. f \in Fields /\ n + 1 \in Nat /\ n <= n + 1
  BY <1>2
<1> QED
  BY <1>1, <1>3, <1>4, <1>5, <1>6, <1>7, BegunReaching

(* What is calculated is calculated from fields that are finished.         *)
LEMMA EvaluateReaching ==
  ASSUME ConsistentInv, ~failed, Plain(design), Evaluate
  PROVE  Reaching'
<1> DEFINE n == Len(stack)
           t == Top.field
<1>1. /\ In("needs") /\ UNCHANGED design
      /\ Top.todo = {} /\ progress[t] = "calculating"
      /\ progress' = [progress EXCEPT ![t] = "finished"]
      /\ stale' = stale \/ stale' = (stale \ {t}) \cup (UsersOf(t) \ {t})
      /\ t \in stale => t \notin stale'
  BY DEF Evaluate, Changed
<1>2. Kept(n - 1) /\ StoredFrom(t, n - 1, FALSE)
  BY EvaluateStep, ReachingNow
<1>3. /\ Connected(design, Top) /\ Top = stack[n] /\ n \in Nat \ {0}
      /\ Top.at = "needs" /\ t \in Fields
  BY <1>1, TopConnected, ReachingNow
<1>4. design.needs[t] # {}
  BY <1>3 DEF Connected
<1>5. /\ Len(stack') = n + 1
      /\ stack'[n].at = "calculations" /\ stack'[n].field = t
      /\ ~stack'[n].first
      /\ stack'[n + 1].at = "lookups"
  <2>1. n - 1 + 1 = n /\ n - 1 + 2 = n + 1
    BY <1>3
  <2> QED
    BY <1>2, <2>1 DEF StoredFrom, Call
<1>6. \A i \in 1 .. n + 1 :
        (i \in 1 .. n - 1 /\ stack'[i] = stack[i]) \/ i = n \/ i = n + 1
  BY <1>2, <1>3 DEF Kept
<1>7. /\ Reaching
      /\ progress \in [Fields -> {"no", "calculating", "finished"}]
      /\ stale \subseteq Fields
      /\ \A i \in 1 .. n : stack[i].field \in Fields
  BY ReachingNow
<1>8. stack[n].at = "needs" /\ stack[n].field = t /\ stack[n].todo = {}
  BY <1>1, <1>3
<1> HIDE DEF t
<1>9. \A c \in Fields : Uses(design, t, c) => c # t /\ progress[c] = "finished"
  <2>1. ASSUME NEW c \in Fields, Uses(design, t, c)
        PROVE  c # t /\ progress[c] = "finished"
    <3>1. c # t
      BY <1>3, <2>1 DEF Uses, Plain, ThreeInAChain
    <3>2. progress[c] # "no"
      BY <1>3, <1>7, <1>8, <2>1 DEF Reaching, NeededAreBegun
    <3>3. Leaf(design, c)
      BY <1>3, <2>1 DEF Leaf, Uses, Plain, ThreeInAChain
    <3>4. progress[c] # "calculating"
      <4>1. SUFFICES ASSUME progress[c] = "calculating" PROVE FALSE
        OBVIOUS
      <4>2. PICK i \in 1 .. n : stack[i].at = "needs" /\ stack[i].field = c
        BY <1>7, <4>1 DEF Reaching, BegunAreCalled
      <4>3. i = n
        BY <1>7, <3>3, <4>2 DEF Reaching, LeavesOnTop
      <4> QED
        BY <1>8, <3>1, <4>2, <4>3
    <3> QED
      BY <1>7, <3>1, <3>2, <3>4
  <2> QED
    BY <2>1
<1>10. /\ \A g \in Fields : g # t => progress'[g] = progress[g]
       /\ progress'[t] = "finished"
  BY <1>1, <1>3, <1>7
<1>11. BegunAreCalled'
  <2>1. ASSUME NEW g \in Fields, progress'[g] = "calculating"
        PROVE  \E i \in 1 .. Len(stack') :
                 stack'[i].at = "needs" /\ stack'[i].field = g
    <3>1. g # t /\ progress[g] = "calculating"
      BY <1>10, <2>1
    <3>2. PICK i \in 1 .. n : stack[i].at = "needs" /\ stack[i].field = g
      BY <1>7, <3>1 DEF Reaching, BegunAreCalled
    <3>3. i # n
      BY <1>8, <3>1, <3>2
    <3> QED
      BY <1>3, <1>5, <1>6, <3>2, <3>3
  <2> QED
    BY <2>1 DEF BegunAreCalled
<1>12. StaleAreCovered'
  <2>1. ASSUME NEW g \in stale'
        PROVE  \E i \in 1 .. Len(stack') :
                 Covers(design, progress', stack'[i], g)
    <3>1. g # t
      BY <1>1, <2>1
    <3>2. g \in Fields
      BY <1>1, <1>7, <2>1 DEF UsersOf
    <3>3. CASE g \in stale
      <4>1. PICK i \in 1 .. n : Covers(design, progress, stack[i], g)
        BY <1>7, <3>3 DEF Reaching, StaleAreCovered
      <4>2. i # n
        BY <1>8, <3>1, <4>1 DEF Covers
      <4>3. stack'[i] = stack[i] /\ i \in 1 .. Len(stack')
        BY <1>3, <1>5, <1>6, <4>2
      <4>4. progress'[g] = progress[g]
        BY <1>10, <3>1, <3>2
      <4> QED
        BY <4>1, <4>3, <4>4 DEF Covers
    <3>4. CASE g \in UsersOf(t)
      <4>1. t \in design.needs[g] /\ Uses(design, g, t)
        BY <1>4, <3>4 DEF UsersOf, Uses
      <4>2. progress[g] # "finished"
        BY <1>1, <1>3, <1>7, <3>2, <4>1 DEF Reaching, FinishedFromFinished
      <4>3. progress'[g] # "finished"
        BY <1>10, <3>1, <3>2, <4>2
      <4>4. Covers(design, progress', stack'[n], g)
        BY <1>5, <4>1, <4>3 DEF Covers
      <4>5. n \in 1 .. Len(stack')
        BY <1>3, <1>5
      <4> QED
        BY <4>4, <4>5
    <3> QED
      BY <1>1, <2>1, <3>3, <3>4
  <2> QED
    BY <1>1, <2>1 DEF StaleAreCovered
<1>13. LeavesOnTop'
  <2>1. ASSUME NEW i \in 1 .. Len(stack'), stack'[i].at = "needs",
               Leaf(design, stack'[i].field)
        PROVE  FALSE
    <3>1. i \in 1 .. n - 1 /\ stack'[i] = stack[i]
      BY <1>5, <1>6, <2>1
    <3>2. i = n
      BY <1>3, <1>7, <2>1, <3>1 DEF Reaching, LeavesOnTop
    <3> QED
      BY <1>3, <3>1, <3>2
  <2> QED
    BY <1>1, <2>1 DEF LeavesOnTop
<1>14. NeededAreBegun'
  <2>1. ASSUME NEW i \in 1 .. Len(stack'), stack'[i].at = "needs",
               NEW c \in Fields, Uses(design, stack'[i].field, c),
               c \notin stack'[i].todo
        PROVE  progress'[c] # "no"
    <3>1. i \in 1 .. n /\ stack'[i] = stack[i]
      BY <1>3, <1>5, <1>6, <2>1
    <3>2. progress[c] # "no"
      BY <1>7, <2>1, <3>1 DEF Reaching, NeededAreBegun
    <3> QED
      BY <1>10, <3>2
  <2> QED
    BY <1>1, <2>1 DEF NeededAreBegun
<1>15. FinishedFromFinished'
  <2>1. ASSUME NEW g \in Fields, NEW c \in Fields, progress'[g] = "finished",
               Uses(design, g, c)
        PROVE  progress'[c] = "finished"
    <3>1. CASE g = t
      BY <1>9, <1>10, <2>1, <3>1
    <3>2. CASE g # t
      <4>1. progress[g] = "finished"
        BY <1>10, <2>1, <3>2
      <4>2. progress[c] = "finished"
        BY <1>7, <2>1, <4>1 DEF Reaching, FinishedFromFinished
      <4> QED
        BY <1>10, <4>2
    <3> QED
      BY <3>1, <3>2
  <2> QED
    BY <1>1, <2>1 DEF FinishedFromFinished
<1> QED
  BY <1>11, <1>12, <1>13, <1>14, <1>15 DEF Reaching

(* A lookup stores into a field that the user could have entered, too.     *)
LEMMA LookUpReaching ==
  ASSUME ConsistentInv, ~failed, ~failed', Plain(design), LookUp
  PROVE  Reaching'
<1> DEFINE n == Len(stack)
<1>1. In("lookups") /\ UNCHANGED <<design, progress>> /\ Kept(n - 1)
  BY LookUpStep, ReachingNow DEF LookUp
<1>2. PICK f \in Top.todo :
        /\ stack'[n] = Call("lookups", Top.field, Top.todo \ {f}, Top.first)
        /\ Overwritten(f) /\ StoredFrom(f, n, TRUE)
  BY LookUpStep, ReachingNow
<1>3. /\ Connected(design, Top) /\ Top = stack[n] /\ n \in Nat \ {0}
      /\ Top.at = "lookups" /\ Top.field \in Fields /\ f \in Fields
  BY <1>1, TopConnected, ReachingNow
<1>4. stack'[n].at = "lookups"
  BY <1>2 DEF Call
<1>5. /\ Len(stack') = n + 2
      /\ stack'[n + 1].at = "calculations" /\ stack'[n + 1].first
      /\ stack'[n + 1].field = f /\ stack'[n + 2].at = "lookups"
  BY <1>2 DEF StoredFrom, Call
<1>6. Top.first
  BY <1>1, <1>2, LookUpsAreFirst, ReachingNow DEF Plain
<1>7. \A i \in 1 .. n : stack[i].at # "needs"
  BY <1>3, <1>6, ReachingNow DEF NoneMissing, FirstBelowOthers
<1>8. \A i \in 1 .. n + 2 :
        \/ i \in 1 .. n - 1 /\ stack'[i] = stack[i]
        \/ i = n \/ i = n + 1 \/ i = n + 2
  BY <1>1, <1>3 DEF Kept
<1>9. \A i \in 1 .. Len(stack') : stack'[i].at # "needs"
  BY <1>3, <1>4, <1>5, <1>7, <1>8
<1>10. stale' = stale \cup UsersOf(f)
  <2>1. f \notin Calculated
    BY <1>3 DEF Connected, Plain, LooksUpCalculated, Calculated
  <2> QED
    BY <1>2, <2>1 DEF Overwritten
<1>11. StaleAreCovered'
  <2>1. ASSUME NEW g \in stale'
        PROVE  \E i \in 1 .. Len(stack') :
                 Covers(design, progress, stack'[i], g)
    <3>1. CASE g \in stale
      <4>1. PICK i \in 1 .. n : Covers(design, progress, stack[i], g)
        BY <3>1, ReachingNow DEF Reaching, StaleAreCovered
      <4>2. i # n
        BY <1>3, <4>1 DEF Covers
      <4>3. stack'[i] = stack[i] /\ i \in 1 .. Len(stack')
        BY <1>3, <1>5, <1>8, <4>2
      <4> QED
        BY <4>1, <4>3
    <3>2. CASE g \in UsersOf(f)
      <4>1. Covers(design, progress, stack'[n + 1], g)
        BY <1>5, <3>2 DEF Covers, UsersOf
      <4>2. n + 1 \in 1 .. Len(stack')
        BY <1>3, <1>5
      <4> QED
        BY <4>1, <4>2
    <3> QED
      BY <1>10, <2>1, <3>1, <3>2
  <2> QED
    BY <1>1, <2>1 DEF StaleAreCovered
<1>12. BegunAreCalled'
  BY <1>1, <1>7, ReachingNow DEF Reaching, BegunAreCalled
<1>13. LeavesOnTop' /\ NeededAreBegun'
  BY <1>9 DEF LeavesOnTop, NeededAreBegun
<1>14. FinishedFromFinished'
  BY <1>1, ReachingNow DEF Reaching, FinishedFromFinished
<1> QED
  BY <1>11, <1>12, <1>13, <1>14 DEF Reaching

(* The calls that clear m_FieldsCalculationInProgress cover the fields     *)
(* they come to as before, and below them no other call looks at it.       *)
LEMMA ClearedReaching ==
  ASSUME ConsistentInv, ~failed, Plain(design),
         UNCHANGED <<design, stale>>, progress' = Clear,
         \A i \in 1 .. Len(stack') : stack'[i].at # "needs",
         \A g \in stale : \E i \in 1 .. Len(stack') :
           Covers(design, Clear, stack'[i], g)
  PROVE  Reaching'
<1>1. \A g \in Fields : progress'[g] = "no"
  BY DEF Clear
<1>2. BegunAreCalled' /\ FinishedFromFinished'
  BY <1>1 DEF BegunAreCalled, FinishedFromFinished
<1>3. LeavesOnTop' /\ NeededAreBegun'
  BY DEF LeavesOnTop, NeededAreBegun
<1>4. StaleAreCovered'
  BY DEF StaleAreCovered
<1> QED
  BY <1>2, <1>3, <1>4 DEF Reaching

(* The innermost call has nothing more to be calculated; the others may go *)
(* on as they are.                                                         *)
LEMMA RestReaching ==
  ASSUME ConsistentInv, ~failed, Plain(design),
         UNCHANGED <<design, stale, progress>>,
         stack # <<>>, Top.at # "needs", Kept(Len(stack) - 1),
         \/ Len(stack') = Len(stack) - 1
         \/ Len(stack') = Len(stack) /\ stack'[Len(stack)].at # "needs",
         \A g \in stale : Covers(design, progress, Top, g) =>
           /\ Len(stack') = Len(stack)
           /\ Covers(design, progress, stack'[Len(stack)], g)
  PROVE  Reaching'
<1> DEFINE n == Len(stack)
<1>1. Top = stack[n] /\ n \in Nat \ {0} /\ Reaching
  BY CallsTyped, ReachingNow
<1>2. \A i \in 1 .. n : (i \in 1 .. n - 1 /\ stack'[i] = stack[i]) \/ i = n
  BY <1>1 DEF Kept
<1>3. \A i \in 1 .. n - 1 : i \in 1 .. Len(stack')
  BY <1>1
<1>4. \A i \in 1 .. Len(stack') : stack'[i].at = "needs" =>
        i \in 1 .. n - 1 /\ stack'[i] = stack[i]
  BY <1>1, <1>2
<1>5. StaleAreCovered'
  <2>1. ASSUME NEW g \in stale
        PROVE  \E i \in 1 .. Len(stack') :
                 Covers(design, progress, stack'[i], g)
    <3>1. PICK i \in 1 .. n : Covers(design, progress, stack[i], g)
      BY <1>1 DEF Reaching, StaleAreCovered
    <3>2. CASE i = n
      BY <1>1, <3>1, <3>2
    <3>3. CASE i # n
      BY <1>2, <1>3, <3>1, <3>3
    <3> QED
      BY <3>2, <3>3
  <2> QED
    BY <2>1 DEF StaleAreCovered
<1>6. BegunAreCalled'
  <2>1. ASSUME NEW g \in Fields, progress[g] = "calculating"
        PROVE  \E i \in 1 .. Len(stack') :
                 stack'[i].at = "needs" /\ stack'[i].field = g
    <3>1. PICK i \in 1 .. n : stack[i].at = "needs" /\ stack[i].field = g
      BY <1>1, <2>1 DEF Reaching, BegunAreCalled
    <3>2. i # n
      BY <1>1, <3>1
    <3> QED
      BY <1>2, <1>3, <3>1, <3>2
  <2> QED
    BY <2>1 DEF BegunAreCalled
<1>7. LeavesOnTop'
  <2>1. ASSUME NEW i \in 1 .. Len(stack'), stack'[i].at = "needs",
               Leaf(design, stack'[i].field)
        PROVE  FALSE
    <3>1. i \in 1 .. n - 1 /\ stack'[i] = stack[i]
      BY <1>4, <2>1
    <3>2. i = n
      BY <1>1, <2>1, <3>1 DEF Reaching, LeavesOnTop
    <3> QED
      BY <1>1, <3>1, <3>2
  <2> QED
    BY <2>1 DEF LeavesOnTop
<1>8. NeededAreBegun'
  <2>1. ASSUME NEW i \in 1 .. Len(stack'), stack'[i].at = "needs",
               NEW c \in Fields, Uses(design, stack'[i].field, c),
               c \notin stack'[i].todo
        PROVE  progress[c] # "no"
    <3>1. i \in 1 .. n /\ stack'[i] = stack[i]
      BY <1>1, <1>4, <2>1
    <3> QED
      BY <1>1, <2>1, <3>1 DEF Reaching, NeededAreBegun
  <2> QED
    BY <2>1 DEF NeededAreBegun
<1>9. FinishedFromFinished'
  BY <1>1 DEF Reaching, FinishedFromFinished
<1> QED
  BY <1>5, <1>6, <1>7, <1>8, <1>9 DEF Reaching

LEMMA BeginCalculationsReaching ==
  ASSUME ConsistentInv, ~failed, Plain(design), BeginCalculations
  PROVE  Reaching'
<1> DEFINE n == Len(stack)
<1>1. /\ In("calculations") /\ UNCHANGED <<design, stale>>
      /\ progress' = IF Top.first THEN Clear ELSE progress
  BY DEF BeginCalculations
<1>2. /\ Kept(n - 1) /\ Len(stack') = n
      /\ stack'[n].at = "triggers" /\ stack'[n].todo = UsersOf(Top.field)
  BY BeginCalculationsStep, ReachingNow DEF Call
<1>3. /\ Top = stack[n] /\ n \in Nat \ {0} /\ Top.at = "calculations"
      /\ stack # <<>>
  BY <1>1, TopConnected, InTop, ReachingNow
<1>4. CASE Top.first
  <2>1. \A i \in 1 .. n - 1 : stack[i].first /\ stack[i].at # "needs"
    BY <1>3, <1>4, ReachingNow DEF NoneMissing, FirstBelowOthers
  <2>2. \A i \in 1 .. n : (i \in 1 .. n - 1 /\ stack'[i] = stack[i]) \/ i = n
    BY <1>2, <1>3 DEF Kept
  <2>3. \A i \in 1 .. Len(stack') : stack'[i].at # "needs"
    BY <1>2, <2>1, <2>2
  <2>4. ASSUME NEW g \in stale
        PROVE  \E i \in 1 .. Len(stack') : Covers(design, Clear, stack'[i], g)
    <3>1. PICK i \in 1 .. n : Covers(design, progress, stack[i], g)
      BY ReachingNow DEF Reaching, StaleAreCovered
    <3>2. g \in Fields /\ Clear[g] # "finished"
      BY ReachingNow DEF Clear
    <3>3. CASE i = n
      <4>1. Covers(design, Clear, stack'[n], g)
        BY <1>2, <1>3, <3>1, <3>2, <3>3 DEF Covers, UsersOf
      <4> QED
        BY <1>2, <1>3, <4>1
    <3>4. CASE i # n
      <4>1. Covers(design, Clear, stack'[i], g)
        BY <2>2, <3>1, <3>2, <3>4 DEF Covers
      <4> QED
        BY <1>2, <4>1
    <3> QED
      BY <3>3, <3>4
  <2> QED
    BY <1>1, <1>4, <2>3, <2>4, ClearedReaching
<1>5. CASE ~Top.first
  <2>1. \A g \in stale : Covers(design, progress, Top, g) =>
          Covers(design, progress, stack'[n], g)
    BY <1>2, <1>3, <1>5, ReachingNow DEF Covers, UsersOf
  <2> QED
    BY <1>1, <1>2, <1>3, <1>5, <2>1, RestReaching
<1> QED
  BY <1>4, <1>5

LEMMA ReturnsReaching ==
  ASSUME ConsistentInv, ~failed, ~failed', Plain(design), Returns
  PROVE  Reaching'
<1> DEFINE n == Len(stack)
<1>1. /\ stack # <<>> /\ n \in Nat \ {0}
      /\ Len(stack') = n - 1 /\ Kept(n - 1)
  BY ReturnsStep, ReachingNow
<1>2. UNCHANGED <<design, stale>> /\ Top = stack[n]
  BY <1>1, CallsTyped, ReachingNow
  DEF Returns, UpdateFails, CalculatedMeanwhile, LookupsDone, CalculationsDone
<1>3. CASE UpdateFails
  BY <1>3 DEF UpdateFails
<1>4. CASE CalculatedMeanwhile
  <2>1. Top.at = "needs" /\ progress[Top.field] = "finished"
    BY <1>4 DEF CalculatedMeanwhile, In
  <2> QED
    BY <1>1, <1>2, <2>1, ReachingNow DEF NoneMissing, CalculatingOnce
<1>5. CASE \/ LookupsDone
           \/ CalculationsDone /\ ~Top.first
  <2>1. /\ UNCHANGED progress /\ Top.at \in {"lookups", "triggers"}
        /\ Top.todo = {}
    BY <1>5 DEF LookupsDone, CalculationsDone, In
  <2>2. \A g \in stale : ~Covers(design, progress, Top, g)
    BY <2>1 DEF Covers
  <2> QED
    BY <1>1, <1>2, <2>1, <2>2, RestReaching
<1>6. CASE CalculationsDone /\ Top.first
  <2>1. progress' = Clear /\ Top.at = "triggers" /\ Top.todo = {}
    BY <1>6 DEF CalculationsDone, In
  <2>2. \A i \in 1 .. n - 1 : /\ stack[i].first /\ stack[i].at # "needs"
                              /\ stack[i].at # "triggers"
    BY <1>1, <1>2, <1>6, ReachingNow DEF NoneMissing, FirstBelowOthers
  <2>3. \A i \in 1 .. n - 1 : stack'[i] = stack[i]
    BY <1>1 DEF Kept
  <2>4. \A i \in 1 .. Len(stack') : stack'[i].at # "needs"
    BY <1>1, <2>2, <2>3
  <2>5. ASSUME NEW g \in stale
        PROVE  \E i \in 1 .. Len(stack') : Covers(design, Clear, stack'[i], g)
    <3>1. PICK i \in 1 .. n : Covers(design, progress, stack[i], g)
      BY ReachingNow DEF Reaching, StaleAreCovered
    <3>2. i # n
      BY <1>2, <2>1, <3>1 DEF Covers
    <3>3. i \in 1 .. n - 1 /\ i \in 1 .. Len(stack') /\ stack'[i] = stack[i]
      BY <1>1, <2>3, <3>2
    <3>4. Covers(design, Clear, stack'[i], g)
      BY <2>2, <3>1, <3>3 DEF Covers
    <3> QED
      BY <3>3, <3>4
  <2> QED
    BY <1>2, <2>1, <2>4, <2>5, ClearedReaching
<1> QED
  BY <1>3, <1>4, <1>5, <1>6 DEF Returns

LEMMA UnchangedReaching ==
  ASSUME Reaching, UNCHANGED <<design, progress, stack, stale>>
  PROVE  Reaching'
BY DEF Reaching, StaleAreCovered, BegunAreCalled, LeavesOnTop,
       NeededAreBegun, FinishedFromFinished

LEMMA InitConsistent == Init => ConsistentInv
<1> SUFFICES ASSUME Init PROVE ConsistentInv
  OBVIOUS
<1>1. CrashInv /\ TypeOK
  BY InitCrash DEF CrashInv
<1>2. stale = {} /\ Len(stack) = 0 /\ \A g \in Fields : progress[g] = "no"
  BY EmptySeq DEF Init, Clear
<1> QED
  BY <1>1, <1>2
  DEF ConsistentInv, Reaching, StaleAreCovered, BegunAreCalled, LeavesOnTop,
      NeededAreBegun, FinishedFromFinished

(* A failure is remembered, and the design stays.                          *)
LEMMA FailedStays ==
  ASSUME [Next]_vars
  PROVE  design' = design /\ (failed' = failed \/ failed' = TRUE)
BY DEF Next, Step, Edit, ChangeFormula, CalculateNeeded, Evaluate,
       EvaluateUnread, UpdateFails, CalculatedMeanwhile, NoLongerInProgress, LookUp,
       UseClearedValue, LookupsDone, BeginCalculations, Trigger,
       CalculationsDone, Overflow, StartAgain, vars

LEMMA NextConsistent ==
  ASSUME ConsistentInv, [Next]_vars PROVE ConsistentInv'
<1>1. CrashInv'
  BY NextCrash DEF ConsistentInv
<1>2. ASSUME ~failed', Plain(design') PROVE Reaching'
  <2>1. ~failed /\ Plain(design) /\ TypeOK
    <3>1. design' = design /\ (failed' = failed \/ failed' = TRUE)
      BY FailedStays
    <3>2. Plain(design)
      BY <1>2, <3>1
    <3>3. ~failed
      BY <1>2, <3>1, Zenon
    <3>4. TypeOK
      BY DEF ConsistentInv, CrashInv
    <3> QED
      BY <3>2, <3>3, <3>4
  <2>2. CASE \E f \in Fields : Edit(f)
    BY <2>1, <2>2, EditReaching
  <2>3. CASE \E f \in Fields : ChangeFormula(f)
    BY <2>1, <2>3, ChangeFormulaReaching
  <2>4. CASE CalculateNeeded
    BY <2>1, <2>4, CalculateNeededReaching
  <2>5. CASE Evaluate
    BY <2>1, <2>5, EvaluateReaching
  <2>13. CASE EvaluateUnread
    BY <1>2, <2>13 DEF EvaluateUnread
  <2>6. CASE LookUp
    BY <1>2, <2>1, <2>6, LookUpReaching
  <2>7. CASE BeginCalculations
    BY <2>1, <2>7, BeginCalculationsReaching
  <2>8. CASE Trigger
    BY <2>1, <2>8, TriggerReaching
  <2>9. CASE Returns
    BY <1>2, <2>1, <2>9, ReturnsReaching
  <2>10. CASE Stops
    BY <2>1, <2>10, StopsStep, ReachingNow, UnchangedReaching
  <2>11. CASE StartAgain
    BY <1>2, <2>11 DEF StartAgain
  <2>12. CASE UNCHANGED vars
    BY <2>1, <2>12, ReachingNow, UnchangedReaching DEF vars
  <2> QED
    BY <2>2, <2>3, <2>4, <2>5, <2>6, <2>7, <2>8, <2>9, <2>10, <2>11, <2>12,
       <2>13, NextSteps
<1> QED
  BY <1>1, <1>2 DEF ConsistentInv

(* When all calls have returned every calculated field has the value of    *)
(* its formula, unless reading the record or storing a value failed, three *)
(* calculated fields depend on each other in a chain, or a lookup goes     *)
(* from or to a calculated one:                                            *)
(* whatever the order of the document's fields and of a formula's, a       *)
(* change reaches all the fields that depend on it.                        *)
THEOREM ChangesReachAll == Spec => []ConsistentWhenDone
<1>1. ConsistentInv => ConsistentWhenDone
  BY NothingInProgress DEF ConsistentWhenDone, Idle, Plain
<1> HIDE DEF ConsistentInv
<1> QED
  BY <1>1, InitConsistent, NextConsistent, PTL DEF Spec
=============================================================================
