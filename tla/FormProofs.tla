------------------------------ MODULE FormProofs ------------------------------
(***************************************************************************)
(* Proofs about the fields of a property, for any number of fields, values *)
(* and edits.                                                              *)
(***************************************************************************)
EXTENDS PropertyForm, FiniteSetTheorems, SequenceTheorems, TLAPS

Rows == [Editable -> Values]

Begun == {f \in Fields : began[f]}

-----------------------------------------------------------------------------
(* Types *)

LEMMA FieldsAreEditable == Fields \subseteq Editable
  BY DEF Editable

LEMMA CurrentExists ==
    ASSUME FormTypeOK
    PROVE  Current \in Nat \ {0} /\ objects[Current] \in Rows /\ objects[drawn] \in Rows
<1>1. Len(objects) \in Nat /\ drawn \in 1 .. Len(objects)
  BY LenProperties DEF FormTypeOK, Current
<1>2. \A i \in 1 .. Len(objects) : objects[i] \in Rows
  BY ElementOfSeq DEF FormTypeOK, Rows
<1> QED
  BY <1>1, <1>2 DEF Current

\* What is drawn has the types of the members.
LEMMA DrawType ==
    ASSUME NEW objs \in Seq(Rows), Len(objs) > 0, Draw(objs)
    PROVE  /\ drawn' \in 1 .. Len(objs) /\ currentValues' \in Rows
           /\ began' \in [Fields -> BOOLEAN] /\ dirty' \in [Fields -> BOOLEAN]
           /\ buffer' \in [Fields -> Values]
           /\ focus' = "none" /\ left' = {}
<1>1. Len(objs) \in Nat /\ objs[Len(objs)] \in Rows
  BY LenProperties, ElementOfSeq
<1>2. \A f \in Fields : objs[Len(objs)][f] \in Values
  BY <1>1, FieldsAreEditable DEF Rows
<1> QED
  BY <1>1, <1>2 DEF Draw

LEMMA EndEditType ==
    ASSUME FormTypeOK, NEW f \in Fields, EndEdit(f), UNCHANGED objects
    PROVE  /\ editingCount' \in Nat
           /\ drawn' \in 1 .. Current /\ currentValues' \in Rows
           /\ began' \in [Fields -> BOOLEAN] /\ dirty' \in [Fields -> BOOLEAN]
           /\ buffer' \in [Fields -> Values]
           /\ focus' \in Fields \cup {"none"} /\ left' \subseteq Fields
<1>1. editingCount' \in Nat
  BY DEF EndEdit, FormTypeOK
<1>2. CASE Draw(objects)
  BY <1>1, <1>2, DrawType, CurrentExists DEF FormTypeOK, Rows, Current
<1>3. CASE /\ KeepDrawing
           /\ began' = [began EXCEPT ![f] = FALSE] /\ left' = left \ {f}
  BY <1>1, <1>3 DEF KeepDrawing, drawing, FormTypeOK, Rows
<1> QED
  BY <1>2, <1>3 DEF EndEdit

LEMMA ReceivedType ==
    ASSUME FormTypeOK, NEW objs \in Seq(Rows), Len(objs) >= Current, Received(objs)
    PROVE  FormTypeOK'
<1>1. /\ objects' = objs /\ UNCHANGED <<editingCount, settling, box>>
      /\ Len(objs) \in Nat /\ Current \in Nat \ {0}
  BY LenProperties, CurrentExists DEF Received
<1>2. CASE Draw(objs)
  BY <1>1, <1>2, DrawType DEF FormTypeOK, Rows, Current, box
<1>3. CASE UNCHANGED <<drawing, field, focus, left>>
  BY <1>1, <1>3 DEF FormTypeOK, Rows, Current, box, drawing, field
<1> QED
  BY <1>2, <1>3 DEF Received

LEMMA ServerType ==
    ASSUME FormTypeOK, Server
    PROVE  FormTypeOK'
<1>1. ASSUME NEW n \in Editable, NEW v \in Values, Push(n, v)
      PROVE  FormTypeOK'
  <2>1. Current \in 1 .. Len(objects) /\ [objects[Current] EXCEPT ![n] = v] \in Rows
    BY CurrentExists DEF Rows, Current
  <2>2. PICK objs : objs = [objects EXCEPT ![Current] = [@ EXCEPT ![n] = v]]
    OBVIOUS
  <2>3. objs \in Seq(Rows) /\ Len(objs) = Len(objects)
    BY <2>1, <2>2, ExceptSeq DEF FormTypeOK, Rows
  <2>4. Len(objs) >= Current
    BY <2>3, CurrentExists DEF Current
  <2>5. Received(objs)
    BY <1>1, <2>2, Zenon DEF Push
  <2> QED
    BY <2>3, <2>4, <2>5, ReceivedType
<1>2. ASSUME NEW values \in Rows, Replace(values)
      PROVE  FormTypeOK'
  <2>1. PICK objs : objs = Append(objects, values)
    OBVIOUS
  <2>2. objs \in Seq(Rows) /\ Len(objs) >= Current
    BY <2>1, CurrentExists DEF FormTypeOK, Rows, Current
  <2>3. Received(objs)
    BY <1>2, <2>1, Zenon DEF Replace
  <2> QED
    BY <2>2, <2>3, ReceivedType
<1> QED
  BY <1>1, <1>2 DEF Server, Rows

LEMMA DeferredType ==
    ASSUME FormTypeOK, Deferred
    PROVE  FormTypeOK'
<1>1. CASE Settled
  <2>1. /\ editingCount' \in Nat /\ settling' \in Nat /\ UNCHANGED <<store, box>>
    BY <1>1 DEF Settled, FormTypeOK
  <2>2. CASE Draw(objects)
    BY <2>1, <2>2, DrawType, CurrentExists DEF FormTypeOK, Rows, Current, store, box
  <2>3. CASE UNCHANGED <<drawing, field, focus, left>>
    BY <2>1, <2>3 DEF FormTypeOK, Current, store, box, drawing, field
  <2> QED
    BY <1>1, <2>2, <2>3 DEF Settled
<1>2. ASSUME NEW f \in Fields, StillThere(f) PROVE FormTypeOK'
  BY <1>2 DEF StillThere, FormTypeOK, Current, store, drawing, field, box
<1>3. ASSUME NEW f \in Fields, Commit(f) PROVE FormTypeOK'
  BY <1>3 DEF Commit, FormTypeOK, Current, store, drawing, box
<1>4. ASSUME NEW f \in Fields, LeaveClean(f) PROVE FormTypeOK'
  BY <1>4, EndEditType DEF LeaveClean, FormTypeOK, Rows, Current, store, box
<1> QED
  BY <1>1, <1>2, <1>3, <1>4 DEF Deferred

LEMMA UserType ==
    ASSUME FormTypeOK, User
    PROVE  FormTypeOK'
<1>1. CASE Leave \/ RaisePanel
  BY <1>1 DEF Leave, RaisePanel, FormTypeOK, Current, store, drawing, field, box
<1>2. CASE OpenDialog \/ Save \/ Dismiss \/ SendGroupChoice
  BY <1>2, CurrentExists DEF OpenDialog, Save, Dismiss, SendGroupChoice, FormTypeOK, Current,
              store, drawing, field, browser, box
<1>3. ASSUME NEW f \in Fields, Enter(f) PROVE FormTypeOK'
  <2>1. editingCount' \in Nat /\ began' \in [Fields -> BOOLEAN]
    <3>1. editingCount \in Nat /\ began \in [Fields -> BOOLEAN]
      BY DEF FormTypeOK
    <3>2. began' = began \/ began' = [began EXCEPT ![f] = TRUE]
      BY <1>3 DEF Enter
    <3>3. editingCount' = editingCount \/ editingCount' = editingCount + 1
      BY <1>3 DEF Enter
    <3>4. editingCount' \in Nat
      BY <3>1, <3>3
    <3>5. began' \in [Fields -> BOOLEAN]
      BY <3>1, <3>2
    <3> QED
      BY <3>4, <3>5
  <2>2. left' \subseteq Fields
    BY <1>3 DEF Enter, FormTypeOK
  <2> QED
    BY <1>3, <2>1, <2>2 DEF Enter, FormTypeOK, Current, store, drawing, box
<1>4. ASSUME NEW f \in Fields, Cancel(f) PROVE FormTypeOK'
  BY <1>4, EndEditType DEF Cancel, FormTypeOK, Rows, Current, store, box
<1>5. ASSUME NEW f \in Fields, NEW v \in Values, Type(f, v) PROVE FormTypeOK'
  <2>1. dirty' \in [Fields -> BOOLEAN]
    BY <1>5 DEF Type, FormTypeOK
  <2> QED
    BY <1>5, <2>1 DEF Type, FormTypeOK, Current, store, drawing, browser, box
<1>6. ASSUME NEW n, NEW v, Fill(n, v) PROVE FormTypeOK'
  BY <1>6 DEF Fill, FormTypeOK, Current, store, drawing, field, browser
<1> QED
  BY <1>1, <1>2, <1>3, <1>4, <1>5, <1>6 DEF User

LEMMA InitTypes == Init => FormTypeOK
<1> SUFFICES ASSUME Init PROVE FormTypeOK
  OBVIOUS
<1>1. PICK values \in Rows : objects = <<values>> /\ currentValues = values
          /\ buffer = [f \in Fields |-> values[f]]
  BY DEF Init, Rows
<1>2. objects \in Seq(Rows) /\ Len(objects) = 1
  BY <1>1
<1>3. buffer \in [Fields -> Values]
  BY <1>1, FieldsAreEditable DEF Rows
<1> QED
  BY <1>1, <1>2, <1>3 DEF Init, FormTypeOK, Rows, Current

LEMMA TypesKept ==
    ASSUME FormTypeOK, [Next]_vars
    PROVE  FormTypeOK'
<1>1. CASE UNCHANGED vars
  BY <1>1 DEF vars, store, drawing, field, browser, box, FormTypeOK, Current
<1> QED
  BY <1>1, ServerType, DeferredType, UserType DEF Next

-----------------------------------------------------------------------------
(* The inductive invariant *)

\* Without an edit no field has the focus, so nothing can be typed in what shows
\* the datastore.
NoFocus == editingCount = 0 => focus = "none"

Safe == CountIsExact /\ ShowsStore /\ NoFocus

IInv == FormTypeOK /\ Safe

LEMMA BegunIsFinite == IsFiniteSet(Begun) /\ Cardinality(Begun) \in Nat
  BY FormAssumption, FS_Subset, FS_CardinalityType DEF Begun

LEMMA OneEnds ==
    ASSUME FormTypeOK, NEW f \in Fields, began[f],
           began' = [began EXCEPT ![f] = FALSE]
    PROVE  Cardinality(Begun) > 0 /\ Cardinality(Begun') = Cardinality(Begun) - 1
<1>1. f \in Begun /\ Begun' = Begun \ {f}
  BY DEF Begun, FormTypeOK
<1>2. Cardinality(Begun) # 0
  BY <1>1, BegunIsFinite, FS_EmptySet
<1> QED
  BY <1>1, <1>2, BegunIsFinite, FS_RemoveElement

LEMMA OneBegins ==
    ASSUME FormTypeOK, NEW f \in Fields, ~began[f],
           began' = [began EXCEPT ![f] = TRUE]
    PROVE  Cardinality(Begun') = Cardinality(Begun) + 1
<1>1. f \notin Begun /\ Begun' = Begun \cup {f}
  BY DEF Begun, FormTypeOK
<1> QED
  BY <1>1, BegunIsFinite, FS_AddElement

\* What has begun counts.
LEMMA BegunCounts ==
    ASSUME IInv, NEW f \in Fields, began[f]
    PROVE  editingCount > settling
<1>1. Cardinality(Begun) # 0
  BY BegunIsFinite, FS_EmptySet DEF Begun
<1> QED
  BY <1>1, BegunIsFinite DEF IInv, Safe, CountIsExact, Begun, FormTypeOK

LEMMA CountIsBegun == CountIsExact <=> editingCount = Cardinality(Begun) + settling
  BY DEF CountIsExact, Begun

\* draw() shows the datastore, and no edit survives it.
LEMMA DrawIsSafe ==
    ASSUME NEW objs, objects' = objs, Draw(objs), editingCount' = 0, settling' = 0
    PROVE  Safe'
<1>1. \A f \in Fields : ~began'[f]
  BY DEF Draw
<1>2. CountIsExact'
  BY <1>1, FS_EmptySet DEF CountIsExact
<1>3. ShowsStore' /\ NoFocus'
  BY DEF Draw, ShowsStore, NoFocus, Current
<1> QED
  BY <1>2, <1>3 DEF Safe

\* While an edit goes on only the count matters.
LEMMA EditIsSafe ==
    ASSUME FormTypeOK', editingCount' # 0,
           editingCount' = Cardinality(Begun') + settling'
    PROVE  Safe'
  BY DEF Safe, CountIsExact, Begun, ShowsStore, NoFocus

LEMMA EndEditSafe ==
    ASSUME IInv, FormTypeOK', NEW f \in Fields, began[f], EndEdit(f),
           UNCHANGED <<objects, settling>>
    PROVE  Safe'
<1>1. editingCount > settling /\ editingCount \in Nat /\ settling \in Nat
  BY BegunCounts DEF IInv, FormTypeOK
<1>2. editingCount' = editingCount - 1
  BY <1>1 DEF EndEdit
<1>3. CASE editingCount' = 0
  <2>1. Draw(objects)
    BY <1>3 DEF EndEdit
  <2>2. settling' = 0
    BY <1>1, <1>2, <1>3
  <2> QED
    BY <1>3, <2>1, <2>2, DrawIsSafe
<1>4. CASE editingCount' # 0
  <2>1. began' = [began EXCEPT ![f] = FALSE]
    BY <1>4 DEF EndEdit
  <2>2. Cardinality(Begun') = Cardinality(Begun) - 1
    BY <2>1, OneEnds DEF IInv
  <2>3. editingCount = Cardinality(Begun) + settling
    BY CountIsBegun DEF IInv, Safe
  <2>4. editingCount' = Cardinality(Begun') + settling'
    BY <1>1, <1>2, <2>2, <2>3, BegunIsFinite
  <2> QED
    BY <1>4, <2>4, EditIsSafe
<1> QED
  BY <1>3, <1>4

\* What changes neither the fields' edits nor what they show is safe.
LEMMA QuietSafe ==
    ASSUME IInv, UNCHANGED <<editingCount, settling, began, drawing, dirty, buffer,
                             objects>>,
           editingCount = 0 => focus' = "none"
    PROVE  Safe'
<1>1. CountIsExact'
  BY DEF IInv, Safe, CountIsExact
<1>2. ShowsStore' /\ NoFocus'
  BY DEF IInv, Safe, ShowsStore, NoFocus, Current, drawing
<1> QED
  BY <1>1, <1>2 DEF Safe

LEMMA ReceivedSafe ==
    ASSUME IInv, FormTypeOK', NEW objs, Received(objs)
    PROVE  Safe'
<1>1. objects' = objs /\ UNCHANGED <<editingCount, settling>>
  BY DEF Received
<1>2. editingCount = Cardinality(Begun) + settling
  BY CountIsBegun DEF IInv, Safe
<1>3. CASE editingCount = 0
  <2>1. Draw(objs)
    BY <1>3 DEF Received
  <2>2. settling = 0
    BY <1>2, <1>3, BegunIsFinite DEF IInv, FormTypeOK
  <2> QED
    BY <1>1, <1>3, <2>1, <2>2, DrawIsSafe
<1>4. CASE editingCount # 0
  <2>1. Begun' = Begun
    BY <1>4 DEF Received, field, Begun
  <2> QED
    BY <1>1, <1>2, <1>4, <2>1, EditIsSafe
<1> QED
  BY <1>3, <1>4

LEMMA ServerSafe ==
    ASSUME IInv, FormTypeOK', Server
    PROVE  Safe'
<1>1. \E objs : Received(objs)
  BY Zenon DEF Server, Push, Replace
<1> QED
  BY <1>1, ReceivedSafe

LEMMA SettledSafe ==
    ASSUME IInv, FormTypeOK', Settled
    PROVE  Safe'
<1>1. editingCount = Cardinality(Begun) + settling
  BY CountIsBegun DEF IInv, Safe
<1>2. settling > 0 /\ settling' = settling - 1 /\ UNCHANGED objects
      /\ editingCount \in Nat /\ settling \in Nat
  BY DEF Settled, store, IInv, FormTypeOK
<1>3. editingCount' = editingCount - 1
  BY <1>1, <1>2, BegunIsFinite DEF Settled
<1>4. CASE editingCount' = 0
  <2>1. Draw(objects)
    BY <1>4 DEF Settled
  <2>2. settling' = 0
    BY <1>1, <1>2, <1>3, <1>4, BegunIsFinite
  <2> QED
    BY <1>2, <1>4, <2>1, <2>2, DrawIsSafe
<1>5. CASE editingCount' # 0
  <2>1. Begun' = Begun
    BY <1>5 DEF Settled, field, Begun
  <2>2. editingCount' = Cardinality(Begun') + settling'
    BY <1>1, <1>2, <1>3, <2>1, BegunIsFinite
  <2> QED
    BY <1>5, <2>2, EditIsSafe
<1> QED
  BY <1>4, <1>5

LEMMA CommitSafe ==
    ASSUME IInv, FormTypeOK', NEW f \in Fields, Commit(f)
    PROVE  Safe'
<1>1. editingCount = Cardinality(Begun) + settling
  BY CountIsBegun DEF IInv, Safe
<1>2. /\ began[f] /\ began' = [began EXCEPT ![f] = FALSE]
      /\ settling' = settling + 1 /\ editingCount' = editingCount
  BY DEF Commit
<1>3. Cardinality(Begun') = Cardinality(Begun) - 1
  BY <1>2, OneEnds DEF IInv
<1>4. editingCount # 0 /\ settling \in Nat
  BY <1>2, BegunCounts DEF IInv, FormTypeOK
<1> QED
  BY <1>1, <1>2, <1>3, <1>4, BegunIsFinite, EditIsSafe

LEMMA DeferredSafe ==
    ASSUME IInv, FormTypeOK', Deferred
    PROVE  Safe'
<1>1. ASSUME NEW f \in Fields, StillThere(f) PROVE Safe'
  BY <1>1, QuietSafe DEF StillThere, store, field, IInv, Safe, NoFocus
<1>2. ASSUME NEW f \in Fields, LeaveClean(f) PROVE Safe'
  BY <1>2, EndEditSafe DEF LeaveClean, store
<1> QED
  BY <1>1, <1>2, SettledSafe, CommitSafe DEF Deferred

LEMMA EnterSafe ==
    ASSUME IInv, FormTypeOK', NEW f \in Fields, Enter(f)
    PROVE  Safe'
<1>1. editingCount = Cardinality(Begun) + settling /\ settling' = settling
  BY CountIsBegun DEF IInv, Safe, Enter
<1>2. editingCount \in Nat /\ settling \in Nat
  BY DEF IInv, FormTypeOK
<1>3. CASE began[f]
  <2>1. editingCount # 0
    BY <1>2, <1>3, BegunCounts
  <2>2. editingCount' = editingCount /\ Begun' = Begun
    BY <1>3 DEF Enter, Begun
  <2> QED
    BY <1>1, <2>1, <2>2, EditIsSafe
<1>4. CASE ~began[f]
  <2>1. editingCount' = editingCount + 1 /\ began' = [began EXCEPT ![f] = TRUE]
    BY <1>4 DEF Enter
  <2>2. Cardinality(Begun') = Cardinality(Begun) + 1
    BY <1>4, <2>1, OneBegins DEF IInv
  <2> QED
    BY <1>1, <1>2, <2>1, <2>2, BegunIsFinite, EditIsSafe
<1> QED
  BY <1>3, <1>4

LEMMA TypeSafe ==
    ASSUME IInv, FormTypeOK', NEW f \in Fields, NEW v \in Values, Type(f, v)
    PROVE  Safe'
<1>1. editingCount # 0
  BY FormAssumption DEF Type, IInv, Safe, NoFocus
<1>2. editingCount = Cardinality(Begun) + settling
  BY CountIsBegun DEF IInv, Safe
<1>3. editingCount' = editingCount /\ settling' = settling /\ Begun' = Begun
  BY DEF Type, browser, Begun
<1> QED
  BY <1>1, <1>2, <1>3, EditIsSafe

LEMMA UserSafe ==
    ASSUME IInv, FormTypeOK', User
    PROVE  Safe'
<1>1. CASE Leave
  BY <1>1, QuietSafe DEF Leave, store, field
<1>2. CASE RaisePanel
  BY <1>2, QuietSafe DEF RaisePanel, store, field, IInv, Safe, NoFocus
<1>3. CASE OpenDialog \/ Save \/ Dismiss \/ SendGroupChoice
  <2>1. UNCHANGED <<store, drawing, editingCount, field, browser>>
    BY <1>3 DEF OpenDialog, Save, Dismiss, SendGroupChoice
  <2> QED
    BY <2>1, QuietSafe DEF store, field, browser, IInv, Safe, NoFocus
<1>4. ASSUME NEW f \in Fields, Cancel(f) PROVE Safe'
  BY <1>4, EndEditSafe DEF Cancel, store
<1>5. ASSUME NEW n, NEW v, Fill(n, v) PROVE Safe'
  <2>1. UNCHANGED <<store, drawing, editingCount, field, browser>>
    BY <1>5 DEF Fill
  <2> QED
    BY <2>1, QuietSafe DEF store, field, browser, IInv, Safe, NoFocus
<1> QED
  BY <1>1, <1>2, <1>3, <1>4, <1>5, EnterSafe, TypeSafe DEF User

LEMMA IInvKept ==
    ASSUME IInv, [Next]_vars
    PROVE  IInv'
<1>1. FormTypeOK'
  BY TypesKept DEF IInv
<1>2. CASE UNCHANGED vars
  <2>1. UNCHANGED <<store, drawing, editingCount, field, browser>>
    BY <1>2 DEF vars
  <2>2. Safe'
    BY <2>1, QuietSafe DEF store, field, browser, IInv, Safe, NoFocus
  <2> QED
    BY <1>1, <2>2 DEF IInv
<1>3. CASE Next
  <2>1. Safe'
    BY <1>1, <1>3, ServerSafe, DeferredSafe, UserSafe DEF Next
  <2> QED
    BY <1>1, <2>1 DEF IInv
<1> QED
  BY <1>2, <1>3

LEMMA IInvHolds == Spec => []IInv
<1>1. Init => IInv
  <2> SUFFICES ASSUME Init PROVE IInv
    OBVIOUS
  <2>1. FormTypeOK
    BY InitTypes
  <2>2. PICK values \in Rows : objects = <<values>> /\ currentValues = values
            /\ buffer = [f \in Fields |-> values[f]]
    BY DEF Init, Rows
  <2>3. Current = 1 /\ objects[Current] = values
    BY <2>2 DEF Current
  <2>4. CountIsExact
    <3>1. {f \in Fields : began[f]} = {}
      BY DEF Init
    <3> QED
      BY <3>1, FS_EmptySet DEF Init, CountIsExact
  <2>5. ShowsStore /\ NoFocus
    BY <2>2, <2>3 DEF Init, ShowsStore, NoFocus
  <2> QED
    BY <2>1, <2>4, <2>5 DEF IInv, Safe
<1>2. IInv /\ [Next]_vars => IInv'
  BY IInvKept
<1> QED
  BY <1>1, <1>2, PTL DEF Spec

-----------------------------------------------------------------------------
(* Theorems *)

\* The types of what a drawn property keeps, whatever replaces the property.
THEOREM FormTypes == Spec => []FormTypeOK
  BY InitTypes, TypesKept, PTL DEF Spec

\* Every begin() of an edit gets exactly one end(): the count that holds the
\* redraws back is neither lost nor doubled, in any order of focus events, deferred
\* handlers, timers, raised panels and redraws.
THEOREM EveryEditIsCounted == Spec => []CountIsExact
<1>1. IInv => CountIsExact
  BY DEF IInv, Safe
<1> QED
  BY <1>1, IInvHolds, PTL

\* When nobody edits, a field shows the datastore's value: no push is missed.
THEOREM ScreenShowsStore == Spec => []ShowsStore
<1>1. IInv => ShowsStore
  BY DEF IInv, Safe
<1> QED
  BY <1>1, IInvHolds, PTL

\* A value from the server, or the end of another edit, never takes the text or
\* the focus of a field that is being edited.
THEOREM TypingIsKept == Spec => KeepsTyping
<1>1. IInv /\ [Next]_vars =>
        [objects' # objects \/ settling' # settling =>
            \A f \in Fields : began[f] /\ focus = f
                => buffer'[f] = buffer[f] /\ began'[f] /\ focus' = f]_vars
  <2> SUFFICES ASSUME IInv, Next, objects' # objects \/ settling' # settling,
                      NEW f \in Fields, began[f], focus = f
               PROVE  buffer'[f] = buffer[f] /\ began'[f] /\ focus' = f
    OBVIOUS
  <2>1. editingCount > settling /\ editingCount \in Nat /\ settling \in Nat
    BY BegunCounts DEF IInv, FormTypeOK
  <2>2. CASE Server
    <3>1. \E objs : Received(objs)
      BY <2>2, Zenon DEF Server, Push, Replace
    <3>2. UNCHANGED <<field, focus>>
      BY <2>1, <3>1 DEF Received
    <3> QED
      BY <3>2 DEF field
  <2>3. CASE Settled
    <3>1. editingCount' # 0
      BY <2>1, <2>3 DEF Settled
    <3> QED
      BY <2>3, <3>1 DEF Settled, field
  <2>4. CASE \E g \in Fields : Commit(g)
    BY <2>4 DEF Commit, IInv, FormTypeOK
  <2>5. CASE User \/ \E g \in Fields : StillThere(g) \/ LeaveClean(g)
    <3>1. UNCHANGED <<store, settling>>
      BY <2>5 DEF User, StillThere, LeaveClean, Leave, RaisePanel, OpenDialog, Save,
                  Dismiss, SendGroupChoice, Enter, Cancel, Type, Fill, browser
    <3> QED
      BY <3>1 DEF store
  <2> QED
    BY <2>2, <2>3, <2>4, <2>5 DEF Next, Deferred
<1> QED
  BY <1>1, IInvHolds, PTL DEF Spec, KeepsTyping

-----------------------------------------------------------------------------
(* What is sent *)

\* A field that has the focus is being edited, or waits for its redraw; a dirty one
\* was typed in since it was entered, or waits for its redraw.
Entered ==
    /\ typed \in [Fields -> BOOLEAN]
    /\ \A f \in Fields :
          /\ focus = f => began[f] \/ f \in ended
          /\ dirty[f] => (began[f] /\ typed[f]) \/ f \in ended

LEMMA DrawIsEntered == ASSUME NEW objs, Draw(objs) PROVE Entered'
  BY FormAssumption DEF Draw, Entered

LEMMA BrowserIsEntered ==
    ASSUME Entered, UNCHANGED field, focus' \in {focus, "none"}
    PROVE  Entered'
  BY FormAssumption DEF Entered, field

LEMMA EndIsEntered ==
    ASSUME FormTypeOK, Entered, NEW f \in Fields,
           UNCHANGED <<dirty, typed, focus>>,
           began' = [began EXCEPT ![f] = FALSE], ended' = ended \cup {f}
    PROVE  Entered'
  BY DEF Entered, FormTypeOK

LEMMA EndEditIsEntered ==
    ASSUME FormTypeOK, Entered, NEW f \in Fields, EndEdit(f)
    PROVE  Entered'
<1>1. CASE Draw(objects)
  BY <1>1, DrawIsEntered
<1>2. CASE /\ KeepDrawing
           /\ began' = [began EXCEPT ![f] = FALSE] /\ ended' = ended \cup {f}
  BY <1>2, EndIsEntered DEF KeepDrawing
<1> QED
  BY <1>1, <1>2 DEF EndEdit

LEMMA EnteredKept ==
    ASSUME FormTypeOK, Entered, [Next]_vars
    PROVE  Entered'
<1>1. CASE Server
  <2>1. \E objs : Received(objs)
    BY <1>1, Zenon DEF Server, Push, Replace
  <2> QED
    BY <2>1, DrawIsEntered, BrowserIsEntered DEF Received
<1>2. CASE Settled
  BY <1>2, DrawIsEntered, BrowserIsEntered DEF Settled
<1>3. ASSUME NEW f \in Fields, StillThere(f) \/ Commit(f) \/ LeaveClean(f)
      PROVE  Entered'
  <2>1. CASE StillThere(f)
    BY <2>1, BrowserIsEntered DEF StillThere
  <2>2. CASE Commit(f)
    BY <2>2, EndIsEntered DEF Commit
  <2>3. CASE LeaveClean(f)
    BY <2>3, EndEditIsEntered DEF LeaveClean
  <2> QED
    BY <1>3, <2>1, <2>2, <2>3
<1>4. CASE Leave \/ RaisePanel
  BY <1>4, BrowserIsEntered DEF Leave, RaisePanel
<1>5. ASSUME OpenDialog \/ Save \/ Dismiss \/ SendGroupChoice \/ \E n, v : Fill(n, v)
      PROVE  Entered'
  <2>1. UNCHANGED <<field, browser>>
    BY <1>5 DEF OpenDialog, Save, Dismiss, SendGroupChoice, Fill
  <2> QED
    BY <2>1, BrowserIsEntered DEF browser
<1>6. ASSUME NEW f \in Fields, Enter(f)
      PROVE  Entered'
  <2>1. focus' = f /\ UNCHANGED <<dirty, ended>>
    BY <1>6 DEF Enter
  <2>2. CASE began[f] /\ UNCHANGED <<began, typed>>
    BY <2>1, <2>2 DEF Entered
  <2>3. CASE /\ ~began[f] /\ began' = [began EXCEPT ![f] = TRUE]
             /\ typed' = [typed EXCEPT ![f] = FALSE]
    BY <2>1, <2>3 DEF Entered, FormTypeOK
  <2> QED
    BY <1>6, <2>2, <2>3 DEF Enter
<1>7. ASSUME NEW f \in Fields, Cancel(f) PROVE Entered'
  BY <1>7, EndEditIsEntered DEF Cancel
<1>8. ASSUME NEW f \in Fields, NEW v \in Values, Type(f, v)
      PROVE  Entered'
  <2>1. /\ focus = f /\ typed' = [typed EXCEPT ![f] = TRUE]
        /\ \A g \in Fields : g # f => dirty'[g] = dirty[g]
        /\ UNCHANGED <<began, ended, focus>>
    BY <1>8 DEF Type, browser, FormTypeOK
  <2> QED
    BY <2>1 DEF Entered
<1>9. CASE UNCHANGED vars
  BY <1>9, BrowserIsEntered DEF vars, browser
<1> QED
  BY <1>1, <1>2, <1>3, <1>4, <1>5, <1>6, <1>7, <1>8, <1>9
  DEF Next, Deferred, User

\* A dialog has something to edit.
Opened == dialog # 0 => Formable # {}

LEMMA OpenedKept == ASSUME Opened, [Next]_vars PROVE Opened'
<1>1. dialog' \in {dialog, 0} \/ OpenDialog
  BY DEF Next, Server, Push, Replace, Received, Deferred, Settled, StillThere, Commit,
         LeaveClean, User, Leave, RaisePanel, Save, Dismiss, SendGroupChoice,
         Enter, Cancel, Type, Fill, box, vars
<1> QED
  BY <1>1 DEF Opened, OpenDialog

\* A single value is sent by a commit only, all of them by a Save or a choice only.
LEMMA WhoSends ==
    ASSUME Next
    PROVE  /\ sent'.kind = "SV" => \E f \in Fields : Commit(f)
           /\ sent'.kind = "SA" => Save \/ SendGroupChoice
<1>1. CASE Server
  <2>1. \E objs : Received(objs)
    BY <1>1, Zenon DEF Server, Push, Replace
  <2> QED
    BY <2>1 DEF Received, Silence
<1>2. CASE Deferred
  <2>1. sent' = Silence \/ \E f \in Fields : Commit(f)
    BY <1>2, Zenon DEF Deferred, Settled, StillThere, LeaveClean
  <2>2. ASSUME NEW f \in Fields, Commit(f) PROVE sent'.kind = "SV"
    BY <2>2 DEF Commit, SV
  <2> QED
    BY <2>1, <2>2 DEF Silence
<1>3. CASE User
  BY <1>3 DEF User, Leave, RaisePanel, OpenDialog, Save, Dismiss, SendGroupChoice,
              Enter, Cancel, Type, Fill, Silence, SA
<1> QED
  BY <1>1, <1>2, <1>3 DEF Next

\* A commit sends the text of a field that was left, typed since it was entered.
THEOREM OnlyTypedTextIsSent == Spec => SendsWhatWasTyped
<1>1. Init => Entered
  BY FormAssumption DEF Init, Entered
<1>2. FormTypeOK /\ Entered /\ [Next]_vars => Entered'
  BY EnteredKept
<1>3. Entered /\ [Next]_vars =>
        [sent'.kind = "SV" =>
            \A f \in sent'.of : focus # f /\ (f \in ended
                \/ (typed[f] /\ sent'.values[f] = buffer[f]))]_vars
  <2> SUFFICES ASSUME Entered, Next, sent'.kind = "SV"
               PROVE  \A f \in sent'.of : focus # f /\ (f \in ended
                         \/ (typed[f] /\ sent'.values[f] = buffer[f]))
    OBVIOUS
  <2>1. PICK f \in Fields : Commit(f)
    BY WhoSends
  <2>2. sent'.of = {f} /\ sent'.values[f] = buffer[f] /\ focus # f /\ dirty[f]
    BY <2>1 DEF Commit, SV
  <2> QED
    BY <2>2 DEF Entered
<1> QED
  BY <1>1, <1>2, <1>3, FormTypes, PTL DEF Spec, SendsWhatWasTyped

\* A Save and a group's choice send along what the datastore holds.
THEOREM SaveRevertsNothing == Spec => RevertsNothing
<1>1. Init => Opened
  BY DEF Init, Opened
<1>2. Opened /\ [Next]_vars => Opened'
  BY OpenedKept
<1>3. IInv /\ Opened /\ [Next]_vars =>
        [sent'.kind = "SA" =>
            IF sent'.of = {} THEN editingCount > 0 \/ sent'.values = objects[Current]
            ELSE dialog = Current =>
                     \A n \in Fields : sent'.values[n] = objects[Current][n]]_vars
  <2> SUFFICES ASSUME IInv, Opened, Next, sent'.kind = "SA"
               PROVE  IF sent'.of = {}
                      THEN editingCount > 0 \/ sent'.values = objects[Current]
                      ELSE dialog = Current =>
                               \A n \in Fields : sent'.values[n] = objects[Current][n]
    OBVIOUS
  <2>1. editingCount \in Nat /\ (editingCount = 0 => currentValues = objects[Current])
    BY DEF IInv, FormTypeOK, Safe, ShowsStore
  <2>2. CASE SendGroupChoice
    BY <2>1, <2>2 DEF SendGroupChoice, SA
  <2>3. CASE Save
    <3>1. /\ sent'.of = Formable
          /\ sent'.values = [n \in Editable |->
                IF n \in Formable THEN form[n] ELSE objects[dialog][n]]
      BY <2>3 DEF Save, SA
    <3>2. Formable # {}
      BY <2>3 DEF Save, Opened
    <3>3. \A n \in Fields : n \in Editable /\ n \notin Formable
      BY FormAssumption DEF Editable
    <3> QED
      BY <3>1, <3>2, <3>3
  <2> QED
    BY <2>2, <2>3, WhoSends
<1> QED
  BY <1>1, <1>2, <1>3, IInvHolds, PTL DEF Spec, RevertsNothing

=============================================================================
