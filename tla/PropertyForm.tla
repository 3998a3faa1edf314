----------------------------- MODULE PropertyForm -----------------------------
(***************************************************************************)
(* One property on the screen (src/front/js/render.js): its inline fields, *)
(* its "Edit property" dialog and the buttons of an exclusive group, while *)
(* the server goes on sending values of it.                                *)
(*                                                                         *)
(* A property is an object of the datastore.  An "ea" changes the object,  *)
(* an "ap", "aa" or "d" puts another in its place, and what was drawn or   *)
(* opened from the old one keeps it.                                       *)
(***************************************************************************)
EXTENDS Integers, FiniteSets, Sequences

CONSTANTS
    Fields,          \* its directedit elements: free text, edited inline
    Formable,        \* formableElementNames(): edited in the dialog
    Values,
    MaxObjects,      \* bound: objects the property has in the datastore
    MaxEdits,        \* bound: edits begun and not settled
    MaxPushes        \* bound: values the server sends

ASSUME FormAssumption ==
    /\ Fields \cap Formable = {}
    /\ IsFiniteSet(Fields) /\ "none" \notin Fields
    /\ MaxObjects \in Nat \ {0} /\ MaxEdits \in Nat /\ MaxPushes \in Nat

Editable == Fields \cup Formable       \* editableElementNames()

VARIABLES
  (* the datastore *)
    objects,         \* the property's objects, the last is the current one
    pushes,          \* bound
  (* renderProperty() and renderPropertyBody() *)
    drawn,           \* the object it was drawn from
    currentValues,   \* currentValues: its values at that moment
    editingCount,    \* editingCount
    began, dirty,    \* of each field
    buffer,          \* fieldBuffer: what each field shows
  (* the browser *)
    focus,           \* the field with the focus, "none" if it is elsewhere
    left,            \* fields whose deferred "focusout" is due
    settling,        \* how many end() the 500 ms timers still owe
  (* the dialog *)
    dialog,          \* the object it was opened from, 0 if there is none
    form,            \* what it shows
  (* what the last step sent *)
    sent,
  (* history *)
    typed,           \* typed[f]: f was typed in since it was entered
    ended            \* fields whose edit ended since they were drawn

store == <<objects, pushes>>
drawing == <<drawn, currentValues>>
field == <<began, dirty, buffer, typed, ended>>
browser == <<focus, left, settling>>
box == <<dialog, form>>
vars == <<store, drawing, editingCount, field, browser, box, sent>>

Current == Len(objects)
Silence == [kind |-> "none", of |-> {}, values |-> <<>>]
SV(f, v) == [kind |-> "SV", of |-> {f}, values |-> [n \in {f} |-> v]]
SA(of, values) == [kind |-> "SA", of |-> of, values |-> values]

\* draw(): every field is made anew, and what was focused in it loses the focus.
Draw(objs) ==
    /\ drawn' = Len(objs)
    /\ currentValues' = objs[Len(objs)]
    /\ began' = [f \in Fields |-> FALSE] /\ dirty' = [f \in Fields |-> FALSE]
    /\ buffer' = [f \in Fields |-> objs[Len(objs)][f]]
    /\ typed' = [f \in Fields |-> FALSE] /\ ended' = {}
    /\ focus' = "none" /\ left' = {}

KeepDrawing == UNCHANGED <<drawing, buffer, dirty, typed, focus>>

\* Mutant: the end of an edit is not counted when another one goes on.
EndEditForgotten(f) ==
    /\ editingCount' = IF editingCount = 1 THEN 0 ELSE editingCount
    /\ IF editingCount' = 0 THEN Draw(objects)
       ELSE /\ KeepDrawing
            /\ began' = [began EXCEPT ![f] = FALSE] /\ left' = left \ {f}
            /\ ended' = ended \cup {f}

\* editTracker.end(), of a field that is left for good
EndEdit(f) ==
    /\ editingCount' = IF editingCount > 0 THEN editingCount - 1 ELSE 0
    /\ IF editingCount' = 0 THEN Draw(objects)
       ELSE /\ KeepDrawing
            /\ began' = [began EXCEPT ![f] = FALSE] /\ left' = left \ {f}
            /\ ended' = ended \cup {f}

-----------------------------------------------------------------------------
Init ==
    /\ \E values \in [Editable -> Values] :
          objects = <<values>> /\ currentValues = values
          /\ buffer = [f \in Fields |-> values[f]]
    /\ pushes = 0 /\ drawn = 1 /\ editingCount = 0
    /\ began = [f \in Fields |-> FALSE] /\ dirty = [f \in Fields |-> FALSE]
    /\ typed = [f \in Fields |-> FALSE] /\ ended = {}
    /\ focus = "none" /\ left = {} /\ settling = 0
    /\ dialog = 0 /\ form = <<>>
    /\ sent = Silence

(* The server *)

\* Mutant: drawn again at every value, edited or not
ReceivedAtOnce(objs) ==
    /\ pushes < MaxPushes /\ pushes' = pushes + 1
    /\ objects' = objs
    /\ Draw(objs)
    /\ sent' = Silence
    /\ UNCHANGED <<editingCount, settling, box>>

\* The subscription of renderProperty()
Received(objs) ==
    /\ pushes < MaxPushes /\ pushes' = pushes + 1
    /\ objects' = objs
    /\ IF editingCount = 0 THEN Draw(objs) ELSE UNCHANGED <<drawing, field, focus, left>>
    /\ sent' = Silence
    /\ UNCHANGED <<editingCount, settling, box>>

\* _applyElementValues()
Push(n, v) == Received([objects EXCEPT ![Current] = [@ EXCEPT ![n] = v]])

\* _applyPropertyReplace(), and the dumps
Replace(values) == Current < MaxObjects /\ Received(Append(objects, values))

(* The fields *)

\* The "focusin" listener; the field left before hears of it one tick later.
Enter(f) ==
    /\ focus # f /\ dialog = 0
    /\ focus' = f
    /\ left' = IF focus = "none" THEN left ELSE left \cup {focus}
    /\ IF began[f] THEN UNCHANGED <<began, editingCount, typed>>
       ELSE /\ editingCount < MaxEdits
            /\ began' = [began EXCEPT ![f] = TRUE]
            /\ editingCount' = editingCount + 1
            /\ typed' = [typed EXCEPT ![f] = FALSE]
    /\ sent' = Silence
    /\ UNCHANGED <<store, drawing, dirty, buffer, ended, settling, box>>

Leave ==
    /\ focus # "none"
    /\ focus' = "none" /\ left' = left \cup {focus}
    /\ sent' = Silence
    /\ UNCHANGED <<store, drawing, editingCount, field, settling, box>>

\* raisePanel() moves the panel in the document: the focused field is blurred and
\* gets its focus back in the same task.
RaisePanel ==
    /\ focus # "none"
    /\ left' = left \cup {focus}
    /\ sent' = Silence
    /\ UNCHANGED <<store, drawing, editingCount, field, focus, settling, box>>

\* onChange: "dirty" compares with the element of the object that was drawn.
Type(f, v) ==
    /\ focus = f /\ buffer[f] # v
    /\ buffer' = [buffer EXCEPT ![f] = v]
    /\ dirty' = [dirty EXCEPT ![f] = v # objects[drawn][f]]
    /\ typed' = [typed EXCEPT ![f] = TRUE]
    /\ sent' = Silence
    /\ UNCHANGED <<store, drawing, editingCount, began, ended, browser, box>>

\* The deferred "focusout" of a field that has the focus again, or of one that is
\* not edited any more
StillThere(f) ==
    /\ f \in left
    /\ focus = f \/ ~began[f]
    /\ left' = left \ {f}
    /\ sent' = Silence
    /\ UNCHANGED <<store, drawing, editingCount, field, focus, settling, box>>

\* Mutant: a raised panel counts as leaving.
CommitAtOnce(f) ==
    /\ f \in left /\ began[f] /\ dirty[f]
    /\ left' = left \ {f}
    /\ began' = [began EXCEPT ![f] = FALSE] /\ ended' = ended \cup {f}
    /\ settling' = settling + 1
    /\ sent' = SV(f, buffer[f])
    /\ UNCHANGED <<store, drawing, dirty, buffer, typed, focus, box, editingCount>>

\* finish(true): the field is sent, and settles for 500 ms.
Commit(f) ==
    /\ f \in left /\ focus # f /\ began[f] /\ dirty[f]
    /\ left' = left \ {f}
    /\ began' = [began EXCEPT ![f] = FALSE] /\ ended' = ended \cup {f}
    /\ settling' = settling + 1
    /\ sent' = SV(f, buffer[f])
    /\ UNCHANGED <<store, drawing, dirty, buffer, typed, focus, box, editingCount>>

\* finish(false) on leaving
LeaveClean(f) ==
    /\ f \in left /\ focus # f /\ began[f] /\ ~dirty[f]
    /\ EndEdit(f)
    /\ sent' = Silence
    /\ UNCHANGED <<store, settling, box>>

\* finish(false) from Escape or the cross, which keeps the focus in the field
Cancel(f) ==
    /\ focus = f /\ began[f]
    /\ EndEdit(f)
    /\ sent' = Silence
    /\ UNCHANGED <<store, settling, box>>

\* Mutant: what came in during the edit is not drawn at its end.
SettledUndrawn ==
    /\ settling > 0 /\ settling' = settling - 1
    /\ editingCount' = IF editingCount > 0 THEN editingCount - 1 ELSE 0
    /\ sent' = Silence
    /\ UNCHANGED <<store, drawing, field, focus, left, box>>

\* Mutant: the timer of a commit does not end the edit.
SettledForGood ==
    /\ settling > 0 /\ settling' = settling - 1
    /\ sent' = Silence
    /\ UNCHANGED <<store, drawing, field, focus, left, editingCount, box>>

\* The timer of a commit
Settled ==
    /\ settling > 0 /\ settling' = settling - 1
    /\ editingCount' = IF editingCount > 0 THEN editingCount - 1 ELSE 0
    /\ IF editingCount' = 0 THEN Draw(objects) ELSE UNCHANGED <<drawing, field, focus, left>>
    /\ sent' = Silence
    /\ UNCHANGED <<store, box>>

(* The dialog and the group *)

\* openPropertyEditDialog(), from the pencil of what is drawn
OpenDialog ==
    /\ dialog = 0 /\ focus = "none" /\ Formable # {}
    /\ dialog' = drawn
    /\ form' = [n \in Formable |-> objects[drawn][n]]
    /\ sent' = Silence
    /\ UNCHANGED <<store, drawing, editingCount, field, browser>>

Fill(n, v) ==
    /\ dialog # 0 /\ form[n] # v
    /\ form' = [form EXCEPT ![n] = v]
    /\ sent' = Silence
    /\ UNCHANGED <<store, drawing, editingCount, field, browser, dialog>>

\* Mutant: the whole property as it was drawn
SaveAsDrawn ==
    /\ dialog # 0
    /\ sent' = SA(Formable, [n \in Editable |->
                  IF n \in Formable THEN form[n] ELSE currentValues[n]])
    /\ dialog' = 0 /\ form' = <<>>
    /\ UNCHANGED <<store, drawing, editingCount, field, browser>>

Save ==
    /\ dialog # 0
    /\ sent' = SA(Formable, [n \in Editable |->
                  IF n \in Formable THEN form[n] ELSE objects[dialog][n]])
    /\ dialog' = 0 /\ form' = <<>>
    /\ UNCHANGED <<store, drawing, editingCount, field, browser>>

Dismiss ==
    /\ dialog # 0 /\ dialog' = 0 /\ form' = <<>>
    /\ sent' = Silence
    /\ UNCHANGED <<store, drawing, editingCount, field, browser>>

\* sendGroupChoice(): the chosen button is left out, it is not among Editable.
SendGroupChoice ==
    /\ dialog = 0 /\ focus = "none"
    /\ sent' = SA({}, currentValues)
    /\ UNCHANGED <<store, drawing, editingCount, field, browser, box>>

-----------------------------------------------------------------------------
Server ==
    \/ \E n \in Editable, v \in Values : Push(n, v)
    \/ \E values \in [Editable -> Values] : Replace(values)

Deferred == Settled \/ \E f \in Fields : StillThere(f) \/ Commit(f) \/ LeaveClean(f)

User ==
    \/ Leave \/ RaisePanel \/ OpenDialog \/ Save \/ Dismiss \/ SendGroupChoice
    \/ \E f \in Fields : Enter(f) \/ Cancel(f) \/ \E v \in Values : Type(f, v)
    \/ \E n \in Formable, v \in Values : Fill(n, v)

Next == Server \/ Deferred \/ User

Spec == Init /\ [][Next]_vars

\* The browser runs its timers.
FairSpec == Spec /\ WF_vars(Settled)
                 /\ \A f \in Fields : WF_vars(StillThere(f) \/ Commit(f) \/ LeaveClean(f))

-----------------------------------------------------------------------------
(* Correctness *)

\* The members have the types the code gives them.
FormTypeOK ==
    /\ objects \in Seq([Editable -> Values])
    /\ drawn \in 1..Current /\ dialog \in 0..Current
    /\ currentValues \in [Editable -> Values]
    /\ began \in [Fields -> BOOLEAN] /\ dirty \in [Fields -> BOOLEAN]
    /\ buffer \in [Fields -> Values]
    /\ editingCount \in Nat /\ settling \in Nat
    /\ focus \in Fields \cup {"none"} /\ left \subseteq Fields

\* Every begin() gets its end(): from a cancel, from leaving a field unchanged, or
\* from the timer of a commit, whatever the order of focus events, timers, raised
\* panels and redraws (editTracker and finish()).
CountIsExact == editingCount = Cardinality({f \in Fields : began[f]}) + settling

\* When nobody edits, the screen shows what the datastore holds.
ShowsStore ==
    editingCount = 0 =>
        /\ drawn = Current /\ currentValues = objects[Current]
        /\ \A f \in Fields : buffer[f] = objects[Current][f] /\ ~dirty[f]

\* A live push never overwrites what is being typed, nor takes the focus from it,
\* and neither does the end of another field's edit (renderProperty()).
KeepsTyping ==
    [][objects' # objects \/ settling' # settling =>
          \A f \in Fields : began[f] /\ focus = f
              => buffer'[f] = buffer[f] /\ began'[f] /\ focus' = f]_vars

\* A field is sent once it is left, also when its panel was raised meanwhile, and
\* only with a text typed in it since it was entered.  Not so for a field that is
\* entered again and was not redrawn after its commit or cancel, because another
\* one was edited or settling: "dirty" is still set.
SendsWhatWasTyped ==
    [][sent'.kind = "SV" =>
          \A f \in sent'.of : focus # f /\ (f \in ended \/ (typed[f] /\ sent'.values[f] = buffer[f]))]_vars

\* What a Save or the choice of a group sends along with its own elements is what
\* the datastore holds at that moment.  Not so for a dialog whose property was
\* replaced, nor for a choice made while a field settles.
RevertsNothing ==
    [][sent'.kind = "SA" =>
          IF sent'.of = {} THEN editingCount > 0 \/ sent'.values = objects[Current]
          ELSE dialog = Current =>
                   \A n \in Fields : sent'.values[n] = objects[Current][n]]_vars

\* Once the fields are left, the property follows the server again.
RedrawComes == focus = "none" ~> editingCount = 0 \/ focus # "none"
=============================================================================
