------------------------- MODULE AdminWindowProofs -------------------------
(* Theorems about AdminWindow, for every value of its constants.            *)
EXTENDS AdminWindow, TLAPS, FiniteSetTheorems, SequenceTheorems

-----------------------------------------------------------------------------
\* Ids are handed out in order, and no list shows one before.
TablesTyped ==
    /\ last \in Dicts
    /\ dict \in [Dicts -> Names \cup {Absent}]
    /\ list \in [Dicts -> Names \cup {Absent}]
    /\ \A d \in Dicts : d > last => dict[d] = Absent /\ list[d] = Absent

\* A dictionary that was seen under a name has the name or is gone.
SeenAs(d, name) == d \in 1..last /\ dict[d] \in {name, Absent}

\* What the list, the question and the form show was seen, and the server
\* deletes only what it was asked to.
ListWasSeen == \A d \in Dicts : list[d] # Absent => SeenAs(d, list[d])
QuestionWasSeen == \A a \in asking : SeenAs(a.id, a.name)
FormWasSeen ==
    dialog["dict"].kind = "edit" => SeenAs(dialog["dict"].row[2], dialog["dict"].name)
DeletesWhatWasAsked == \A q \in deleting : \E a \in asking : a.id = q.id

WindowInv ==
    /\ TablesTyped /\ dialog \in [Pages -> Dialog]
    /\ ListWasSeen /\ QuestionWasSeen /\ FormWasSeen /\ DeletesWhatWasAsked

-----------------------------------------------------------------------------
LEMMA DictsAreNumbers ==
    /\ MaxDict \in Nat /\ 1 \in Dicts /\ Dicts \subseteq Nat
    /\ \A d : d \in Dicts <=> d \in Nat /\ 1 <= d /\ d <= MaxDict
  BY BoundsOK DEF Dicts

LEMMA InitWindow == Init => WindowInv
  <1> SUFFICES ASSUME Init PROVE WindowInv
    OBVIOUS
  <1>1. PICK n \in Names : dict = [NoList EXCEPT ![1] = n]
    BY DEF Init
  <1>2. /\ list = [d \in Dicts |-> Absent] /\ last = 1
        /\ dict = [d \in Dicts |-> IF d = 1 THEN n ELSE Absent]
    BY <1>1, DictsAreNumbers DEF Init, NoList
  <1>3. TablesTyped
    BY <1>2, DictsAreNumbers DEF TablesTyped
  <1>4. dialog = [p \in Pages |-> NoDialog] /\ asking = {} /\ deleting = {}
    BY DEF Init
  <1>5. dialog \in [Pages -> Dialog] /\ dialog["dict"].kind = "none"
    BY <1>4 DEF Dialog, NoDialog, Pages
  <1>. QED
    BY <1>2, <1>3, <1>4, <1>5
    DEF WindowInv, ListWasSeen, QuestionWasSeen, FormWasSeen, DeletesWhatWasAsked

\* A step that takes dictionaries away or adds one under the next id.
DictsGo ==
    /\ last' \in Dicts /\ last <= last'
    /\ dict' \in [Dicts -> Names \cup {Absent}]
    /\ \A d \in Dicts : dict'[d] \in {dict[d], Absent} \/ d > last
    /\ \A d \in Dicts : d > last' => dict'[d] = Absent

\* What was seen before such a step is seen after it.
LEMMA SeenStays ==
    ASSUME TablesTyped, DictsGo, NEW d, NEW name, SeenAs(d, name)
    PROVE  d \in 1..last' /\ dict'[d] \in {name, Absent}
  BY DictsAreNumbers DEF TablesTyped, DictsGo, SeenAs

LEMMA NothingGoes ==
    ASSUME TablesTyped, UNCHANGED <<dict, last>>
    PROVE  DictsGo
  BY DictsAreNumbers DEF TablesTyped, DictsGo

\* Steps that load no list and no form: what is shown is shown no more, or as
\* it was.
LEMMA WindowKept ==
    ASSUME WindowInv, DictsGo, list' \in {list, NoList},
           dialog' \in [Pages -> Dialog],
           dialog'["dict"].kind = "edit" =>
              /\ dialog["dict"].kind = "edit"
              /\ dialog'["dict"].row = dialog["dict"].row
              /\ dialog'["dict"].name = dialog["dict"].name,
           asking' \subseteq asking, deleting' \subseteq deleting,
           asking' = asking \/ deleting' = {}
    PROVE  WindowInv'
  <1>1. TablesTyped'
    BY DictsAreNumbers DEF WindowInv, TablesTyped, DictsGo, NoList
  <1>2. ListWasSeen'
    <2>1. CASE list' = list
      BY <2>1, SeenStays DEF WindowInv, ListWasSeen, SeenAs
    <2>2. CASE list' = NoList
      BY <2>2 DEF ListWasSeen, NoList
    <2>. QED
      BY <2>1, <2>2
  <1>3. QuestionWasSeen'
    BY SeenStays DEF WindowInv, QuestionWasSeen, SeenAs
  <1>4. FormWasSeen'
    BY SeenStays DEF WindowInv, FormWasSeen, SeenAs
  <1>5. DeletesWhatWasAsked'
    BY DEF WindowInv, DeletesWhatWasAsked
  <1>. QED
    BY <1>1, <1>2, <1>3, <1>4, <1>5 DEF WindowInv

-----------------------------------------------------------------------------
(* Tabs, lists and forms *)

LEMMA TabsKeepWindow ==
    ASSUME WindowInv, NEW t, ChangeTabs(t)
    PROVE  WindowInv'
  <1>1. DictsGo
    BY NothingGoes DEF ChangeTabs, server, WindowInv
  <1>2. dialog' = [p \in Pages |->
          IF p \notin t.frames THEN NoDialog
          ELSE IF dialog[p].kind \in {"loading", "edit"}
          THEN [dialog[p] EXCEPT !.alone = @ /\ t.shown \subseteq {p, Home}]
          ELSE dialog[p]]
    BY DEF ChangeTabs
  <1>3. ASSUME NEW p \in Pages
        PROVE  /\ dialog'[p] \in Dialog
               /\ dialog'[p].kind = "edit" =>
                     /\ dialog[p].kind = "edit" /\ dialog'[p].row = dialog[p].row
                     /\ dialog'[p].name = dialog[p].name
    <2>1. dialog[p] \in Dialog
      BY DEF WindowInv
    <2>2. CASE p \notin t.frames
      BY <1>2, <2>2 DEF Dialog, NoDialog
    <2>3. CASE p \in t.frames /\ dialog[p].kind = "loading"
      <3>1. dialog[p] \in [kind: {"loading"}, row: Rows, alone: BOOLEAN]
        BY <2>1, <2>3 DEF Dialog, NoDialog
      <3>2. dialog'[p] = [dialog[p] EXCEPT
                             !.alone = dialog[p].alone /\ t.shown \subseteq {p, Home}]
        BY <1>2, <2>3
      <3>. DEFINE alone == dialog[p].alone /\ t.shown \subseteq {p, Home}
      <3>3. alone \in BOOLEAN
        OBVIOUS
      <3>. HIDE DEF alone
      <3>4. [dialog[p] EXCEPT !.alone = alone]
               \in [kind: {"loading"}, row: Rows, alone: BOOLEAN]
        BY <3>1, <3>3
      <3>. QED
        BY <3>2, <3>4 DEF Dialog, alone
    <2>4. CASE p \in t.frames /\ dialog[p].kind = "edit"
      <3> DEFINE Forms == [kind: {"edit"}, row: Rows, alone: BOOLEAN,
                           name: Names \cup {Absent}]
      <3>1. dialog[p] \in Forms
        BY <2>1, <2>4 DEF Dialog, NoDialog
      <3>2. dialog'[p] = [dialog[p] EXCEPT
                             !.alone = dialog[p].alone /\ t.shown \subseteq {p, Home}]
        BY <1>2, <2>4
      <3>. DEFINE alone == dialog[p].alone /\ t.shown \subseteq {p, Home}
      <3>3. alone \in BOOLEAN
        OBVIOUS
      <3>. HIDE DEF alone
      <3>4. /\ [dialog[p] EXCEPT !.alone = alone] \in Forms
            /\ [dialog[p] EXCEPT !.alone = alone].row = dialog[p].row
            /\ [dialog[p] EXCEPT !.alone = alone].name = dialog[p].name
        BY <3>1, <3>3
      <3>. QED
        BY <2>4, <3>2, <3>4 DEF Dialog, alone
    <2>5. CASE p \in t.frames /\ dialog[p].kind \notin {"loading", "edit"}
      BY <1>2, <2>1, <2>5
    <2>. QED
      BY <2>2, <2>3, <2>4, <2>5
  <1>4. dialog' \in [Pages -> Dialog]
    BY <1>2, <1>3
  <1>5. list' \in {list, NoList} /\ asking' = asking /\ deleting' = deleting
    BY DEF ChangeTabs
  <1>6. "dict" \in Pages
    BY DEF Pages
  <1>. QED
    BY <1>1, <1>3, <1>4, <1>5, <1>6, WindowKept

LEMMA ListsKeepWindow ==
    ASSUME WindowInv
    PROVE  /\ ListArrives => WindowInv'
           /\ Search => WindowInv'
           /\ OpenAdd => WindowInv'
           /\ \A row \in Rows : OpenEdit(row) => WindowInv'
           /\ \A p \in Pages : CloseForm(p) => WindowInv'
  <1>. USE DEF server, page
  <1>0. dialog \in [Pages -> Dialog] /\ "dict" \in Pages /\ TablesTyped
    BY DEF WindowInv, Pages
  <1>1. ASSUME ListArrives PROVE WindowInv'
    <2>1. /\ list' = dict
          /\ UNCHANGED <<dict, last, dialog, asking, deleting>>
      BY <1>1 DEF ListArrives
    <2>2. TablesTyped'
      BY <1>0, <2>1 DEF TablesTyped
    <2>3. ListWasSeen'
      BY <1>0, <2>1, DictsAreNumbers DEF TablesTyped, ListWasSeen, SeenAs
    <2>. QED
      BY <2>1, <2>2, <2>3
      DEF WindowInv, QuestionWasSeen, FormWasSeen, DeletesWhatWasAsked, SeenAs
  <1>2. ASSUME Search PROVE WindowInv'
    BY <1>0, <1>2, NothingGoes, WindowKept DEF Search
  <1>3. ASSUME NEW p \in Pages, NEW form \in Dialog, form.kind # "edit",
               dialog' = [dialog EXCEPT ![p] = form],
               UNCHANGED <<list, asking, deleting, dict, last>>
        PROVE  WindowInv'
    <2>1. DictsGo
      BY <1>0, <1>3, NothingGoes
    <2>2. dialog' \in [Pages -> Dialog]
      BY <1>0, <1>3
    <2>3. dialog'["dict"].kind = "edit" => dialog'["dict"] = dialog["dict"]
      BY <1>0, <1>3
    <2>. QED
      BY <1>3, <2>1, <2>2, <2>3, WindowKept
  <1>4. ASSUME OpenAdd PROVE WindowInv'
    <2> DEFINE form == [kind |-> "add"]
    <2>1. form \in Dialog /\ form.kind = "add"
      BY DEF Dialog
    <2>2. dialog' = [dialog EXCEPT !["dict"] = form]
      BY <1>4 DEF OpenAdd
    <2>. HIDE DEF form
    <2>. QED
      BY <1>0, <1>3, <1>4, <2>1, <2>2 DEF OpenAdd
  <1>5. ASSUME NEW row \in Rows, OpenEdit(row) PROVE WindowInv'
    <2> DEFINE alone == loads = {}
               form == [kind |-> "loading", row |-> row, alone |-> alone]
    <2>1. alone \in BOOLEAN
      OBVIOUS
    <2>2. row[1] \in Pages
      BY DEF Rows, Pages
    <2>3. dialog' = [dialog EXCEPT ![row[1]] = form]
      BY <1>5 DEF OpenEdit
    <2>. HIDE DEF alone
    <2>4. form \in Dialog /\ form.kind = "loading"
      BY <2>1 DEF Dialog
    <2>. QED
      BY <1>3, <1>5, <2>2, <2>3, <2>4 DEF OpenEdit
  <1>6. ASSUME NEW p \in Pages, CloseForm(p) PROVE WindowInv'
    BY <1>3, <1>6 DEF CloseForm, Dialog, NoDialog
  <1>. QED
    BY <1>1, <1>2, <1>4, <1>5, <1>6

\* The form that arrives shows the dictionary as it is then.
LEMMA FormKeepsWindow ==
    ASSUME WindowInv, NEW row \in Rows, FormArrives(row)
    PROVE  WindowInv'
  <1>0. dialog \in [Pages -> Dialog] /\ "dict" \in Pages /\ TablesTyped
    BY DEF WindowInv, Pages
  <1>1. row[1] \in Pages
    BY DEF Rows, Pages
  <1> DEFINE open == dialog[row[1]]
             form == Answered(open, row)
  <1>2. /\ dialog' = [dialog EXCEPT ![row[1]] = form]
        /\ UNCHANGED <<list, asking, deleting, dict, last>>
    BY DEF FormArrives
  <1>3. open \in Dialog
    BY <1>0, <1>1
  <1>4. CASE open.kind # "loading" \/ open.row # row
    <2>1. dialog' = dialog
      BY <1>0, <1>2, <1>4 DEF Answered
    <2>. QED
      BY <1>0, <1>2, <2>1, NothingGoes, WindowKept
  <1>5. CASE open.kind = "loading" /\ open.row = row /\ Exists(row)
    <2>1. form = [kind |-> "edit", row |-> row, alone |-> open.alone,
                  name |-> NameOf(row)]
      BY <1>5 DEF Answered, NewForm
    <2>2. open.alone \in BOOLEAN
      BY <1>3, <1>5 DEF Dialog, NoDialog
    <2>3. NameOf(row) \in Names \cup {Absent}
      BY <1>0 DEF NameOf, Rows, TablesTyped
    <2>4. form \in Dialog
      <3> DEFINE name == NameOf(row)
                 alone == open.alone
      <3>. HIDE DEF name, alone
      <3>1. [kind |-> "edit", row |-> row, alone |-> alone, name |-> name] \in Dialog
        BY <2>2, <2>3 DEF Dialog, name, alone
      <3>. QED
        BY <2>1, <3>1 DEF name, alone
    <2>5. dialog' \in [Pages -> Dialog]
      BY <1>0, <1>1, <1>2, <2>4
    <2>6. CASE row[1] = "dict"
      <3>1. row[2] \in Dicts /\ dict[row[2]] # Absent
        BY <1>5, <2>6 DEF Exists, RowsOf
      <3>2. row[2] \in 1..last
        BY <1>0, <3>1, DictsAreNumbers DEF TablesTyped
      <3>3. /\ dialog'["dict"].row[2] = row[2]
            /\ dialog'["dict"].name = dict[row[2]]
        BY <1>0, <1>2, <2>1, <2>6 DEF NameOf
      <3>4. FormWasSeen'
        BY <1>2, <3>2, <3>3 DEF FormWasSeen, SeenAs
      <3>. QED
        BY <1>2, <2>5, <3>4
        DEF WindowInv, TablesTyped, ListWasSeen, QuestionWasSeen,
            DeletesWhatWasAsked, SeenAs
    <2>7. CASE row[1] # "dict"
      <3>1. dialog'["dict"] = dialog["dict"]
        BY <1>0, <1>2, <2>7
      <3>. QED
        BY <1>0, <1>2, <2>5, <3>1, NothingGoes, WindowKept
    <2>. QED
      BY <2>6, <2>7
  <1>6. CASE open.kind = "loading" /\ open.row = row /\ ~Exists(row)
    <2>1. form = [kind |-> "failed"]
      BY <1>6 DEF Answered
    <2>2. form \in Dialog
      BY <2>1 DEF Dialog
    <2>3. dialog' \in [Pages -> Dialog]
      BY <1>0, <1>1, <1>2, <2>2
    <2>4. dialog'["dict"].kind = "edit" => dialog'["dict"] = dialog["dict"]
      BY <1>0, <1>2, <2>1
    <2>. QED
      BY <1>0, <1>2, <2>3, <2>4, NothingGoes, WindowKept
  <1>. QED
    BY <1>4, <1>5, <1>6

-----------------------------------------------------------------------------
(* Dictionaries *)

LEMMA AddedGoes ==
    ASSUME TablesTyped, last < MaxDict, NEW n \in Names, NEW ok \in BOOLEAN,
           NEW t \in Added(dict, n, ok), dict' = t, last' = last + 1
    PROVE  /\ DictsGo
           /\ \A d \in Dicts : dict[d] # Absent => dict'[d] = dict[d]
  <1>1. t = [dict EXCEPT ![last + 1] = n]
    BY DEF Added
  <1>2. last + 1 \in Dicts /\ dict[last + 1] = Absent
    BY DictsAreNumbers DEF TablesTyped
  <1>. QED
    BY <1>1, <1>2, DictsAreNumbers DEF TablesTyped, DictsGo

LEMMA EditedGoes ==
    ASSUME TablesTyped, last < MaxDict, NEW e, NEW n \in Names,
           NEW ok \in BOOLEAN, NEW t \in Edited(dict, e, n, ok),
           dict' = t, last' = last + 1
    PROVE  /\ DictsGo
           /\ \A d \in Dicts \ {e} : dict[d] # Absent => dict'[d] = dict[d]
  <1> DEFINE left == [dict EXCEPT ![e] = Absent]
  <1>1. /\ left \in [Dicts -> Names \cup {Absent}]
        /\ \A d \in Dicts : left[d] \in {dict[d], Absent}
        /\ \A d \in Dicts \ {e} : left[d] = dict[d]
    BY DEF TablesTyped
  <1>2. t = [left EXCEPT ![last + 1] = n]
    BY DEF Edited, Added, Deleted
  <1>. HIDE DEF left
  <1>3. last + 1 \in Dicts /\ dict[last + 1] = Absent
    BY DictsAreNumbers DEF TablesTyped
  <1>4. \A d \in Dicts : dict'[d] = IF d = last + 1 THEN n ELSE left[d]
    BY <1>1, <1>2
  <1>5. dict' \in [Dicts -> Names \cup {Absent}]
    BY <1>1, <1>2
  <1>6. \A d \in Dicts : d > last + 1 => dict'[d] = Absent
    BY <1>1, <1>4, DictsAreNumbers DEF TablesTyped
  <1>7. \A d \in Dicts : dict'[d] \in {dict[d], Absent} \/ d > last
    BY <1>1, <1>4, DictsAreNumbers DEF TablesTyped
  <1>. QED
    BY <1>1, <1>3, <1>4, <1>5, <1>6, <1>7, DictsAreNumbers
    DEF TablesTyped, DictsGo

LEMMA DeletedGoes ==
    ASSUME TablesTyped, NEW e, dict' = Deleted(dict, e), last' = last
    PROVE  /\ DictsGo
           /\ \A d \in Dicts \ {e} : dict'[d] = dict[d]
  <1> DEFINE left == [dict EXCEPT ![e] = Absent]
  <1>1. /\ left \in [Dicts -> Names \cup {Absent}]
        /\ \A d \in Dicts : left[d] \in {dict[d], Absent}
        /\ \A d \in Dicts \ {e} : left[d] = dict[d]
    BY DEF TablesTyped
  <1>2. dict' = left
    BY DEF Deleted
  <1>. HIDE DEF left
  <1>3. \A d \in Dicts : d > last => dict'[d] = Absent
    BY <1>1, <1>2 DEF TablesTyped
  <1>4. last' \in Dicts /\ last <= last'
    BY DictsAreNumbers DEF TablesTyped
  <1>5. DictsGo
    BY <1>1, <1>2, <1>3, <1>4 DEF DictsGo
  <1>. QED
    BY <1>1, <1>2, <1>5

\* What a request of the window does to the dictionaries.
LEMMA SubmitGoes ==
    ASSUME WindowInv, NEW data \in CollectedData,
           SubmitAdd(data) \/ SubmitEdit(data)
    PROVE  /\ DictsGo
           /\ \A d \in Dicts : dict[d] # Absent /\ dict'[d] # dict[d] =>
                 /\ dialog["dict"].kind = "edit"
                 /\ d = dialog["dict"].row[2]
           /\ [what |-> "exception"] \in tasks' \ tasks => dict' = dict
           /\ UNCHANGED <<list, asking, deleting>>
           /\ dialog' = dialog \/ dialog' = [dialog EXCEPT !["dict"] = NoDialog]
  <1>0. /\ data.name \in Names /\ data.ok \in BOOLEAN /\ last < MaxDict
        /\ TablesTyped
    BY DEF CollectedData, SubmitAdd, SubmitEdit, WindowInv
  <1>1. ASSUME NEW result, SubmitDict(result)
        PROVE  /\ UNCHANGED <<list, asking, deleting>>
               /\ dialog' = dialog \/ dialog' = [dialog EXCEPT !["dict"] = NoDialog]
               /\ \/ \E t \in result : dict' = t /\ last' = last + 1
                  \/ dict' = dict /\ last' = last
               /\ [what |-> "exception"] \in tasks' \ tasks => dict' = dict
    <2>1. CASE result = {} /\ dict' = RolledBack(dict) /\ Refused
      BY <1>1, <2>1 DEF SubmitDict, RolledBack, Refused
    <2>2. ASSUME NEW t \in result, dict' = t, last' = last + 1, FormDone("dict"),
                 Log("saved", NoRow, NoRow, FALSE)
          PROVE  /\ dialog' = [dialog EXCEPT !["dict"] = NoDialog]
                 /\ [what |-> "exception"] \notin tasks' \ tasks
      <3> DEFINE task == [what |-> "saved", row |-> NoRow, about |-> NoRow,
                          alone |-> FALSE]
      <3>1. tasks' = tasks \cup {task} /\ task.what = "saved"
        BY <2>2 DEF Log
      <3>2. task # [what |-> "exception"]
        OBVIOUS
      <3>. QED
        BY <2>2, <3>1, <3>2 DEF FormDone
    <2>3. UNCHANGED <<list, asking, deleting>>
      BY <1>1 DEF SubmitDict
    <2>. QED
      BY <1>1, <2>1, <2>2, <2>3 DEF SubmitDict, RolledBack, Refused
  <1>2. CASE SubmitAdd(data)
    <2>1. SubmitDict(Added(dict, data.name, data.ok))
      BY <1>2 DEF SubmitAdd
    <2>2. CASE dict' = dict /\ last' = last
      BY <1>0, <1>1, <2>1, <2>2, NothingGoes
    <2>3. CASE \E t \in Added(dict, data.name, data.ok) : dict' = t /\ last' = last + 1
      BY <1>0, <1>1, <2>1, <2>3, AddedGoes
    <2>. QED
      BY <1>1, <2>1, <2>2, <2>3
  <1>3. CASE SubmitEdit(data)
    <2>0. PICK e : e = dialog["dict"].row[2]
      OBVIOUS
    <2>1. /\ SubmitDict(Edited(dict, e, data.name, data.ok))
          /\ dialog["dict"].kind = "edit"
      BY <1>3, <2>0 DEF SubmitEdit, CanSubmit, FormInReach
    <2>2. CASE dict' = dict /\ last' = last
      BY <1>0, <1>1, <2>1, <2>2, NothingGoes
    <2>3. CASE \E t \in Edited(dict, e, data.name, data.ok) :
                  dict' = t /\ last' = last + 1
      <3>1. /\ DictsGo
            /\ \A d \in Dicts \ {e} : dict[d] # Absent => dict'[d] = dict[d]
        BY <1>0, <2>3, EditedGoes
      <3>. QED
        BY <1>1, <2>0, <2>1, <3>1
    <2>. QED
      BY <1>1, <2>1, <2>2, <2>3
  <1>. QED
    BY <1>2, <1>3

LEMMA RequestsKeepWindow ==
    ASSUME WindowInv
    PROVE  /\ \A data \in CollectedData :
                 SubmitAdd(data) \/ SubmitEdit(data) => WindowInv'
           /\ \A ok \in BOOLEAN : SubmitRole(ok) => WindowInv'
           /\ \A d \in Dicts : AskDelete(d) => WindowInv'
           /\ Cancel => WindowInv'
           /\ ConfirmDelete => WindowInv'
           /\ DeleteDict => WindowInv'
  <1>. USE DEF server, page
  <1>0. /\ dialog \in [Pages -> Dialog] /\ "dict" \in Pages /\ "role" \in Pages
        /\ TablesTyped
    BY DEF WindowInv, Pages
  <1>1. NoDialog \in Dialog /\ NoDialog.kind # "edit"
    BY DEF Dialog, NoDialog
  <1>2. ASSUME NEW p \in Pages,
               dialog' = dialog \/ dialog' = [dialog EXCEPT ![p] = NoDialog]
        PROVE  /\ dialog' \in [Pages -> Dialog]
               /\ dialog'["dict"].kind = "edit" => dialog'["dict"] = dialog["dict"]
    BY <1>0, <1>1, <1>2
  <1>3. ASSUME NEW data \in CollectedData, SubmitAdd(data) \/ SubmitEdit(data)
        PROVE  WindowInv'
    <2>1. /\ DictsGo /\ UNCHANGED <<list, asking, deleting>>
          /\ dialog' = dialog \/ dialog' = [dialog EXCEPT !["dict"] = NoDialog]
      BY <1>3, SubmitGoes
    <2>. QED
      BY <1>0, <1>2, <2>1, WindowKept
  <1>4. ASSUME NEW ok \in BOOLEAN, SubmitRole(ok) PROVE WindowInv'
    <2>1. /\ UNCHANGED <<dict, last, list, asking, deleting>>
          /\ dialog' = dialog \/ dialog' = [dialog EXCEPT !["role"] = NoDialog]
      BY <1>4 DEF SubmitRole, FormDone, Refused
    <2>. QED
      BY <1>0, <1>2, <2>1, NothingGoes, WindowKept
  <1>5. ASSUME NEW d \in Dicts, AskDelete(d) PROVE WindowInv'
    <2>1. /\ list[d] # Absent /\ asking' = {[id |-> d, name |-> list[d]]}
          /\ deleting = {} /\ UNCHANGED <<dict, last, list, dialog, deleting>>
      BY <1>5 DEF AskDelete, ListInReach, CanClick
    <2>2. QuestionWasSeen'
      BY <2>1 DEF WindowInv, ListWasSeen, QuestionWasSeen, SeenAs
    <2>. QED
      BY <2>1, <2>2
      DEF WindowInv, TablesTyped, ListWasSeen, FormWasSeen, DeletesWhatWasAsked,
          SeenAs
  <1>6. ASSUME Cancel PROVE WindowInv'
    BY <1>0, <1>6, NothingGoes, WindowKept DEF Cancel
  <1>7. ASSUME ConfirmDelete PROVE WindowInv'
    <2>1. /\ \A q \in deleting' : \E a \in asking : a.id = q.id
          /\ UNCHANGED <<dict, last, list, dialog, asking>>
      BY <1>7 DEF ConfirmDelete
    <2>. QED
      BY <2>1
      DEF WindowInv, TablesTyped, ListWasSeen, QuestionWasSeen, FormWasSeen,
          DeletesWhatWasAsked, SeenAs
  <1>8. ASSUME DeleteDict PROVE WindowInv'
    <2>1. PICK q \in deleting : dict' = Deleted(dict, q.id)
      BY <1>8 DEF DeleteDict
    <2>2. DictsGo
      BY <1>0, <1>8, <2>1, DeletedGoes DEF DeleteDict
    <2>. QED
      BY <1>0, <1>8, <2>2, WindowKept DEF DeleteDict
  <1>. QED
    BY <1>3, <1>4, <1>5, <1>6, <1>7, <1>8

LEMMA OthersKeepWindow ==
    ASSUME WindowInv
    PROVE  /\ OtherChanges => WindowInv'
           /\ \A t \in tasks : RunTask(t) => WindowInv'
           /\ SessionEnds => WindowInv'
           /\ Restart => WindowInv'
  <1>. USE DEF server, page
  <1>0. dialog \in [Pages -> Dialog] /\ "dict" \in Pages /\ TablesTyped
    BY DEF WindowInv, Pages
  <1>1. ASSUME OtherChanges PROVE WindowInv'
    <2>1. DictsGo
      <3>1. last < MaxDict
        BY <1>1 DEF OtherChanges
      <3>2. PICK d \in Dicts, n \in Names :
               \/ \E t \in Edited(dict, d, n, TRUE) : dict' = t /\ last' = last + 1
               \/ \E t \in Added(dict, n, TRUE) : dict' = t /\ last' = last + 1
               \/ dict' = Deleted(dict, d) /\ last' = last
        BY <1>1 DEF OtherChanges
      <3>. QED
        BY <1>0, <3>1, <3>2, EditedGoes, AddedGoes, DeletedGoes
    <2>. QED
      BY <1>0, <1>1, <2>1, WindowKept DEF OtherChanges
  <1>2. ASSUME NEW t \in tasks, RunTask(t) PROVE WindowInv'
    BY <1>0, <1>2, NothingGoes, WindowKept DEF RunTask
  <1>3. ASSUME NEW p \in Pages, dialog[p].kind \in {"loading", "edit"}
        PROVE  LET form == [dialog[p] EXCEPT !.alone = FALSE]
               IN  /\ form \in Dialog /\ form.kind = dialog[p].kind
                   /\ form.row = dialog[p].row
                   /\ dialog[p].kind = "edit" => form.name = dialog[p].name
    <2>1. \/ dialog[p] \in [kind: {"loading"}, row: Rows, alone: BOOLEAN]
          \/ dialog[p] \in [kind: {"edit"}, row: Rows, alone: BOOLEAN,
                            name: Names \cup {Absent}]
      BY <1>0, <1>3 DEF Dialog, NoDialog
    <2>. QED
      BY <2>1 DEF Dialog
  <1>4. ASSUME SessionEnds PROVE WindowInv'
    <2>1. \A p \in Pages : dialog'[p] = IF dialog[p].kind \in {"loading", "edit"}
                               THEN [dialog[p] EXCEPT !.alone = FALSE] ELSE dialog[p]
      BY <1>4 DEF SessionEnds, ForgetAlone
    <2>2. /\ dialog' \in [Pages -> Dialog]
          /\ dialog'["dict"].kind = "edit" =>
                /\ dialog["dict"].kind = "edit"
                /\ dialog'["dict"].row = dialog["dict"].row
                /\ dialog'["dict"].name = dialog["dict"].name
      BY <1>0, <1>3, <1>4, <2>1 DEF SessionEnds, ForgetAlone
    <2>. QED
      BY <1>0, <1>4, <2>2, NothingGoes, WindowKept DEF SessionEnds
  <1>5. ASSUME Restart PROVE WindowInv'
    <2>1. [kind |-> "failed"] \in Dialog
      BY DEF Dialog
    <2>2. dialog' = [p \in Pages |->
             IF dialog[p].kind = "loading" THEN [kind |-> "failed"]
             ELSE IF dialog[p].kind = "edit" THEN [dialog[p] EXCEPT !.alone = FALSE]
             ELSE dialog[p]]
      BY <1>5 DEF Restart
    <2>3. /\ dialog' \in [Pages -> Dialog]
          /\ dialog'["dict"].kind = "edit" =>
                /\ dialog["dict"].kind = "edit"
                /\ dialog'["dict"].row = dialog["dict"].row
                /\ dialog'["dict"].name = dialog["dict"].name
      BY <1>0, <1>3, <2>1, <2>2
    <2>4. asking' \subseteq asking /\ deleting' = {}
      BY <1>5 DEF Restart
    <2>. QED
      BY <1>0, <1>5, <2>3, <2>4, NothingGoes, WindowKept DEF Restart
  <1>. QED
    BY <1>1, <1>2, <1>4, <1>5

LEMMA NextKeepsWindow == WindowInv /\ [Next]_vars => WindowInv'
  <1> SUFFICES ASSUME WindowInv, [Next]_vars PROVE WindowInv'
    OBVIOUS
  <1>1. CASE UNCHANGED vars
    BY <1>1
    DEF vars, WindowInv, TablesTyped, ListWasSeen, QuestionWasSeen, FormWasSeen,
        DeletesWhatWasAsked, SeenAs
  <1>. QED
    BY <1>1, TabsKeepWindow, ListsKeepWindow, FormKeepsWindow,
       RequestsKeepWindow, OthersKeepWindow
    DEF Next, OpenPage, ActivateTab, CloseTab, CloseOtherTabs, CloseAllTabs, Reload

LEMMA AlwaysWindow == Spec => []WindowInv
  BY InitWindow, NextKeepsWindow, PTL DEF Spec

-----------------------------------------------------------------------------
(* What the window does to the dictionaries *)

\* Only the submitted forms, the deletion and the others' requests change the
\* dictionaries, and the others leave no task.
LEMMA WhoChangesDicts ==
    ASSUME [Next]_vars, dict' # dict
    PROVE  \/ \E data \in CollectedData : SubmitAdd(data) \/ SubmitEdit(data)
           \/ DeleteDict
           \/ tasks' = tasks
  <1>. USE DEF server, page
  <1>1. ~UNCHANGED vars
    BY DEF vars
  <1>2. ASSUME NEW t PROVE ~ChangeTabs(t)
    BY DEF ChangeTabs
  <1>3. CASE ListArrives \/ Search \/ OpenAdd
    BY <1>3 DEF ListArrives, Search, OpenAdd
  <1>4. CASE \E row \in Rows : OpenEdit(row) \/ FormArrives(row)
    BY <1>4 DEF OpenEdit, FormArrives
  <1>5. CASE \E p \in Pages : CloseForm(p)
    BY <1>5 DEF CloseForm
  <1>6. CASE \E ok \in BOOLEAN : SubmitRole(ok)
    BY <1>6 DEF SubmitRole
  <1>7. CASE (\E d \in Dicts : AskDelete(d)) \/ Cancel \/ ConfirmDelete
    BY <1>7 DEF AskDelete, Cancel, ConfirmDelete
  <1>8. CASE OtherChanges
    BY <1>8 DEF OtherChanges
  <1>9. CASE (\E t \in tasks : RunTask(t)) \/ SessionEnds \/ Restart
    BY <1>9 DEF RunTask, SessionEnds, Restart
  <1>. QED
    BY <1>1, <1>2, <1>3, <1>4, <1>5, <1>6, <1>7, <1>8, <1>9
    DEF Next, OpenPage, ActivateTab, CloseTab, CloseOtherTabs, CloseAllTabs, Reload

\* What the window takes out of sys_dict is what its user was shown: the row
\* and the name of the question or of the form, which no other request can have
\* changed since, as editing gives a dictionary a new id (dict.js,
\* DictServiceImpl.editDict, delteDict).
THEOREM RemovesAlwaysShown == Spec => RemovesOnlyWhatWasShown
  <1> DEFINE Shown(d) ==
        \/ \E a \in asking : a.id = d /\ a.name = dict[d]
        \/ /\ dialog["dict"].kind = "edit" /\ dialog["dict"].row[2] = d
           /\ dialog["dict"].name = dict[d]
  <1>1. ASSUME WindowInv, [Next]_vars, NEW d \in Dicts, dict[d] # Absent,
               dict'[d] # dict[d], tasks' # tasks
        PROVE  Shown(d)
    <2>1. CASE \E data \in CollectedData : SubmitAdd(data) \/ SubmitEdit(data)
      <3>1. dialog["dict"].kind = "edit" /\ d = dialog["dict"].row[2]
        BY <1>1, <2>1, SubmitGoes
      <3>. QED
        BY <1>1, <3>1 DEF WindowInv, FormWasSeen, SeenAs
    <2>2. CASE DeleteDict
      <3>1. PICK q \in deleting : dict' = Deleted(dict, q.id) /\ last' = last
        BY <2>2 DEF DeleteDict
      <3>2. d = q.id
        BY <1>1, <3>1, DeletedGoes DEF WindowInv
      <3>3. PICK a \in asking : a.id = q.id
        BY <1>1 DEF WindowInv, DeletesWhatWasAsked
      <3>. QED
        BY <1>1, <3>2, <3>3 DEF WindowInv, QuestionWasSeen, SeenAs
    <2>. QED
      BY <1>1, <2>1, <2>2, WhoChangesDicts
  <1>2. WindowInv /\ [Next]_vars =>
          [\A d \in Dicts :
             (dict[d] # Absent /\ dict'[d] # dict[d] /\ tasks' # tasks) =>
                Shown(d)]_vars
    BY <1>1
  <1>. QED
    BY <1>2, AlwaysWindow, PTL DEF Spec, RemovesOnlyWhatWasShown

\* A request of the window that is refused changes no dictionary: what the edit
\* deleted is there again (DictServiceImpl, @Transactional).
THEOREM RefusedAlwaysHarmless == Spec => RefusedChangesNothing
  <1>1. ASSUME WindowInv, [Next]_vars,
               [what |-> "exception"] \in tasks' \ tasks
        PROVE  dict' = dict
    <2>1. CASE \E data \in CollectedData : SubmitAdd(data) \/ SubmitEdit(data)
      BY <1>1, <2>1, SubmitGoes
    <2>2. ~DeleteDict
      <3> SUFFICES ASSUME DeleteDict PROVE FALSE
        OBVIOUS
      <3>1. PICK q \in deleting :
              Log("deleted", <<"name", q.id>>, holder, q.alone)
        BY DEF DeleteDict
      <3> DEFINE task == [what |-> "deleted", row |-> <<"name", q.id>>,
                          about |-> holder, alone |-> q.alone]
      <3>2. tasks' = tasks \cup {task} /\ task.what = "deleted"
        BY <3>1 DEF Log
      <3>3. [what |-> "exception"] # task
        OBVIOUS
      <3>. QED
        BY <1>1, <3>2, <3>3
    <2>. QED
      BY <1>1, <2>1, <2>2, WhoChangesDicts
  <1>2. WindowInv /\ [Next]_vars =>
          [[what |-> "exception"] \in tasks' \ tasks => dict' = dict]_vars
    BY <1>1
  <1>. QED
    BY <1>2, AlwaysWindow, PTL DEF Spec, RefusedChangesNothing
-----------------------------------------------------------------------------
(* The bar *)

\* The bar without the tab at i.
LEMMA BarWithout ==
    ASSUME NEW order \in Seq(Page), NEW i \in 1..Len(order), IsInjective(order)
    PROVE  /\ RemoveAt(order, i) \in Seq(Page)
           /\ IsInjective(RemoveAt(order, i))
           /\ ToSet(RemoveAt(order, i)) = ToSet(order) \ {order[i]}
           /\ i # 1 => RemoveAt(order, i)[1] = order[1]
  <1> DEFINE left == RemoveAt(order, i)
  <1>1. Len(order) \in Nat /\ i \in Nat /\ DOMAIN order = 1..Len(order)
    OBVIOUS
  <1>2. /\ left \in Seq(Page) /\ Len(left) = Len(order) - 1
        /\ \A k \in 1..(Len(order) - 1) :
              left[k] = IF k < i THEN order[k] ELSE order[k + 1]
    <2> DEFINE length == Len(order)
               before == SubSeq(order, 1, i - 1)
               after == SubSeq(order, i + 1, length)
    <2>0. length \in Nat /\ i \in 1..length /\ \A k \in 1..length : order[k] \in Page
      BY <1>1
    <2>. HIDE DEF length
    <2>1. /\ before \in Seq(Page) /\ Len(before) = i - 1
          /\ \A k \in 1..(i - 1) : before[k] = order[k]
      <3>1. 1 \in Int /\ i - 1 \in Int /\ \A k \in 1..(i - 1) : order[k] \in Page
        BY <2>0
      <3>2. /\ before \in Seq(Page)
            /\ Len(before) = IF 1 <= i - 1 THEN i - 1 - 1 + 1 ELSE 0
            /\ \A k \in 1..(i - 1 - 1 + 1) : before[k] = order[1 + k - 1]
        BY <3>1, SubSeqProperties
      <3>. HIDE DEF before
      <3>. QED
        BY <2>0, <3>2
    <2>2. /\ after \in Seq(Page) /\ Len(after) = length - i
          /\ \A k \in 1..(length - i) : after[k] = order[k + i]
      <3>1. i + 1 \in Int /\ length \in Int /\ \A k \in (i + 1)..length : order[k] \in Page
        BY <2>0
      <3>2. /\ after \in Seq(Page)
            /\ Len(after) = IF i + 1 <= length THEN length - (i + 1) + 1 ELSE 0
            /\ \A k \in 1..(length - (i + 1) + 1) : after[k] = order[i + 1 + k - 1]
        BY <3>1, SubSeqProperties
      <3>. HIDE DEF after
      <3>. QED
        BY <2>0, <3>2
    <2>3. left = before \o after
      BY DEF RemoveAt, length
    <2>. HIDE DEF before, after, left
    <2>4. /\ left \in Seq(Page) /\ Len(left) = (i - 1) + (length - i)
          /\ \A k \in 1..((i - 1) + (length - i)) :
                left[k] = IF k <= i - 1 THEN before[k] ELSE after[k - (i - 1)]
      BY <2>1, <2>2, <2>3, ConcatProperties
    <2>5. ASSUME NEW k \in 1..(length - 1)
          PROVE  left[k] = IF k < i THEN order[k] ELSE order[k + 1]
      <3>1. CASE k < i
        BY <2>0, <2>1, <2>4, <3>1
      <3>2. CASE ~(k < i)
        <4>1. k - (i - 1) \in 1..(length - i) /\ (k - (i - 1)) + i = k + 1
          BY <2>0, <3>2
        <4>2. left[k] = after[k - (i - 1)]
          BY <2>0, <2>4, <3>2
        <4>. QED
          BY <2>2, <3>2, <4>1, <4>2
      <3>. QED
        BY <3>1, <3>2
    <2>. QED
      BY <2>0, <2>4, <2>5 DEF length
  <1>3. DOMAIN left = 1..(Len(order) - 1)
    BY <1>2
  <1>. HIDE DEF left
  <1>4. IsInjective(left)
    <2>1. \A a, b \in 1..Len(order) : order[a] = order[b] => a = b
      BY <1>1 DEF IsInjective
    <2> SUFFICES ASSUME NEW a \in 1..(Len(order) - 1), NEW b \in 1..(Len(order) - 1),
                        left[a] = left[b]
                 PROVE  a = b
      BY <1>3 DEF IsInjective
    <2>. QED
      BY <1>1, <1>2, <2>1
  <1>5. ToSet(left) = ToSet(order) \ {order[i]}
    <2>1. ASSUME NEW k \in 1..(Len(order) - 1)
          PROVE  left[k] \in ToSet(order) \ {order[i]}
      <3>1. PICK l \in 1..Len(order) : l # i /\ left[k] = order[l]
        BY <1>1, <1>2
      <3>. QED
        BY <1>1, <3>1 DEF ToSet, IsInjective
    <2>2. ASSUME NEW l \in 1..Len(order), l # i
          PROVE  order[l] \in ToSet(left)
      <3>1. CASE l < i
        <4>1. l \in 1..(Len(order) - 1) /\ left[l] = order[l]
          BY <1>1, <1>2, <3>1
        <4>. QED
          BY <1>3, <4>1 DEF ToSet
      <3>2. CASE l > i
        <4>1. l - 1 \in 1..(Len(order) - 1) /\ left[l - 1] = order[l]
          BY <1>1, <1>2, <3>2
        <4>. QED
          BY <1>3, <4>1 DEF ToSet
      <3>. QED
        BY <1>1, <2>2, <3>1, <3>2
    <2>3. ToSet(left) \subseteq ToSet(order) \ {order[i]}
      BY <1>3, <2>1 DEF ToSet
    <2>4. ToSet(order) \ {order[i]} \subseteq ToSet(left)
      BY <1>1, <2>2 DEF ToSet
    <2>. QED
      BY <2>3, <2>4
  <1>6. i # 1 => left[1] = order[1]
    BY <1>1, <1>2
  <1>. QED
    BY <1>2, <1>4, <1>5, <1>6 DEF left

\* The first tab and another are kept in this order.
LEMMA TwoKept ==
    ASSUME NEW order \in Seq(Page), IsInjective(order),
           NEW i \in 1..Len(order)
    PROVE  Kept(order, {order[1], order[i]}) =
              IF i = 1 THEN <<order[1]>> ELSE <<order[1], order[i]>>
  <1> DEFINE pages == {order[1], order[i]}
             at == {k \in DOMAIN order : order[k] \in pages}
             upTo(k) == {l \in at : l <= k}
  <1>1. Len(order) \in Nat /\ i \in Nat /\ DOMAIN order = 1..Len(order) /\ 1 <= i
    OBVIOUS
  <1>2. at = {1, i}
    BY <1>1 DEF IsInjective
  <1>3. Kept(order, pages) = [j \in 1..Cardinality(at) |->
           order[CHOOSE k \in at : Cardinality(upTo(k)) = j]]
    BY DEF Kept
  <1>4. upTo(1) = {1} /\ upTo(i) = {1, i}
    BY <1>1, <1>2
  <1>5. Cardinality({1}) = 1 /\ IsFiniteSet({1})
    BY FS_Singleton
  <1>. HIDE DEF at, upTo
  <1>6. CASE i = 1
    <2>1. Cardinality(at) = 1 /\ Cardinality(upTo(1)) = 1 /\ at = {1}
      BY <1>2, <1>4, <1>5, <1>6
    <2>2. (CHOOSE k \in at : Cardinality(upTo(k)) = 1) = 1
      BY <2>1
    <2>3. Kept(order, pages) = [j \in 1..1 |-> order[1]]
      BY <1>3, <2>1, <2>2
    <2>. QED
      BY <1>6, <2>3
  <1>7. CASE i # 1
    <2>1. Cardinality({1} \cup {i}) = 2
      <3>1. i \notin {1}
        BY <1>7
      <3>. QED
        <4> DEFINE one == {1}
        <4>1. IsFiniteSet(one) /\ Cardinality(one) = 1 /\ i \notin one
          BY <1>5, <3>1
        <4>. HIDE DEF one
        <4>2. Cardinality(one \cup {i}) = Cardinality(one) + 1
          BY <4>1, FS_AddElement, Zenon
        <4>3. Cardinality(one \cup {i}) = 2
          BY <4>1, <4>2
        <4>. QED
          BY <4>3 DEF one
    <2>2. Cardinality(at) = 2 /\ Cardinality(upTo(1)) = 1 /\ Cardinality(upTo(i)) = 2
      <3>1. {1} \cup {i} = {1, i}
        OBVIOUS
      <3>. QED
        BY <1>2, <1>4, <1>5, <2>1, <3>1
    <2>3. /\ (CHOOSE k \in at : Cardinality(upTo(k)) = 1) = 1
          /\ (CHOOSE k \in at : Cardinality(upTo(k)) = 2) = i
      BY <1>2, <2>2
    <2>4. Kept(order, pages) = [j \in 1..2 |-> IF j = 1 THEN order[1] ELSE order[i]]
      <3> DEFINE place(j) == CHOOSE k \in at : Cardinality(upTo(k)) = j
      <3>1. place(1) = 1 /\ place(2) = i
        BY <2>3
      <3>2. Kept(order, pages) = [j \in 1..2 |-> order[place(j)]]
        BY <1>3, <2>2
      <3>. HIDE DEF place
      <3>3. \A j \in 1..2 : order[place(j)] = IF j = 1 THEN order[1] ELSE order[i]
        BY <3>1
      <3>. QED
        BY <3>2, <3>3
    <2>. QED
      BY <1>7, <2>4
  <1>. QED
    BY <1>6, <1>7

-----------------------------------------------------------------------------
(* Bar and frames *)

TabsFit(t) == t \in TabState /\ InStep(t)

\* The parts of tabs that are in step.
LEMMA FittingParts ==
    ASSUME NEW t, TabsFit(t)
    PROVE  /\ t = [order |-> t.order, active |-> t.active, frames |-> t.frames,
                   shown |-> t.shown]
           /\ t.order \in Seq(Page) /\ IsInjective(t.order) /\ t.order[1] = Home
           /\ Len(t.order) \in Nat \ {0} /\ DOMAIN t.order = 1..Len(t.order)
           /\ t.frames = ToSet(t.order) /\ t.frames \subseteq Page
           /\ Home \in t.frames
           /\ \E p \in t.frames : t.active = {p} /\ t.shown = {p}
  <1>1. t \in TabState
    BY DEF TabsFit
  <1>2. /\ t.order \in Seq(Page) /\ IsInjective(t.order) /\ t.order[1] = Home
        /\ t.frames = ToSet(t.order) /\ t.frames \subseteq Page
        /\ \E p \in t.frames : t.active = {p} /\ t.shown = {p}
    BY <1>1 DEF TabsFit, TabState, InStep
  <1>3. Len(t.order) \in Nat /\ DOMAIN t.order = 1..Len(t.order)
    BY <1>2
  <1>4. Len(t.order) # 0
    BY <1>2, <1>3 DEF ToSet
  <1>5. Home \in t.frames
    BY <1>2, <1>3, <1>4 DEF ToSet
  <1>. QED
    BY <1>1, <1>2, <1>3, <1>4, <1>5 DEF TabState

\* What is in step, from its parts.
LEMMA PartsFit ==
    ASSUME NEW order \in Seq(Page), IsInjective(order), order[1] = Home,
           NEW p \in ToSet(order)
    PROVE  TabsFit([order |-> order, active |-> {p}, frames |-> ToSet(order),
                    shown |-> {p}])
  <1>1. ToSet(order) \subseteq Page
    BY DEF ToSet
  <1>. QED
    BY <1>1 DEF TabsFit, TabState, InStep

LEMMA OthersShown ==
    ASSUME NEW t \in TabState, NEW active, NEW shown
    PROVE  [t EXCEPT !.active = active, !.shown = shown] =
              [order |-> t.order, active |-> active, frames |-> t.frames,
               shown |-> shown]
  <1>1. t = [order |-> t.order, active |-> t.active, frames |-> t.frames,
             shown |-> t.shown]
    BY DEF TabState
  <1> DEFINE u == [t EXCEPT !.active = active]
  <1>2. u = [order |-> t.order, active |-> active, frames |-> t.frames,
             shown |-> t.shown]
    BY <1>1
  <1>. HIDE DEF u
  <1>3. [u EXCEPT !.shown = shown] =
           [order |-> t.order, active |-> active, frames |-> t.frames,
            shown |-> shown]
    BY <1>2
  <1>4. [t EXCEPT !.active = active, !.shown = shown] = [u EXCEPT !.shown = shown]
    BY DEF u
  <1>. QED
    BY <1>3, <1>4

LEMMA FitInitial == TabsFit(InitialTabs)
  <1>1. /\ <<Home>> \in Seq(Page) /\ IsInjective(<<Home>>) /\ <<Home>>[1] = Home
        /\ ToSet(<<Home>>) = {Home}
    BY HomeOK DEF IsInjective, ToSet
  <1>. QED
    BY <1>1, PartsFit DEF InitialTabs

LEMMA FitActivated ==
    ASSUME NEW t, TabsFit(t), NEW p \in ToSet(t.order)
    PROVE  TabsFit(Activated(t, p))
  <1>1. CASE p \in t.active
    BY <1>1 DEF Activated
  <1>2. CASE p \notin t.active
    <2>1. Show(t, p) = {p}
      BY FittingParts DEF Show
    <2>2. Activated(t, p) = [order |-> t.order, active |-> {p},
                             frames |-> t.frames, shown |-> {p}]
      BY <1>2, <2>1, OthersShown DEF Activated, TabsFit
    <2>. QED
      BY <2>2, FittingParts, PartsFit
  <1>. QED
    BY <1>1, <1>2

LEMMA FitOpened ==
    ASSUME NEW t, TabsFit(t), NEW p \in Page
    PROVE  TabsFit(Opened(t, p))
  <1>1. CASE IsOpen(t, p)
    BY <1>1, FitActivated DEF Opened, IsOpen
  <1>2. CASE ~IsOpen(t, p)
    <2> DEFINE order == t.order
               more == Append(order, p)
    <2>1. /\ order \in Seq(Page) /\ IsInjective(order) /\ order[1] = Home
          /\ Len(order) \in Nat \ {0} /\ DOMAIN order = 1..Len(order)
          /\ p \notin ToSet(order) /\ t.frames = ToSet(order)
      BY <1>2, FittingParts DEF IsOpen
    <2>. HIDE DEF order
    <2>2. /\ more \in Seq(Page) /\ DOMAIN more = 1..(Len(order) + 1)
          /\ more[Len(order) + 1] = p
          /\ \A k \in 1..Len(order) : more[k] = order[k]
      BY <2>1
    <2>. HIDE DEF more
    <2>3. more[1] = Home
      BY <2>1, <2>2
    <2>4. IsInjective(more)
      <3>1. \A k \in 1..Len(order) : order[k] # p
        BY <2>1 DEF ToSet
      <3>. QED
        BY <2>1, <2>2, <3>1 DEF IsInjective
    <2>5. ToSet(more) = ToSet(order) \cup {p}
      <3>1. \A k \in 1..(Len(order) + 1) : k \in 1..Len(order) \/ k = Len(order) + 1
        BY <2>1
      <3>2. \A k \in 1..Len(order) : k \in 1..(Len(order) + 1)
        BY <2>1
      <3>3. Len(order) + 1 \in 1..(Len(order) + 1)
        BY <2>1
      <3>4. DOMAIN order = 1..Len(order)
        BY <2>1
      <3>. QED
        BY <2>2, <3>1, <3>2, <3>3, <3>4 DEF ToSet
    <2>6. Opened(t, p) = [order |-> more, active |-> {p},
                          frames |-> ToSet(more), shown |-> {p}]
      BY <1>2, <2>1, <2>5 DEF Opened, more, order
    <2>. QED
      BY <2>2, <2>3, <2>4, <2>5, <2>6, PartsFit
  <1>. QED
    BY <1>1, <1>2

LEMMA FitClosed ==
    ASSUME NEW t, TabsFit(t), NEW p \in ToSet(t.order), p # Home
    PROVE  TabsFit(Closed(t, p))
  <1> DEFINE i == Position(t, p)
             left == RemoveAt(t.order, i)
             neighbour == IF i < Len(t.order) THEN t.order[i + 1] ELSE t.order[i - 1]
  <1>0. /\ t.order \in Seq(Page) /\ IsInjective(t.order) /\ t.order[1] = Home
        /\ Len(t.order) \in Nat /\ DOMAIN t.order = 1..Len(t.order)
        /\ t.frames = ToSet(t.order)
    BY FittingParts
  <1>1. i \in 1..Len(t.order) /\ t.order[i] = p
    <2>1. \E k \in DOMAIN t.order : t.order[k] = p
      BY DEF ToSet
    <2>. QED
      BY <1>0, <2>1 DEF Position
  <1>2. i # 1 /\ i \in Nat
    BY <1>0, <1>1
  <1>3. /\ left \in Seq(Page) /\ IsInjective(left) /\ left[1] = Home
        /\ ToSet(left) = ToSet(t.order) \ {p}
    BY <1>0, <1>1, <1>2, BarWithout
  <1>4. CASE p \notin t.active
    <2>1. PICK q \in t.frames : t.active = {q} /\ t.shown = {q}
      BY FittingParts
    <2>2. q # p /\ t.active \ {p} = {q} /\ t.shown \ {p} = {q}
      BY <1>4, <2>1
    <2>3. Closed(t, p) = [order |-> left, active |-> {q},
                          frames |-> ToSet(left), shown |-> {q}]
      BY <1>0, <1>3, <1>4, <2>2 DEF Closed, Removed
    <2>4. q \in ToSet(left)
      BY <1>0, <1>3, <2>1, <2>2
    <2>. HIDE DEF left
    <2>5. TabsFit([order |-> left, active |-> {q}, frames |-> ToSet(left),
                   shown |-> {q}])
      BY <1>3, <2>4, PartsFit
    <2>. QED
      BY <2>3, <2>5
  <1>5. CASE p \in t.active
    <2>1. PICK k \in 1..Len(t.order) : k # i /\ neighbour = t.order[k]
      <3>1. CASE i < Len(t.order)
        BY <1>0, <1>1, <1>2, <3>1
      <3>2. CASE ~(i < Len(t.order))
        BY <1>0, <1>1, <1>2, <3>2
      <3>. QED
        BY <3>1, <3>2
    <2>2. neighbour \in t.frames /\ neighbour # p
      BY <1>0, <1>1, <2>1 DEF ToSet, IsInjective
    <2>. HIDE DEF neighbour
    <2>3. t.active = {p} /\ Show(t, neighbour) = {neighbour}
      BY <1>5, <2>2, FittingParts DEF Show
    <2> DEFINE u == [t EXCEPT !.active = @ \cup {neighbour},
                              !.shown = Show(t, neighbour)]
    <2>4. u = [order |-> t.order, active |-> {p, neighbour},
               frames |-> t.frames, shown |-> {neighbour}]
      <3>1. t.active \cup {neighbour} = {p, neighbour}
        BY <2>3
      <3>. QED
        BY <2>3, <3>1, OthersShown DEF TabsFit
    <2>5. Closed(t, p) = Removed(u, p)
      BY <1>5 DEF Closed, neighbour
    <2>6. /\ u.order = t.order /\ u.frames = t.frames
          /\ u.active = {p, neighbour} /\ u.shown = {neighbour}
      BY <2>4
    <2>. HIDE DEF u
    <2>7. Position(u, p) = i
      BY <2>6 DEF Position
    <2>8. /\ u.active \ {p} = {neighbour} /\ u.shown \ {p} = {neighbour}
          /\ u.frames \ {p} = ToSet(left)
      BY <1>0, <1>3, <2>2, <2>6
    <2>9. Closed(t, p) = [order |-> left, active |-> {neighbour},
                          frames |-> ToSet(left), shown |-> {neighbour}]
      BY <2>5, <2>6, <2>7, <2>8 DEF Removed
    <2>. QED
      BY <1>0, <1>3, <2>2, <2>9, PartsFit
  <1>. QED
    BY <1>4, <1>5

LEMMA FitOthersClosed ==
    ASSUME NEW t, TabsFit(t)
    PROVE  TabsFit(OthersClosed(t))
  <1>0. /\ t.order \in Seq(Page) /\ IsInjective(t.order) /\ t.order[1] = Home
        /\ Len(t.order) \in Nat \ {0} /\ DOMAIN t.order = 1..Len(t.order)
        /\ t.frames = ToSet(t.order) /\ Home \in t.frames
    BY FittingParts
  <1>1. PICK p \in t.frames : t.active = {p} /\ t.shown = {p}
    BY FittingParts
  <1>2. PICK i \in 1..Len(t.order) : t.order[i] = p
    BY <1>0, <1>1 DEF ToSet
  <1> DEFINE kept == {Home, p}
             order == IF i = 1 THEN <<Home>> ELSE <<Home, p>>
  <1>3. Head(t.order) = Home
    BY <1>0
  <1>4. Kept(t.order, kept) = order
    BY <1>0, <1>2, TwoKept
  <1>5. /\ order \in Seq(Page) /\ IsInjective(order) /\ order[1] = Home
        /\ ToSet(order) = kept
    <2>1. i = 1 <=> p = Home
      BY <1>0, <1>2 DEF IsInjective
    <2>2. p \in Page /\ Home \in Page
      BY <1>0, <1>1, FittingParts
    <2>. QED
      BY <2>1, <2>2 DEF IsInjective, ToSet
  <1>6. t.frames \ (t.frames \ kept) = kept /\ {p} \ (t.frames \ kept) = {p}
    BY <1>0, <1>1
  <1>. HIDE DEF kept, order
  <1>7. {Home} \cup {p} = kept
    BY DEF kept
  <1>8. OthersClosed(t) = [order |-> order, active |-> {p},
                           frames |-> kept, shown |-> {p}]
    <2>1. OthersClosed(t) =
             [t EXCEPT !.order = Kept(t.order, kept),
                       !.frames = t.frames \ (t.frames \ kept),
                       !.shown = t.shown \ (t.frames \ kept)]
      BY <1>0, <1>1, <1>3, <1>7 DEF OthersClosed
    <2>. QED
      BY <1>1, <1>4, <1>6, <2>1, FittingParts
  <1>9. p \in kept
    BY DEF kept
  <1>. QED
    BY <1>5, <1>8, <1>9, PartsFit

LEMMA FitAllClosed ==
    ASSUME NEW t, TabsFit(t)
    PROVE  TabsFit(AllClosed(t))
  <1>0. /\ t.order \in Seq(Page) /\ IsInjective(t.order) /\ t.order[1] = Home
        /\ Len(t.order) \in Nat \ {0} /\ DOMAIN t.order = 1..Len(t.order)
        /\ t.frames = ToSet(t.order)
    BY FittingParts
  <1>1. PICK p \in t.frames : t.active = {p} /\ t.shown = {p}
    BY FittingParts
  <1> DEFINE gone == ToSet(Tail(t.order))
  <1>2. Head(t.order) = Home
    BY <1>0
  <1>3. gone = t.frames \ {Home}
    <2> DEFINE order == t.order
               rest == Tail(order)
    <2>1. /\ order \in Seq(Page) /\ Len(order) \in Nat \ {0} /\ order # <<>>
      BY <1>0
    <2>2. /\ DOMAIN rest = 1..(Len(order) - 1)
          /\ \A k \in 1..(Len(order) - 1) : rest[k] = order[k + 1]
      BY <2>1
    <2>. HIDE DEF rest
    <2>3. \A k \in 1..(Len(order) - 1) : k + 1 \in 1..Len(order) /\ k + 1 # 1
      BY <2>1
    <2>4. \A k \in 1..Len(order) : k # 1 => k - 1 \in 1..(Len(order) - 1) /\ (k - 1) + 1 = k
      BY <2>1
    <2>5. \A k \in 1..Len(order) : order[k] = Home <=> k = 1
      BY <1>0, <2>1 DEF IsInjective
    <2>6. ToSet(rest) \subseteq t.frames \ {Home}
      BY <1>0, <2>2, <2>3, <2>5 DEF ToSet
    <2>7. ASSUME NEW k \in 1..Len(order), order[k] # Home
          PROVE  order[k] \in ToSet(rest)
      <3>1. k - 1 \in DOMAIN rest /\ rest[k - 1] = order[k]
        BY <2>2, <2>4, <2>5, <2>7
      <3>. QED
        BY <3>1 DEF ToSet
    <2>8. t.frames \ {Home} \subseteq ToSet(rest)
      BY <1>0, <2>7 DEF ToSet
    <2>. QED
      BY <2>6, <2>8 DEF rest
  <1>. HIDE DEF gone
  <1>4. /\ <<Home>> \in Seq(Page) /\ IsInjective(<<Home>>) /\ <<Home>>[1] = Home
        /\ ToSet(<<Home>>) = {Home}
    BY HomeOK DEF IsInjective, ToSet
  <1>5. /\ ({p} \ gone) \cup {Home} = {Home} /\ t.frames \ gone = {Home}
    BY <1>1, <1>3, FittingParts
  <1>6. AllClosed(t) = [order |-> <<Home>>, active |-> {Home},
                        frames |-> {Home}, shown |-> {Home}]
    BY <1>1, <1>2, <1>5 DEF AllClosed, gone
  <1>. QED
    BY <1>4, <1>6, PartsFit

LEMMA StepFits == TabsFit(tabs) /\ [Next]_vars => TabsFit(tabs)'
  <1> SUFFICES ASSUME TabsFit(tabs), [Next]_vars PROVE TabsFit(tabs')
    BY DEF TabsFit, TabState, InStep
  <1>. USE DEF server, page
  <1>1. CASE UNCHANGED tabs
    BY <1>1
  <1>2. ASSUME NEW p \in Page, OpenPage(p) PROVE TabsFit(tabs')
    BY <1>2, FitOpened DEF OpenPage, ChangeTabs
  <1>3. ASSUME NEW p \in Page, ActivateTab(p) PROVE TabsFit(tabs')
    BY <1>3, FitActivated DEF ActivateTab, ChangeTabs, IsOpen
  <1>4. ASSUME NEW p \in Page, CloseTab(p) PROVE TabsFit(tabs')
    BY <1>4, FitClosed DEF CloseTab, ChangeTabs, IsOpen
  <1>5. CASE CloseOtherTabs
    BY <1>5, FitOthersClosed DEF CloseOtherTabs, ChangeTabs
  <1>6. CASE CloseAllTabs
    BY <1>6, FitAllClosed DEF CloseAllTabs, ChangeTabs
  <1>7. CASE Reload
    BY <1>7, FitInitial DEF Reload, ChangeTabs
  <1>8. CASE \/ ListArrives \/ Search \/ OpenAdd
             \/ \E row \in Rows : OpenEdit(row) \/ FormArrives(row)
             \/ \E p \in Pages : CloseForm(p)
    BY <1>1, <1>8 DEF ListArrives, Search, OpenAdd, OpenEdit, FormArrives, CloseForm
  <1>9. CASE \/ \E data \in CollectedData : SubmitAdd(data) \/ SubmitEdit(data)
             \/ \E ok \in BOOLEAN : SubmitRole(ok)
             \/ \E d \in Dicts : AskDelete(d)
             \/ Cancel \/ ConfirmDelete \/ DeleteDict
    BY <1>1, <1>9
    DEF SubmitAdd, SubmitEdit, SubmitDict, SubmitRole, AskDelete, Cancel,
        ConfirmDelete, DeleteDict
  <1>10. CASE OtherChanges \/ (\E t \in tasks : RunTask(t)) \/ SessionEnds \/ Restart
    BY <1>1, <1>10 DEF OtherChanges, RunTask, SessionEnds, Restart
  <1>. QED
    BY <1>1, <1>2, <1>3, <1>4, <1>5, <1>6, <1>7, <1>8, <1>9, <1>10 DEF Next, vars

LEMMA AlwaysFit == Spec => []TabsFit(tabs)
  <1>1. Init => TabsFit(tabs)
    BY FitInitial DEF Init
  <1>. QED
    BY <1>1, StepFits, PTL DEF Spec

\* For any pages: however tabs are opened, chosen and closed, alone or all at
\* once, each has its frame and one is active and seen (contabs.js).
THEOREM TabsAlwaysAgree == Spec => []TabsAgree
  <1>1. TabsFit(tabs) => TabsAgree
    BY DEF TabsFit, TabsAgree
  <1>. QED
    BY <1>1, AlwaysFit, PTL
-----------------------------------------------------------------------------
(* What the window and the server have in hand *)

Objects == Rows \cup {NoRow} \cup ({"name"} \X Dicts)
Question == [id: Dicts, name: Names]
Deletion == [id: Dicts, alone: BOOLEAN]

\* What is left of TypeOK.
FormsHaveFrames == \A p \in Pages : p \notin tabs.frames => dialog[p] = NoDialog
HandsTyped ==
    /\ stale \in BOOLEAN /\ FormsHaveFrames
    /\ loads \subseteq Rows /\ tasks \subseteq Task /\ holder \in Objects
    /\ asking \subseteq Question /\ Cardinality(asking) <= 1
    /\ deleting \subseteq Deletion /\ Cardinality(deleting) <= 1

LEMMA AtMostOne ==
    /\ Cardinality({}) <= 1
    /\ \A x : Cardinality({x}) <= 1
  <1>1. Cardinality({}) = 0
    BY FS_EmptySet
  <1>2. \A x : Cardinality({x}) = 1
    BY FS_Singleton
  <1>. QED
    BY <1>1, <1>2

LEMMA NoFormAnywhere ==
    /\ NoDialog.kind = "none"
    /\ NoDialog.kind \notin {"loading", "edit", "failed", "add"}
  BY DEF NoDialog

\* A form that comes or goes over a page in sight.
LEMMA FormAtFrame ==
    ASSUME dialog \in [Pages -> Dialog], FormsHaveFrames, tabs' = tabs,
           NEW p \in Pages, NEW form, dialog' = [dialog EXCEPT ![p] = form],
           p \in tabs.frames \/ form = NoDialog
    PROVE  FormsHaveFrames'
  BY DEF FormsHaveFrames

\* The task that Log leaves.
LEMMA LoggedTask ==
    ASSUME tasks \subseteq Task, NEW what \in {"saved", "edited", "deleted"},
           NEW row \in Objects, NEW about \in Objects, NEW alone \in BOOLEAN,
           Log(what, row, about, alone)
    PROVE  tasks' \subseteq Task
  <1>1. [what |-> what, row |-> row, about |-> about, alone |-> alone] \in Task
    BY DEF Task, Objects
  <1>. QED
    BY <1>1 DEF Log

LEMMA ExceptionTask == [what |-> "exception"] \in Task
  BY DEF Task

LEMMA TabsKeepHands ==
    ASSUME HandsTyped, NEW t, ChangeTabs(t)
    PROVE  HandsTyped'
  <1>1. UNCHANGED <<loads, tasks, holder, asking, deleting>> /\ tabs' = t
    BY DEF ChangeTabs, server
  <1>2. FormsHaveFrames'
    <2>1. dialog' = [p \in Pages |->
              IF p \notin t.frames THEN NoDialog
              ELSE IF dialog[p].kind \in {"loading", "edit"}
              THEN [dialog[p] EXCEPT !.alone = @ /\ t.shown \subseteq {p, Home}]
              ELSE dialog[p]]
      BY DEF ChangeTabs
    <2>. QED
      BY <1>1, <2>1 DEF FormsHaveFrames
  <1>3. stale' \in BOOLEAN
    BY DEF ChangeTabs
  <1>. QED
    BY <1>1, <1>2, <1>3 DEF HandsTyped

LEMMA ListsKeepHands ==
    ASSUME WindowInv, TabsFit(tabs), HandsTyped
    PROVE  /\ ListArrives => HandsTyped'
           /\ Search => HandsTyped'
           /\ OpenAdd => HandsTyped'
           /\ \A row \in Rows : OpenEdit(row) => HandsTyped'
           /\ \A p \in Pages : CloseForm(p) => HandsTyped'
           /\ \A row \in Rows : FormArrives(row) => HandsTyped'
  <1>0. /\ dialog \in [Pages -> Dialog] /\ "dict" \in Pages
        /\ tabs.shown \subseteq tabs.frames
    BY FittingParts DEF WindowInv, Pages
  <1>. USE DEF server, page
  <1>1. CASE ListArrives \/ Search
    BY <1>1 DEF ListArrives, Search, HandsTyped, FormsHaveFrames
  <1>2. CASE OpenAdd
    <2>1. FormsHaveFrames'
      BY <1>0, <1>2, FormAtFrame DEF OpenAdd, ListInReach, HandsTyped
    <2>. QED
      BY <1>2, <2>1 DEF OpenAdd, HandsTyped
  <1>3. ASSUME NEW row \in Rows, OpenEdit(row) PROVE HandsTyped'
    <2>1. row[1] \in Pages /\ row[1] \in tabs.frames
      BY <1>0, <1>3 DEF OpenEdit, ListInReach, Rows, Pages
    <2>2. FormsHaveFrames'
      BY <1>0, <1>3, <2>1, FormAtFrame DEF OpenEdit, HandsTyped
    <2>. QED
      BY <1>3, <2>2 DEF OpenEdit, HandsTyped
  <1>4. ASSUME NEW p \in Pages, CloseForm(p) PROVE HandsTyped'
    <2>1. FormsHaveFrames'
      BY <1>0, <1>4, FormAtFrame DEF CloseForm, HandsTyped
    <2>. QED
      BY <1>4, <2>1 DEF CloseForm, HandsTyped
  <1>5. ASSUME NEW row \in Rows, FormArrives(row) PROVE HandsTyped'
    <2>1. row[1] \in Pages
      BY DEF Rows, Pages
    <2>2. dialog' = [dialog EXCEPT ![row[1]] = Answered(dialog[row[1]], row)]
      BY <1>5 DEF FormArrives
    <2>3. row[1] \notin tabs.frames => Answered(dialog[row[1]], row) = NoDialog
      BY <2>1, NoFormAnywhere DEF HandsTyped, FormsHaveFrames, Answered
    <2>4. FormsHaveFrames'
      BY <1>0, <1>5, <2>1, <2>2, <2>3, FormAtFrame DEF FormArrives, HandsTyped
    <2>5. /\ loads' \subseteq Rows /\ tasks' \subseteq Task /\ holder' \in Objects
          /\ UNCHANGED <<stale, asking, deleting>>
      BY <1>5, ExceptionTask DEF FormArrives, HandsTyped, HolderAfterForm, Objects
    <2>. QED
      BY <2>4, <2>5 DEF HandsTyped
  <1>. QED
    BY <1>1, <1>2, <1>3, <1>4, <1>5

LEMMA RequestsKeepHands ==
    ASSUME WindowInv, HandsTyped
    PROVE  /\ \A data \in CollectedData :
                 SubmitAdd(data) \/ SubmitEdit(data) => HandsTyped'
           /\ \A ok \in BOOLEAN : SubmitRole(ok) => HandsTyped'
           /\ \A d \in Dicts : AskDelete(d) => HandsTyped'
           /\ Cancel => HandsTyped'
           /\ ConfirmDelete => HandsTyped'
           /\ DeleteDict => HandsTyped'
  <1>0. dialog \in [Pages -> Dialog] /\ "dict" \in Pages /\ "role" \in Pages
    BY DEF WindowInv, Pages
  <1>. USE DEF server, page
  <1>1. ASSUME NEW p \in Pages, FormDone(p), tabs' = tabs
        PROVE  FormsHaveFrames' /\ stale' \in BOOLEAN
    <2>1. FormsHaveFrames'
      BY <1>0, <1>1, FormAtFrame DEF FormDone, HandsTyped
    <2>. QED
      BY <1>1, <2>1 DEF FormDone
  <1>2. ASSUME Refused, tabs' = tabs
        PROVE  FormsHaveFrames' /\ stale' \in BOOLEAN /\ tasks' \subseteq Task
    BY <1>2, ExceptionTask DEF Refused, HandsTyped, FormsHaveFrames
  <1>3. ASSUME NEW result, SubmitDict(result) PROVE HandsTyped'
    <2>1. UNCHANGED <<tabs, loads, holder, asking, deleting>>
      BY <1>3 DEF SubmitDict
    <2>2. FormsHaveFrames' /\ stale' \in BOOLEAN /\ tasks' \subseteq Task
      <3>1. CASE Refused
        BY <1>2, <2>1, <3>1
      <3>2. CASE FormDone("dict") /\ Log("saved", NoRow, NoRow, FALSE)
        <4>1. tasks' \subseteq Task
          BY <3>2, LoggedTask DEF HandsTyped, Objects
        <4>. QED
          BY <1>0, <1>1, <2>1, <3>2, <4>1
      <3>. QED
        BY <1>3, <3>1, <3>2 DEF SubmitDict
    <2>. QED
      BY <2>1, <2>2 DEF HandsTyped
  <1>4. ASSUME NEW ok \in BOOLEAN, SubmitRole(ok) PROVE HandsTyped'
    <2>1. UNCHANGED <<tabs, loads, holder, asking, deleting>>
      BY <1>4 DEF SubmitRole
    <2>2. FormsHaveFrames' /\ stale' \in BOOLEAN /\ tasks' \subseteq Task
      <3>1. CASE Refused
        BY <1>2, <2>1, <3>1
      <3>2. CASE /\ FormDone("role")
                 /\ Log("edited", dialog["role"].row, holder, dialog["role"].alone)
        <4>1. dialog["role"] \in Dialog /\ dialog["role"].kind = "edit"
          BY <1>0, <1>4 DEF SubmitRole, CanSubmit, FormInReach
        <4>2. dialog["role"].row \in Objects /\ dialog["role"].alone \in BOOLEAN
          BY <4>1 DEF Dialog, NoDialog, Objects
        <4>3. tasks' \subseteq Task
          BY <3>2, <4>2, LoggedTask DEF HandsTyped
        <4>. QED
          BY <1>0, <1>1, <2>1, <3>2, <4>3
      <3>. QED
        BY <1>4, <3>1, <3>2 DEF SubmitRole
    <2>. QED
      BY <2>1, <2>2 DEF HandsTyped
  <1>5. ASSUME NEW d \in Dicts, AskDelete(d) PROVE HandsTyped'
    <2>1. list[d] \in Names
      BY <1>5 DEF AskDelete, WindowInv, TablesTyped
    <2>2. asking' \subseteq Question /\ Cardinality(asking') <= 1
      <3>1. [id |-> d, name |-> list[d]] \in Question
        BY <2>1 DEF Question
      <3>. QED
        BY <1>5, <3>1, AtMostOne DEF AskDelete
    <2>. QED
      BY <1>5, <2>2 DEF AskDelete, HandsTyped, FormsHaveFrames
  <1>6. CASE Cancel
    BY <1>6, AtMostOne DEF Cancel, HandsTyped, FormsHaveFrames
  <1>7. CASE ConfirmDelete
    <2>1. PICK a \in asking : /\ holder' = <<"name", a.id>>
                              /\ deleting' = {[id |-> a.id, alone |-> loads = {}]}
      BY <1>7 DEF ConfirmDelete
    <2>2. a.id \in Dicts
      BY DEF HandsTyped, Question
    <2>3. deleting' \subseteq Deletion /\ Cardinality(deleting') <= 1
      <3> DEFINE alone == loads = {}
      <3>1. alone \in BOOLEAN
        OBVIOUS
      <3>. HIDE DEF alone
      <3>2. [id |-> a.id, alone |-> alone] \in Deletion
        BY <2>2, <3>1 DEF Deletion
      <3>. QED
        BY <2>1, <3>2, AtMostOne DEF alone
    <2>4. holder' \in Objects
      BY <2>1, <2>2 DEF Objects
    <2>. QED
      BY <1>7, <2>3, <2>4 DEF ConfirmDelete, HandsTyped, FormsHaveFrames
  <1>8. CASE DeleteDict
    <2>1. PICK q \in deleting : Log("deleted", <<"name", q.id>>, holder, q.alone)
      BY <1>8 DEF DeleteDict
    <2>2. tasks' \subseteq Task
      <3>1. <<"name", q.id>> \in Objects /\ q.alone \in BOOLEAN
        BY DEF HandsTyped, Deletion, Objects
      <3>. QED
        BY <2>1, <3>1, LoggedTask DEF HandsTyped
    <2>3. UNCHANGED <<tabs, dialog, loads, holder>> /\ asking' = {} /\ deleting' = {}
          /\ stale' = TRUE
      BY <1>8 DEF DeleteDict
    <2>. QED
      BY <2>2, <2>3, AtMostOne DEF HandsTyped, FormsHaveFrames
  <1>. QED
    BY <1>3, <1>4, <1>5, <1>6, <1>7, <1>8 DEF SubmitAdd, SubmitEdit

LEMMA OthersKeepHands ==
    ASSUME HandsTyped
    PROVE  /\ OtherChanges => HandsTyped'
           /\ \A t \in tasks : RunTask(t) => HandsTyped'
           /\ SessionEnds => HandsTyped'
           /\ Restart => HandsTyped'
  <1>. USE DEF server, page
  <1>1. CASE OtherChanges
    BY <1>1 DEF OtherChanges, HandsTyped, FormsHaveFrames
  <1>2. ASSUME NEW t \in tasks, RunTask(t) PROVE HandsTyped'
    BY <1>2 DEF RunTask, HandsTyped, FormsHaveFrames
  <1>3. NoRow \in Objects
    BY DEF Objects
  <1>4. CASE SessionEnds
    <2>1. FormsHaveFrames'
      BY <1>4, NoFormAnywhere DEF SessionEnds, ForgetAlone, HandsTyped, FormsHaveFrames
    <2>. QED
      BY <1>3, <1>4, <2>1 DEF SessionEnds, HandsTyped
  <1>5. CASE Restart
    <2>1. dialog' = [p \in Pages |->
             IF dialog[p].kind = "loading" THEN [kind |-> "failed"]
             ELSE IF dialog[p].kind = "edit" THEN [dialog[p] EXCEPT !.alone = FALSE]
             ELSE dialog[p]]
      BY <1>5 DEF Restart
    <2>2. FormsHaveFrames'
      BY <1>5, <2>1, NoFormAnywhere DEF Restart, HandsTyped, FormsHaveFrames
    <2>3. asking' \in {asking, {}} /\ deleting' = {} /\ tasks' = {} /\ loads' = {}
          /\ holder' = NoRow /\ stale' = stale
      BY <1>5 DEF Restart
    <2>. QED
      BY <1>3, <2>2, <2>3, AtMostOne DEF HandsTyped
  <1>. QED
    BY <1>1, <1>2, <1>4, <1>5

LEMMA NextKeepsHands ==
    WindowInv /\ TabsFit(tabs) /\ HandsTyped /\ [Next]_vars => HandsTyped'
  <1> SUFFICES ASSUME WindowInv, TabsFit(tabs), HandsTyped, [Next]_vars
               PROVE  HandsTyped'
    OBVIOUS
  <1>1. CASE UNCHANGED vars
    BY <1>1 DEF vars, HandsTyped, FormsHaveFrames
  <1>. QED
    BY <1>1, TabsKeepHands, ListsKeepHands, RequestsKeepHands, OthersKeepHands
    DEF Next, OpenPage, ActivateTab, CloseTab, CloseOtherTabs, CloseAllTabs, Reload

LEMMA AlwaysHands == Spec => []HandsTyped
  <1>1. Init => HandsTyped
    BY AtMostOne DEF Init, HandsTyped, FormsHaveFrames, Objects
  <1>. QED
    BY <1>1, NextKeepsHands, AlwaysWindow, AlwaysFit, PTL DEF Spec

\* The window, its forms, the tables and the tasks hold what their types allow,
\* and only pages that have a frame have a form, for any roles and names
\* (contabs.js, dict.js, LogManager).
THEOREM WindowTypeCorrect == Spec => []TypeOK
  <1>1. WindowInv /\ TabsFit(tabs) /\ HandsTyped => TypeOK
    BY DEF WindowInv, TablesTyped, TabsFit, HandsTyped, FormsHaveFrames, TypeOK,
           Objects, Question, Deletion
  <1>. QED
    BY <1>1, AlwaysWindow, AlwaysFit, AlwaysHands, PTL
-----------------------------------------------------------------------------
(* What logs are about *)

\* The form over p was opened while nothing else was under way, and no other
\* page was used since.
Alone(p) == dialog[p].kind \in {"loading", "edit"} /\ dialog[p].alone

\* Then nothing else is under way and no other page can be reached; the form is
\* the only one that loads, or the holder has its row.  The same for a deletion.
AloneIsAlone ==
    /\ \A p \in Pages : Alone(p) =>
          /\ asking = {} /\ deleting = {} /\ tabs.shown \subseteq {p, Home}
          /\ dialog[p].kind = "loading" => loads = {dialog[p].row}
          /\ dialog[p].kind = "edit" => loads = {} /\ holder = dialog[p].row
    /\ \A q \in deleting : q.alone => loads = {} /\ holder = <<"name", q.id>>

\* A form is over the page of its row.
RowsMatch ==
    \A p \in Pages : dialog[p].kind \in {"loading", "edit"} => dialog[p].row[1] = p

LogInv == AloneIsAlone /\ RowsMatch /\ LogsAreAboutTheirRow

\* A step that starts nothing and opens no form.
LEMMA NothingStarted ==
    ASSUME LogInv,
           \A p \in Pages : dialog'[p].kind \in {"loading", "edit"} =>
              /\ dialog[p].kind = dialog'[p].kind /\ dialog[p].row = dialog'[p].row
              /\ dialog'[p].alone =>
                    /\ dialog[p].alone /\ tabs'.shown \subseteq {p, Home}
                    /\ loads' = loads /\ holder' = holder,
           asking' \in {asking, {}}, deleting' \in {deleting, {}},
           deleting' = {} \/ (loads' = loads /\ holder' = holder),
           \A t \in tasks' \ tasks : t.what \in {"edited", "deleted"} /\ t.alone =>
              t.about = t.row
    PROVE  LogInv'
  <1>1. \A p \in Pages : Alone(p)' => Alone(p)
    BY DEF Alone
  <1>2. AloneIsAlone'
    BY <1>1 DEF LogInv, AloneIsAlone, Alone
  <1>3. RowsMatch'
    BY DEF LogInv, RowsMatch
  <1>4. LogsAreAboutTheirRow'
    BY DEF LogInv, LogsAreAboutTheirRow
  <1>. QED
    BY <1>2, <1>3, <1>4 DEF LogInv

\* In particular one that only takes forms away.
LEMMA OnlyFormsGo ==
    ASSUME LogInv, dialog \in [Pages -> Dialog], NEW p \in Pages, NEW form,
           form.kind \notin {"loading", "edit"},
           dialog' = dialog \/ dialog' = [dialog EXCEPT ![p] = form],
           UNCHANGED <<tabs, loads, holder>>,
           asking' \in {asking, {}}, deleting' \in {deleting, {}},
           \A t \in tasks' \ tasks : t.what \in {"edited", "deleted"} /\ t.alone =>
              t.about = t.row
    PROVE  LogInv'
  <1>1. ASSUME NEW o \in Pages, dialog'[o].kind \in {"loading", "edit"}
        PROVE  dialog'[o] = dialog[o]
    BY <1>1
  <1>2. \A o \in Pages : Alone(o) => tabs.shown \subseteq {o, Home}
    BY DEF LogInv, AloneIsAlone
  <1>. QED
    BY <1>1, <1>2, NothingStarted DEF Alone

LEMMA TabsKeepLogs ==
    ASSUME WindowInv, LogInv, NEW t, ChangeTabs(t)
    PROVE  LogInv'
  <1>1. /\ dialog' = [p \in Pages |->
              IF p \notin t.frames THEN NoDialog
              ELSE IF dialog[p].kind \in {"loading", "edit"}
              THEN [dialog[p] EXCEPT !.alone = @ /\ t.shown \subseteq {p, Home}]
              ELSE dialog[p]]
        /\ tabs' = t /\ UNCHANGED <<loads, holder, asking, deleting, tasks>>
    BY DEF ChangeTabs, server
  <1>2. ASSUME NEW p \in Pages, dialog'[p].kind \in {"loading", "edit"}
        PROVE  /\ dialog[p].kind = dialog'[p].kind /\ dialog[p].row = dialog'[p].row
               /\ dialog'[p].alone =>
                     dialog[p].alone /\ tabs'.shown \subseteq {p, Home}
    <2> DEFINE open == dialog[p]
               alone == open.alone /\ t.shown \subseteq {p, Home}
    <2>1. open \in Dialog
      BY DEF WindowInv
    <2>2. dialog'[p] = IF p \notin t.frames THEN NoDialog
                       ELSE IF open.kind \in {"loading", "edit"}
                       THEN [open EXCEPT !.alone = alone] ELSE open
      BY <1>1
    <2>. HIDE DEF open, alone
    <2>3. open.kind \in {"loading", "edit"} /\ dialog'[p] = [open EXCEPT !.alone = alone]
      BY <1>2, <2>2, NoFormAnywhere
    <2>4. \/ open \in [kind: {"loading"}, row: Rows, alone: BOOLEAN]
          \/ open \in [kind: {"edit"}, row: Rows, alone: BOOLEAN,
                       name: Names \cup {Absent}]
      BY <2>1, <2>3 DEF Dialog, NoDialog
    <2>5. /\ [open EXCEPT !.alone = alone].kind = open.kind
          /\ [open EXCEPT !.alone = alone].row = open.row
          /\ [open EXCEPT !.alone = alone].alone = alone
      BY <2>4
    <2>. QED
      BY <1>1, <2>3, <2>5 DEF open, alone
  <1>. QED
    BY <1>1, <1>2, NothingStarted

LEMMA ListsKeepLogs ==
    ASSUME WindowInv, TabsFit(tabs), LogInv
    PROVE  /\ ListArrives => LogInv'
           /\ Search => LogInv'
           /\ OpenAdd => LogInv'
           /\ \A row \in Rows : OpenEdit(row) => LogInv'
           /\ \A p \in Pages : CloseForm(p) => LogInv'
  <1>. USE DEF server, page
  <1>0. dialog \in [Pages -> Dialog] /\ "dict" \in Pages
    BY DEF WindowInv, Pages
  <1>1. CASE ListArrives \/ Search
    BY <1>0, <1>1, OnlyFormsGo, NoFormAnywhere DEF ListArrives, Search
  <1>2. CASE OpenAdd
    <2> DEFINE form == [kind |-> "add"]
    <2>1. form.kind = "add" /\ dialog' = [dialog EXCEPT !["dict"] = form]
      BY <1>2 DEF OpenAdd
    <2>. HIDE DEF form
    <2>. QED
      BY <1>0, <1>2, <2>1, OnlyFormsGo DEF OpenAdd
  <1>3. ASSUME NEW p \in Pages, CloseForm(p) PROVE LogInv'
    BY <1>0, <1>3, OnlyFormsGo, NoFormAnywhere DEF CloseForm
  <1>4. ASSUME NEW row \in Rows, OpenEdit(row) PROVE LogInv'
    <2> DEFINE p == row[1]
               alone == loads = {}
               form == [kind |-> "loading", row |-> row, alone |-> alone]
    <2>1. /\ p \in Pages /\ p # Home /\ asking = {} /\ deleting = {}
          /\ p \in tabs.shown /\ dialog[p].kind = "none"
          /\ dialog' = [dialog EXCEPT ![p] = form] /\ loads' = loads \cup {row}
          /\ UNCHANGED <<tabs, asking, deleting, holder, tasks>>
      BY <1>4, PagesOK, NoFormAnywhere DEF OpenEdit, ListInReach, CanClick, Rows, Pages
    <2>2. form.kind = "loading" /\ form.row = row /\ form.alone = alone
      OBVIOUS
    <2>. HIDE DEF p, form
    <2>3. dialog'[p] = form /\ \A o \in Pages \ {p} : dialog'[o] = dialog[o]
      BY <1>0, <2>1
    <2>4. tabs.shown = {p}
      BY <2>1, FittingParts
    <2>5. \A o \in Pages \ {p} : ~Alone(o)
      BY <2>1, <2>4 DEF LogInv, AloneIsAlone
    <2>6. AloneIsAlone'
      <3>1. \A o \in Pages \ {p} : ~Alone(o)'
        BY <2>3, <2>5 DEF Alone
      <3>2. Alone(p)' => loads = {}
        BY <2>2, <2>3 DEF Alone, alone
      <3>. QED
        BY <2>1, <2>2, <2>3, <2>4, <3>1, <3>2 DEF AloneIsAlone
    <2>7. RowsMatch'
      BY <2>2, <2>3 DEF LogInv, RowsMatch, p
    <2>. QED
      BY <2>1, <2>6, <2>7 DEF LogInv, LogsAreAboutTheirRow
  <1>. QED
    BY <1>1, <1>2, <1>3, <1>4

\* A form that arrives while another is alone is that one.
LEMMA FormKeepsLogs ==
    ASSUME WindowInv, LogInv, NEW row \in Rows, FormArrives(row)
    PROVE  LogInv'
  <1>0. dialog \in [Pages -> Dialog] /\ row[1] \in Pages
    BY DEF WindowInv, Rows, Pages
  <1> DEFINE p == row[1]
             form == Answered(dialog[p], row)
  <1>1. /\ row \in loads /\ loads' = loads \ {row}
        /\ holder' = IF Exists(row) THEN row ELSE holder
        /\ dialog' = [dialog EXCEPT ![p] = form]
        /\ UNCHANGED <<tabs, asking, deleting>>
    BY DEF FormArrives, HolderAfterForm
  <1>2. \A t \in tasks' \ tasks : t.what = "exception"
    BY DEF FormArrives
  <1>. HIDE DEF form
  <1>3. dialog'[p] = form /\ \A o \in Pages \ {p} : dialog'[o] = dialog[o]
    BY <1>0, <1>1
  <1>4. ASSUME NEW o \in Pages, o # p PROVE ~Alone(o)
    BY <1>1, <1>4 DEF LogInv, AloneIsAlone, RowsMatch, Alone
  <1>5. /\ form.kind \in {"loading", "edit"} =>
              form.row[1] = p
        /\ form.kind \in {"loading", "edit"} /\ form.alone =>
              /\ Alone(p) /\ form.kind = "edit" /\ form.row = row
              /\ dialog[p].row = row /\ dialog[p].kind = "loading" /\ Exists(row)
    <2>1. CASE dialog[p].kind # "loading" \/ dialog[p].row # row
      <3>1. form = dialog[p]
        BY <2>1 DEF form, Answered
      <3>2. ~Alone(p)
        BY <1>0, <1>1, <2>1 DEF LogInv, AloneIsAlone, Alone
      <3>. QED
        BY <1>0, <3>1, <3>2 DEF LogInv, RowsMatch, Alone
    <2>2. CASE dialog[p].kind = "loading" /\ dialog[p].row = row /\ Exists(row)
      <3>1. form = NewForm(row, dialog[p].alone)
        BY <2>2 DEF form, Answered
      <3>. QED
        BY <2>2, <3>1 DEF NewForm, Alone
    <2>3. CASE dialog[p].kind = "loading" /\ dialog[p].row = row /\ ~Exists(row)
      BY <2>3 DEF form, Answered
    <2>. QED
      BY <2>1, <2>2, <2>3
  <1>6. deleting # {} => \A q \in deleting : ~q.alone
    BY <1>1 DEF LogInv, AloneIsAlone
  <1>7. AloneIsAlone'
    <2>1. \A o \in Pages \ {p} : ~Alone(o)'
      BY <1>3, <1>4 DEF Alone
    <2>2. Alone(p)' =>
             /\ Alone(p) /\ dialog'[p].kind = "edit" /\ dialog'[p].row = row
             /\ dialog[p].row = row /\ dialog[p].kind = "loading" /\ Exists(row)
      BY <1>3, <1>5 DEF Alone
    <2>3. Alone(p)' => loads' = {} /\ holder' = row
      BY <1>0, <1>1, <2>2 DEF LogInv, AloneIsAlone
    <2>. QED
      BY <1>0, <1>1, <1>6, <2>1, <2>2, <2>3 DEF LogInv, AloneIsAlone
  <1>8. RowsMatch'
    BY <1>3, <1>5 DEF LogInv, RowsMatch
  <1>9. LogsAreAboutTheirRow'
    BY <1>2 DEF LogInv, LogsAreAboutTheirRow
  <1>. QED
    BY <1>7, <1>8, <1>9 DEF LogInv

LEMMA RequestsKeepLogs ==
    ASSUME WindowInv, TabsFit(tabs), HandsTyped, LogInv
    PROVE  /\ \A data \in CollectedData :
                 SubmitAdd(data) \/ SubmitEdit(data) => LogInv'
           /\ \A ok \in BOOLEAN : SubmitRole(ok) => LogInv'
           /\ \A d \in Dicts : AskDelete(d) => LogInv'
           /\ Cancel => LogInv'
           /\ ConfirmDelete => LogInv'
           /\ DeleteDict => LogInv'
  <1>. USE DEF server, page
  <1>0. dialog \in [Pages -> Dialog] /\ "dict" \in Pages /\ "role" \in Pages
    BY DEF WindowInv, Pages
  <1>1. ASSUME NEW result, SubmitDict(result) PROVE LogInv'
    <2>1. \A t \in tasks' \ tasks : t.what \in {"exception", "saved"}
      BY <1>1 DEF SubmitDict, Refused, Log
    <2>2. /\ dialog' = dialog \/ dialog' = [dialog EXCEPT !["dict"] = NoDialog]
          /\ UNCHANGED <<tabs, loads, holder, asking, deleting>>
      BY <1>1 DEF SubmitDict, Refused, FormDone
    <2>. QED
      BY <1>0, <2>1, <2>2, OnlyFormsGo, NoFormAnywhere
  <1>2. ASSUME NEW ok \in BOOLEAN, SubmitRole(ok) PROVE LogInv'
    <2>1. ASSUME NEW t \in tasks' \ tasks, t.what \in {"edited", "deleted"}, t.alone
          PROVE  t.about = t.row
      <3>1. t.what # "exception"
        BY <2>1
      <3>2. t = [what |-> "edited", row |-> dialog["role"].row, about |-> holder,
                 alone |-> dialog["role"].alone]
        BY <1>2, <2>1, <3>1 DEF SubmitRole, Refused, Log
      <3>3. t.row = dialog["role"].row /\ t.about = holder /\ dialog["role"].alone
        BY <2>1, <3>2
      <3>4. dialog["role"].kind = "edit"
        BY <1>2 DEF SubmitRole, CanSubmit, FormInReach
      <3>. QED
        BY <1>0, <3>3, <3>4 DEF LogInv, AloneIsAlone, Alone
    <2>2. /\ dialog' = dialog \/ dialog' = [dialog EXCEPT !["role"] = NoDialog]
          /\ UNCHANGED <<tabs, loads, holder, asking, deleting>>
      BY <1>2 DEF SubmitRole, Refused, FormDone
    <2>. QED
      BY <1>0, <2>1, <2>2, OnlyFormsGo, NoFormAnywhere
  <1>3. ASSUME NEW d \in Dicts, AskDelete(d) PROVE LogInv'
    <2>1. /\ "dict" \in tabs.shown /\ dialog["dict"].kind = "none" /\ deleting = {}
          /\ UNCHANGED <<tabs, dialog, deleting, loads, holder, tasks>>
      BY <1>3, NoFormAnywhere DEF AskDelete, ListInReach, CanClick
    <2>2. \A p \in Pages : ~Alone(p)
      BY <1>0, <2>1, PagesOK DEF LogInv, AloneIsAlone, Alone
    <2>. QED
      BY <2>1, <2>2 DEF LogInv, AloneIsAlone, Alone, RowsMatch, LogsAreAboutTheirRow
  <1>4. CASE Cancel
    BY <1>0, <1>4, OnlyFormsGo, NoFormAnywhere DEF Cancel
  <1>5. CASE ConfirmDelete
    <2>1. PICK a \in asking : /\ holder' = <<"name", a.id>>
                              /\ deleting' = {[id |-> a.id, alone |-> loads = {}]}
      BY <1>5 DEF ConfirmDelete
    <2>2. UNCHANGED <<tabs, dialog, asking, loads, tasks>>
      BY <1>5 DEF ConfirmDelete
    <2>3. \A p \in Pages : ~Alone(p)
      BY <2>1 DEF LogInv, AloneIsAlone
    <2>4. ASSUME NEW q \in deleting', q.alone
          PROVE  loads' = {} /\ holder' = <<"name", q.id>>
      <3> DEFINE alone == loads = {}
      <3>1. q = [id |-> a.id, alone |-> alone]
        BY <2>1, <2>4
      <3>. HIDE DEF alone
      <3>2. q.id = a.id /\ alone
        BY <2>4, <3>1
      <3>. QED
        BY <2>1, <2>2, <3>2 DEF alone
    <2>. QED
      BY <2>2, <2>3, <2>4 DEF LogInv, AloneIsAlone, Alone, RowsMatch, LogsAreAboutTheirRow
  <1>6. CASE DeleteDict
    <2>1. PICK q \in deleting : Log("deleted", <<"name", q.id>>, holder, q.alone)
      BY <1>6 DEF DeleteDict
    <2>2. ASSUME NEW t \in tasks' \ tasks, t.alone PROVE t.about = t.row
      <3>1. t = [what |-> "deleted", row |-> <<"name", q.id>>, about |-> holder,
                 alone |-> q.alone]
        BY <2>1, <2>2 DEF Log
      <3>2. t.row = <<"name", q.id>> /\ t.about = holder /\ q.alone
        BY <2>2, <3>1
      <3>. QED
        BY <3>2 DEF LogInv, AloneIsAlone
    <2>3. UNCHANGED <<tabs, dialog, loads, holder>> /\ asking' = {} /\ deleting' = {}
      BY <1>6 DEF DeleteDict
    <2>. QED
      BY <1>0, <2>2, <2>3, OnlyFormsGo, NoFormAnywhere
  <1>. QED
    BY <1>1, <1>2, <1>3, <1>4, <1>5, <1>6 DEF SubmitAdd, SubmitEdit

LEMMA OthersKeepLogs ==
    ASSUME WindowInv, LogInv
    PROVE  /\ OtherChanges => LogInv'
           /\ \A t \in tasks : RunTask(t) => LogInv'
           /\ SessionEnds => LogInv'
           /\ Restart => LogInv'
  <1>. USE DEF server, page
  <1>0. dialog \in [Pages -> Dialog] /\ "dict" \in Pages
    BY DEF WindowInv, Pages
  <1>1. CASE OtherChanges
    BY <1>0, <1>1, OnlyFormsGo, NoFormAnywhere DEF OtherChanges
  <1>2. ASSUME NEW t \in tasks, RunTask(t) PROVE LogInv'
    BY <1>0, <1>2, OnlyFormsGo, NoFormAnywhere DEF RunTask
  <1>3. ASSUME NEW p \in Pages, dialog[p].kind \in {"loading", "edit"}
        PROVE  LET form == [dialog[p] EXCEPT !.alone = FALSE]
               IN  form.kind = dialog[p].kind /\ form.row = dialog[p].row /\ ~form.alone
    <2>1. \/ dialog[p] \in [kind: {"loading"}, row: Rows, alone: BOOLEAN]
          \/ dialog[p] \in [kind: {"edit"}, row: Rows, alone: BOOLEAN,
                            name: Names \cup {Absent}]
      BY <1>0, <1>3 DEF Dialog, NoDialog
    <2>. QED
      BY <2>1
  <1>4. CASE SessionEnds
    <2>1. dialog' = [p \in Pages |-> IF dialog[p].kind \in {"loading", "edit"}
                        THEN [dialog[p] EXCEPT !.alone = FALSE] ELSE dialog[p]]
      BY <1>4 DEF SessionEnds, ForgetAlone
    <2>2. \A p \in Pages : dialog'[p].kind \in {"loading", "edit"} =>
             /\ dialog[p].kind = dialog'[p].kind /\ dialog[p].row = dialog'[p].row
             /\ ~dialog'[p].alone
      BY <1>3, <2>1
    <2>3. UNCHANGED <<asking, deleting, loads, tasks>> /\ deleting = {}
      BY <1>4 DEF SessionEnds
    <2>. QED
      BY <2>2, <2>3, NothingStarted
  <1>5. CASE Restart
    <2>1. dialog' = [p \in Pages |->
             IF dialog[p].kind = "loading" THEN [kind |-> "failed"]
             ELSE IF dialog[p].kind = "edit" THEN [dialog[p] EXCEPT !.alone = FALSE]
             ELSE dialog[p]]
      BY <1>5 DEF Restart
    <2>2. \A p \in Pages : dialog'[p].kind \in {"loading", "edit"} =>
             /\ dialog[p].kind = dialog'[p].kind /\ dialog[p].row = dialog'[p].row
             /\ ~dialog'[p].alone
      BY <1>3, <2>1
    <2>3. asking' \in {asking, {}} /\ deleting' = {} /\ tasks' = {}
      BY <1>5 DEF Restart
    <2>. QED
      BY <2>2, <2>3, NothingStarted
  <1>. QED
    BY <1>1, <1>2, <1>4, <1>5

LEMMA NextKeepsLogs ==
    WindowInv /\ TabsFit(tabs) /\ HandsTyped /\ LogInv /\ [Next]_vars => LogInv'
  <1> SUFFICES ASSUME WindowInv, TabsFit(tabs), HandsTyped, LogInv, [Next]_vars
               PROVE  LogInv'
    OBVIOUS
  <1>1. CASE UNCHANGED vars
    BY <1>1 DEF vars, LogInv, AloneIsAlone, Alone, RowsMatch, LogsAreAboutTheirRow
  <1>. QED
    BY <1>1, TabsKeepLogs, ListsKeepLogs, FormKeepsLogs, RequestsKeepLogs,
       OthersKeepLogs
    DEF Next, OpenPage, ActivateTab, CloseTab, CloseOtherTabs, CloseAllTabs, Reload

\* For any roles, dictionaries and tabs: while only one page of a window is used
\* and its session lasts, the log of a change compares the row that was changed
\* with what it was, and the log of a deletion names what was deleted
\* (LogObjectHolder, LogAop.handle).
THEOREM LogsAlwaysAboutTheirRow == Spec => []LogsAreAboutTheirRow
  <1>1. Init => LogInv
    BY NoFormAnywhere
    DEF Init, LogInv, AloneIsAlone, Alone, RowsMatch, LogsAreAboutTheirRow
  <1>2. LogInv => LogsAreAboutTheirRow
    BY DEF LogInv
  <1>. QED
    BY <1>1, <1>2, NextKeepsLogs, AlwaysWindow, AlwaysFit, AlwaysHands, PTL DEF Spec
=============================================================================
