--------------------------- MODULE MenuTreeProofs ---------------------------
(* Theorems about MenuTree, for every value of its constants.               *)
EXTENDS MenuTree, TableTheorems

-----------------------------------------------------------------------------
(* Rows *)

LEMMA RowOfMenu ==
    ASSUME TypeOK, NEW m \in DOMAIN menu
    PROVE  /\ m \in Menus
           /\ menu[m] \in MenuRow
           /\ menu[m].pcodes \in Seq(Codes \cup {Top})
  BY DEF TypeOK, IsTable, MenuRow, Paths

\* menuSetPcode makes a row whose path has at least one code.
LEMMA PlacedRows ==
    ASSUME TypeOK, NEW c \in Codes, NEW p \in Menus \cup {Top}
    PROVE  Places(c, p) \subseteq NewRow
  <1>1. AtTop(c) \in NewRow
    <2>1. <<Top>> \in Seq(Codes \cup {Top}) \ {<<>>}
      OBVIOUS
    <2>. QED
      BY <2>1 DEF AtTop, NewRow
  <1>2. ASSUME p \in DOMAIN menu
        PROVE  Below(c, p) \in NewRow
    <2> DEFINE path == menu[p].pcodes
               code == menu[p].code
    <2>1. path \in Seq(Codes \cup {Top}) /\ code \in Codes
      BY <1>2, RowOfMenu DEF MenuRow
    <2>2. Below(c, p) = [code |-> c, pcode |-> code, pcodes |-> Append(path, code)]
      BY DEF Below
    <2> DEFINE codes == Codes \cup {Top}
    <2>3. path \in Seq(codes) /\ code \in codes
      BY <2>1
    <2> HIDE DEF path, code, codes
    <2>4. Append(path, code) \in Seq(codes)
      BY <2>3
    <2>5. Len(path) \in Nat /\ Len(Append(path, code)) = Len(path) + 1
      BY <2>3
    <2>6. Append(path, code) # <<>>
      BY <2>5
    <2>. QED
      BY <2>1, <2>2, <2>4, <2>6 DEF NewRow, codes
  <1>. QED
    BY <1>1, <1>2 DEF Places

\* A row that fits is a row of the table.
LEMMA FittingRow ==
    ASSUME NEW row \in NewRow, Fits(row)
    PROVE  row \in MenuRow
  <1>1. Len(row.pcodes) \in Nat /\ Len(row.pcodes) # 0
    BY DEF NewRow
  <1>2. row.pcodes \in Paths
    BY <1>1, BoundsOK DEF NewRow, Paths, Fits
  <1>. QED
    BY <1>2 DEF NewRow, MenuRow

-----------------------------------------------------------------------------
(* Requests *)

LEMMA RequestKinds ==
    ASSUME TypeOK, NEW r \in Requests
    PROVE  /\ request[r].pc = "place" => request[r].code \in Codes
           /\ request[r].pc \in {"add", "edit"} => request[r].row \in NewRow
           /\ request[r].pc = "edit" => request[r].menu \in Menus
           /\ request[r].pc = "remove" =>
                 /\ request[r].code \subseteq Codes
                 /\ request[r].todo \subseteq Menus
                 /\ request[r].current \subseteq Menus
  BY DEF TypeOK, Request, Idle

LEMMA ContinueRequests ==
    ASSUME TypeOK, NEW r \in Requests, NEW q \in Request, Continue(r, q)
    PROVE  request' \in [Requests -> Request]
  BY DEF TypeOK, Continue

LEMMA RequestOnly ==
    ASSUME TypeOK, NEW r \in Requests, NEW q \in Request, Continue(r, q),
           UNCHANGED <<menu, usedMenus, relation>>, edits' \in 0..MaxEdits
    PROVE  TypeOK'
  BY ContinueRequests DEF TypeOK

LEMMA RemoveRequest ==
    ASSUME NEW code \in SUBSET Codes, NEW todo \in SUBSET Menus,
           NEW current \in SUBSET Menus
    PROVE  [pc |-> "remove", code |-> code, todo |-> todo, current |-> current]
               \in Request
  BY DEF Request

-----------------------------------------------------------------------------
LEMMA InitType == Init => TypeOK
  <1> SUFFICES ASSUME Init PROVE TypeOK
    OBVIOUS
  <1>1. IsTable(menu, usedMenus, MenuRow)
    BY EmptyIsTable DEF Init
  <1>. QED
    BY <1>1, BoundsOK DEF Init, TypeOK, Request

LEMMA AddType ==
    ASSUME TypeOK, NEW r \in Requests
    PROVE  /\ \A c \in Codes : AddCheck(r, c) => TypeOK'
           /\ \A p \in Menus \cup {Top} : AddPlace(r, p) => TypeOK'
           /\ \A m \in Menus : AddInsert(r, m) => TypeOK'
  <1>0. edits \in 0..MaxEdits
    BY DEF TypeOK
  <1>1. ASSUME NEW c \in Codes, AddCheck(r, c)
        PROVE  TypeOK'
    <2>1. [pc |-> "place", code |-> c] \in Request
      BY DEF Request
    <2>. QED
      BY <1>0, <1>1, <2>1, RequestOnly DEF AddCheck, tables
  <1>2. ASSUME NEW p \in Menus \cup {Top}, AddPlace(r, p)
        PROVE  TypeOK'
    <2>1. PICK row \in Places(request[r].code, p) :
             Continue(r, [pc |-> "add", row |-> row])
      BY <1>2 DEF AddPlace
    <2>2. row \in NewRow
      BY <1>2, <2>1, RequestKinds, PlacedRows DEF AddPlace
    <2>3. [pc |-> "add", row |-> row] \in Request
      BY <2>2 DEF Request
    <2>. QED
      BY <1>0, <1>2, <2>1, <2>3, RequestOnly DEF AddPlace, tables
  <1>3. ASSUME NEW m \in Menus, AddInsert(r, m)
        PROVE  TypeOK'
    <2>1. request' \in [Requests -> Request]
      BY <1>3, ContinueRequests DEF AddInsert, Request
    <2>2. CASE Fits(request[r].row)
      <3>1. request[r].row \in MenuRow
        BY <1>3, <2>2, RequestKinds, FittingRow DEF AddInsert
      <3>2. IsTable(menu', usedMenus', MenuRow)
        BY <1>3, <2>2, <3>1, InsertIsTable DEF AddInsert, TypeOK
      <3>. QED
        BY <1>3, <2>1, <2>2, <3>2 DEF AddInsert, TypeOK
    <2>3. CASE ~Fits(request[r].row)
      BY <1>3, <2>1, <2>3 DEF AddInsert, TypeOK
    <2>. QED
      BY <2>2, <2>3
  <1>. QED
    BY <1>1, <1>2, <1>3

LEMMA EditType ==
    ASSUME TypeOK, NEW r \in Requests
    PROVE  /\ \A m \in Menus, c \in Codes, p \in Menus \cup {Top} :
                 EditPlace(r, m, c, p) => TypeOK'
           /\ EditWrite(r) => TypeOK'
  <1>1. ASSUME NEW m \in Menus, NEW c \in Codes, NEW p \in Menus \cup {Top},
               EditPlace(r, m, c, p)
        PROVE  TypeOK'
    <2>1. PICK row \in Places(c, p) :
             Continue(r, [pc |-> "edit", menu |-> m, row |-> row])
      BY <1>1 DEF EditPlace
    <2>2. [pc |-> "edit", menu |-> m, row |-> row] \in Request
      BY <2>1, PlacedRows DEF Request
    <2>3. edits' \in 0..MaxEdits
      BY <1>1, BoundsOK DEF EditPlace, TypeOK
    <2>. QED
      BY <1>1, <2>1, <2>2, <2>3, RequestOnly DEF EditPlace
  <1>2. ASSUME EditWrite(r)
        PROVE  TypeOK'
    <2>1. request' \in [Requests -> Request]
      BY <1>2, ContinueRequests DEF EditWrite, Request
    <2>2. IsTable(menu', usedMenus, MenuRow)
      <3>1. CASE Fits(request[r].row)
        <4>1. request[r].row \in MenuRow
          BY <1>2, <3>1, RequestKinds, FittingRow DEF EditWrite
        <4>. QED
          BY <1>2, <3>1, <4>1, UpdateIsTable DEF EditWrite, TypeOK
      <3>2. CASE ~Fits(request[r].row)
        BY <1>2, <3>2 DEF EditWrite, TypeOK
      <3>. QED
        BY <3>1, <3>2
    <2>. QED
      BY <1>2, <2>1, <2>2 DEF EditWrite, TypeOK
  <1>. QED
    BY <1>1, <1>2

LEMMA RemoveType ==
    ASSUME TypeOK, NEW r \in Requests
    PROVE  /\ \A m \in Menus : RemoveLoad(r, m) => TypeOK'
           /\ \A m \in Menus : DeleteRow(r, m) => TypeOK'
           /\ DeleteRelations(r) => TypeOK'
           /\ RemoveSearch(r) => TypeOK'
           /\ Break(r) => TypeOK'
  <1>0. edits \in 0..MaxEdits /\ Idle \in Request
    BY DEF TypeOK, Request
  <1>1. ASSUME NEW m \in Menus, RemoveLoad(r, m)
        PROVE  TypeOK'
    <2> DEFINE code == IF m \in DOMAIN menu THEN {menu[m].code} ELSE {}
    <2>1. code \in SUBSET Codes
      BY RowOfMenu DEF MenuRow
    <2> HIDE DEF code
    <2>2. [pc |-> "remove", code |-> code, todo |-> {m}, current |-> {}] \in Request
      BY <2>1, RemoveRequest
    <2>. QED
      BY <1>0, <1>1, <2>2, RequestOnly DEF RemoveLoad, Remove, tables, code
  <1>2. ASSUME NEW m \in Menus, DeleteRow(r, m)
        PROVE  TypeOK'
    <2>1. [pc |-> "remove", code |-> request[r].code,
           todo |-> request[r].todo \ {m}, current |-> {m}] \in Request
      BY <1>2, RequestKinds, RemoveRequest DEF DeleteRow
    <2>2. request' \in [Requests -> Request]
      BY <1>2, <2>1, ContinueRequests DEF DeleteRow, Remove
    <2>3. IsTable(menu', usedMenus, MenuRow)
      BY <1>2, DeleteIsTable DEF DeleteRow, TypeOK
    <2>. QED
      BY <1>2, <2>2, <2>3 DEF DeleteRow, TypeOK
  <1>3. ASSUME DeleteRelations(r)
        PROVE  TypeOK'
    <2>1. [pc |-> "remove", code |-> request[r].code,
           todo |-> request[r].todo, current |-> {}] \in Request
      BY <1>3, RequestKinds, RemoveRequest DEF DeleteRelations
    <2>2. request' \in [Requests -> Request]
      BY <1>0, <1>3, <2>1, ContinueRequests DEF DeleteRelations, Remove
    <2>. QED
      BY <1>3, <2>2 DEF DeleteRelations, TypeOK
  <1>4. ASSUME RemoveSearch(r)
        PROVE  TypeOK'
    <2>1. PICK c \in request[r].code :
             IF SubMenus(c) = {} THEN Continue(r, Idle)
             ELSE Remove(r, {}, SubMenus(c), {})
      BY <1>4 DEF RemoveSearch
    <2>2. SubMenus(c) \in SUBSET Menus
      BY RowOfMenu DEF SubMenus
    <2>3. [pc |-> "remove", code |-> {}, todo |-> SubMenus(c), current |-> {}]
              \in Request
      BY <2>2, RemoveRequest
    <2>. QED
      BY <1>0, <1>4, <2>1, <2>3, RequestOnly DEF RemoveSearch, Remove, tables
  <1>5. ASSUME Break(r)
        PROVE  TypeOK'
    BY <1>0, <1>5, RequestOnly DEF Break, tables
  <1>. QED
    BY <1>1, <1>2, <1>3, <1>4, <1>5

LEMMA StepType == TypeOK /\ [Next]_vars => TypeOK'
  <1> SUFFICES ASSUME TypeOK, [Next]_vars PROVE TypeOK'
    OBVIOUS
  <1>1. CASE UNCHANGED vars
    BY <1>1 DEF vars, TypeOK
  <1>2. ASSUME NEW r \in Requests,
               \/ \E c \in Codes : AddCheck(r, c)
               \/ \E p \in Menus \cup {Top} : AddPlace(r, p)
               \/ \E m \in Menus : AddInsert(r, m) \/ RemoveLoad(r, m) \/ DeleteRow(r, m)
               \/ \E m \in Menus, c \in Codes, p \in Menus \cup {Top} :
                     EditPlace(r, m, c, p)
               \/ EditWrite(r) \/ DeleteRelations(r) \/ RemoveSearch(r) \/ Break(r)
        PROVE  TypeOK'
    BY <1>2, AddType, EditType, RemoveType
  <1>3. ASSUME NEW o \in Roles, NEW menus \in SUBSET Menus, SetAuthority(o, menus)
        PROVE  TypeOK'
    BY <1>3 DEF SetAuthority, TypeOK
  <1>. QED
    BY <1>1, <1>2, <1>3 DEF Next

\* Menus, grants and requests hold what their columns allow, for any length of
\* the column pcodes (MenuController, MenuServiceImpl).
THEOREM MenuTypeCorrect == Spec => []TypeOK
  BY InitType, StepType, PTL DEF Spec

-----------------------------------------------------------------------------
(* Grants *)

\* What a removal that deletes rows leaves to do it still has in hand.
LEMMA DeletedRowInHand ==
    ASSUME TypeOK, NEW r \in Requests, NEW m \in Menus, DeleteRow(r, m)
    PROVE  /\ request'[r].pc = "remove" /\ request'[r].current = {m}
           /\ DOMAIN menu' = DOMAIN menu \ {m}
           /\ request[r].current = {}
           /\ \A s \in Requests \ {r} : request'[s] = request[s]
  <1> DEFINE q == [pc |-> "remove", code |-> request[r].code,
                   todo |-> request[r].todo \ {m}, current |-> {m}]
  <1>1. request' = [request EXCEPT ![r] = q]
    BY DEF DeleteRow, Remove, Continue
  <1>2. q.pc = "remove" /\ q.current = {m}
    OBVIOUS
  <1> HIDE DEF q
  <1>3. request'[r] = q /\ \A s \in Requests \ {r} : request'[s] = request[s]
    BY <1>1 DEF TypeOK
  <1>. QED
    BY <1>2, <1>3, DeleteRows DEF DeleteRow

\* A step by thread r that leaves sys_menu and sys_relation alone or adds a menu,
\* and does not take a menu out of r's hands unless the request ends.
LEMMA HandsKept ==
    ASSUME TypeOK, NEW r \in Requests, NEW q, Continue(r, q),
           DOMAIN menu \subseteq DOMAIN menu', relation' = relation,
           q = Idle \/ request[r].pc # "remove" \/ request[r].current = {},
           NEW g \in Dangling' \ Dangling
    PROVE  \E s \in Requests : /\ request[s].pc = "remove"
                               /\ g[2] \in request[s].current
                               /\ request'[s] = Idle
  <1>1. request'[r] = q /\ \A s \in Requests \ {r} : request'[s] = request[s]
    BY DEF TypeOK, Continue
  <1>2. g \in relation /\ g[2] \notin DOMAIN menu
    BY DEF Dangling
  <1>3. PICK s \in Requests : request[s].pc = "remove" /\ g[2] \in request[s].current
    BY <1>2 DEF Dangling
  <1>4. ~(request'[s].pc = "remove" /\ g[2] \in request'[s].current)
    BY DEF Dangling
  <1>5. s = r
    BY <1>1, <1>3, <1>4
  <1>. QED
    BY <1>1, <1>3, <1>5

\* A role is granted a menu that is gone only by an old page or a stop
\* (MenuServiceImpl.delMenu).
THEOREM DanglingGrantsExplained == Spec => GrantsDangleOnlyByOldPagesOrStops
  <1> DEFINE Explained(g) ==
                \/ g \notin relation
                \/ \E r \in Requests : /\ request[r].pc = "remove"
                                       /\ g[2] \in request[r].current
                                       /\ request'[r] = Idle
  <1>1. TypeOK /\ [Next]_vars =>
           [\A g \in Dangling' \ Dangling :
              \/ g \notin relation
              \/ \E r \in Requests : /\ request[r].pc = "remove"
                                     /\ g[2] \in request[r].current
                                     /\ request'[r] = Idle]_vars
    <2> SUFFICES ASSUME TypeOK, Next, NEW g \in Dangling' \ Dangling, g \in relation
                 PROVE  Explained(g)
      OBVIOUS
    <2>0. g \in relation' /\ g[2] \notin DOMAIN menu'
      BY DEF Dangling
    <2>1. ASSUME NEW r \in Requests, NEW c \in Codes, AddCheck(r, c)
          PROVE  Explained(g)
      BY <2>1, HandsKept DEF AddCheck, tables, Idle
    <2>2. ASSUME NEW r \in Requests, NEW p \in Menus \cup {Top}, AddPlace(r, p)
          PROVE  Explained(g)
      BY <2>2, HandsKept DEF AddPlace, tables
    <2>3. ASSUME NEW r \in Requests, NEW m \in Menus, AddInsert(r, m)
          PROVE  Explained(g)
      <3>1. DOMAIN menu \subseteq DOMAIN menu'
        BY <2>3 DEF AddInsert, Insert
      <3>. QED
        BY <2>3, <3>1, HandsKept DEF AddInsert
    <2>4. ASSUME NEW r \in Requests, NEW m \in Menus, RemoveLoad(r, m)
          PROVE  Explained(g)
      BY <2>4, HandsKept DEF RemoveLoad, Remove, tables, Idle
    <2>5. ASSUME NEW r \in Requests, NEW m \in Menus, DeleteRow(r, m)
          PROVE  Explained(g)
      <3>1. g[2] # m
        <4>1. request'[r].pc = "remove" /\ request'[r].current = {m}
          BY <2>5, DeletedRowInHand
        <4>2. ~(request'[r].pc = "remove" /\ g[2] \in request'[r].current)
          BY DEF Dangling
        <4>. QED
          BY <4>1, <4>2
      <3>2. g[2] \notin DOMAIN menu
        BY <2>0, <2>5, <3>1, DeletedRowInHand
      <3>3. PICK s \in Requests : request[s].pc = "remove" /\ g[2] \in request[s].current
        BY <3>2 DEF Dangling
      <3>4. request'[s] = request[s]
        BY <2>5, <3>3, DeletedRowInHand
      <3>. QED
        BY <3>3, <3>4 DEF Dangling
    <2>6. ASSUME NEW r \in Requests, NEW m \in Menus, NEW c \in Codes,
                 NEW p \in Menus \cup {Top}, EditPlace(r, m, c, p)
          PROVE  Explained(g)
      BY <2>6, HandsKept DEF EditPlace, Idle
    <2>7. ASSUME NEW r \in Requests, EditWrite(r)
          PROVE  Explained(g)
      <3>1. DOMAIN menu' = DOMAIN menu
        BY <2>7, UpdateRows DEF EditWrite
      <3>. QED
        BY <2>7, <3>1, HandsKept DEF EditWrite
    <2>8. ASSUME NEW r \in Requests, DeleteRelations(r)
          PROVE  Explained(g)
      <3>1. g[2] \notin request[r].current /\ menu' = menu
        BY <2>0, <2>8 DEF DeleteRelations
      <3>2. PICK s \in Requests : request[s].pc = "remove" /\ g[2] \in request[s].current
        BY <2>0, <3>1 DEF Dangling
      <3>3. request'[s] = request[s]
        BY <2>8, <3>1, <3>2 DEF DeleteRelations, Remove, Continue, TypeOK
      <3>. QED
        BY <3>2, <3>3 DEF Dangling
    <2>9. ASSUME NEW r \in Requests, RemoveSearch(r)
          PROVE  Explained(g)
      BY <2>9, HandsKept DEF RemoveSearch, Remove, tables
    <2>10. ASSUME NEW r \in Requests, Break(r)
          PROVE  Explained(g)
      BY <2>10, HandsKept DEF Break, tables
    <2>11. ASSUME NEW o \in Roles, NEW menus \in SUBSET Menus, SetAuthority(o, menus)
          PROVE  Explained(g)
      BY <2>11 DEF SetAuthority, Dangling
    <2>. QED
      BY <2>1, <2>2, <2>3, <2>4, <2>5, <2>6, <2>7, <2>8, <2>9, <2>10, <2>11 DEF Next
  <1>. QED
    BY <1>1, MenuTypeCorrect, PTL DEF Spec, GrantsDangleOnlyByOldPagesOrStops
-----------------------------------------------------------------------------
(* What the search by path finds *)

\* In a sound tree that nothing is deleted from, a path is that of the parent
\* and the parent.
LEMMA SoundPath ==
    ASSUME TypeOK, Sound, Doomed = {}, NEW n \in DOMAIN menu, NEW c \in Codes
    PROVE  /\ Len(menu[n].pcodes) \in Nat
           /\ menu[n].pcode = Top => ~InPath(c, menu[n].pcodes)
           /\ menu[n].pcode # Top =>
                 \E p \in DOMAIN menu :
                    /\ menu[n].pcode = menu[p].code
                    /\ Len(menu[p].pcodes) < Len(menu[n].pcodes)
                    /\ InPath(c, menu[n].pcodes) <=>
                          c = menu[p].code \/ InPath(c, menu[p].pcodes)
  <1>1. menu[n].pcodes \in Seq(Codes \cup {Top}) /\ Len(menu[n].pcodes) \in Nat
    BY RowOfMenu
  <1>2. Placed(menu[n], DOMAIN menu)
    BY DEF Sound, Lasting
  <1>3. \A p \in DOMAIN menu : menu[p].code # Top
    BY RowOfMenu, CodesOK DEF MenuRow
  <1>4. CASE menu[n].pcode = Top
    <2>1. menu[n].pcodes = <<Top>>
      BY <1>2, <1>3, <1>4 DEF Placed
    <2>. QED
      BY <1>1, <1>4, <2>1, CodesOK DEF InPath
  <1>5. CASE menu[n].pcode # Top
    <2>1. PICK p \in DOMAIN menu :
             /\ menu[n].pcode = menu[p].code
             /\ menu[n].pcodes = Append(menu[p].pcodes, menu[p].code)
      BY <1>2, <1>5 DEF Placed
    <2> DEFINE path == menu[p].pcodes
               code == menu[p].code
               codes == Codes \cup {Top}
    <2>2. path \in Seq(codes) /\ code \in codes /\ Len(path) \in Nat
      BY RowOfMenu DEF MenuRow
    <2>. HIDE DEF path, code, codes
    <2>3. /\ Len(Append(path, code)) = Len(path) + 1
          /\ Append(path, code)[Len(path) + 1] = code
          /\ \A i \in 1..Len(path) : Append(path, code)[i] = path[i]
      BY <2>2
    <2>4. InPath(c, Append(path, code)) <=> c = code \/ InPath(c, path)
      BY <2>2, <2>3 DEF InPath
    <2>5. Len(path) < Len(Append(path, code))
      BY <2>2, <2>3
    <2>. QED
      BY <1>1, <1>5, <2>1, <2>4, <2>5 DEF path, code
  <1>. QED
    BY <1>4, <1>5

\* What the search finds is in every set that holds the menus below; shown for
\* the shortest path for which it might fail.
LEMMA FoundIsUnder ==
    ASSUME TypeOK, Sound, Doomed = {}, NEW m \in DOMAIN menu
    PROVE  SubMenus(menu[m].code) \subseteq Under(m)
  <1> SUFFICES ASSUME NEW below \in SUBSET DOMAIN menu, HoldsChildren(below, m),
                      NEW n \in SubMenus(menu[m].code), n \notin below
               PROVE  FALSE
    BY DEF Under, SubMenus
  <1> DEFINE wrong == SubMenus(menu[m].code) \ below
             lengths == {k \in Nat : \E o \in wrong : k = Len(menu[o].pcodes)}
  <1>0. wrong \subseteq DOMAIN menu /\ menu[m].code \in Codes
    BY RowOfMenu DEF SubMenus, MenuRow
  <1>1. lengths # {}
    <2>1. Len(menu[n].pcodes) \in lengths
      BY <1>0, SoundPath
    <2>. QED
      BY <2>1
  <1>2. PICK k \in lengths : \A l \in lengths : k <= l
    BY <1>1, LeastNumber
  <1>3. PICK o \in wrong : k = Len(menu[o].pcodes)
    BY <1>2
  <1>4. InPath(menu[m].code, menu[o].pcodes) /\ o \in DOMAIN menu
    BY <1>3 DEF SubMenus
  <1>5. PICK p \in DOMAIN menu :
           /\ menu[o].pcode = menu[p].code
           /\ Len(menu[p].pcodes) < Len(menu[o].pcodes)
           /\ menu[m].code = menu[p].code \/ InPath(menu[m].code, menu[p].pcodes)
    BY <1>0, <1>4, SoundPath
  <1>6. p \notin below \cup {m}
    BY <1>3, <1>4, <1>5 DEF HoldsChildren
  <1>7. p \in wrong
    BY <1>5, <1>6 DEF Sound, SubMenus
  <1>8. Len(menu[p].pcodes) \in lengths /\ Len(menu[p].pcodes) \in Nat
    BY <1>0, <1>5, <1>7, SoundPath
  <1>9. k <= Len(menu[p].pcodes) /\ k \in Nat
    BY <1>2, <1>8
  <1>. HIDE DEF wrong, lengths
  <1>. QED
    BY <1>3, <1>5, <1>8, <1>9

\* The menus that the search finds hold those below them.
LEMMA FoundHoldsChildren ==
    ASSUME TypeOK, Sound, Doomed = {}, NEW m \in DOMAIN menu
    PROVE  HoldsChildren(SubMenus(menu[m].code), m)
  <1> SUFFICES ASSUME NEW c \in DOMAIN menu, NEW p \in DOMAIN menu,
                      menu[c].pcode = menu[p].code,
                      p \in SubMenus(menu[m].code) \cup {m}
               PROVE  c \in SubMenus(menu[m].code)
    BY DEF HoldsChildren
  <1>1. menu[m].code \in Codes /\ menu[c].pcode # Top
    BY RowOfMenu, CodesOK DEF MenuRow
  <1>2. PICK q \in DOMAIN menu :
           /\ menu[c].pcode = menu[q].code
           /\ InPath(menu[m].code, menu[c].pcodes) <=>
                 menu[m].code = menu[q].code \/ InPath(menu[m].code, menu[q].pcodes)
    BY <1>1, SoundPath
  <1>3. q = p
    BY <1>2 DEF Sound
  <1>. QED
    BY <1>2, <1>3 DEF SubMenus

\* In a sound tree of any menus, the search of a removal finds what is below the
\* menu and nothing else (MenuServiceImpl.delMenuContainSubMenus).
THEOREM SearchAlwaysFindsSubtree == Spec => []SearchFindsSubtree
  <1>1. TypeOK => SearchFindsSubtree
    <2> SUFFICES ASSUME TypeOK, Sound, Doomed = {}, NEW m \in DOMAIN menu
                 PROVE  SubMenus(menu[m].code) = Under(m)
      BY DEF SearchFindsSubtree
    <2>1. Under(m) \subseteq SubMenus(menu[m].code)
      <3>1. SubMenus(menu[m].code) \in SUBSET DOMAIN menu
        BY DEF SubMenus
      <3>. QED
        BY <3>1, FoundHoldsChildren DEF Under
    <2>. QED
      BY <2>1, FoundIsUnder
  <1>. QED
    BY <1>1, MenuTypeCorrect, PTL
-----------------------------------------------------------------------------
(* The index page over a sound tree *)

\* A child has a longer path than its parent, and no path is longer than its
\* column: of menus that each have a child among them there are none, shown for
\* the one that leaves least of the column.
LEMMA SoundTreeHasNoLoop ==
    ASSUME TypeOK, Sound, Doomed = {}, NEW role \in Roles, NEW loop \in Loops(role)
    PROVE  loop = {}
  <1> SUFFICES ASSUME NEW n \in loop PROVE FALSE
    OBVIOUS
  <1> DEFINE left(m) == MaxPath - Len(menu[m].pcodes)
             room == {k \in Nat : \E m \in loop : k = left(m)}
  <1>1. loop \subseteq DOMAIN menu
    BY DEF Loops, Granted
  <1>2. \A m \in loop : left(m) \in Nat
    <2> SUFFICES ASSUME NEW m \in loop PROVE left(m) \in Nat
      OBVIOUS
    <2>1. Len(menu[m].pcodes) \in 1..MaxPath
      BY <1>1, RowOfMenu DEF MenuRow, Paths
    <2>. QED
      BY <2>1, BoundsOK
  <1>3. \A m \in loop : \E c \in loop : left(c) < left(m)
    <2> SUFFICES ASSUME NEW m \in loop
                 PROVE  \E c \in loop : left(c) < left(m)
      OBVIOUS
    <2>1. PICK c \in loop : c \in DOMAIN menu /\ menu[c].pcode = menu[m].code
      BY <1>1 DEF Loops, ChildList
    <2>2. m \in DOMAIN menu /\ menu[m].code \in Codes /\ menu[c].pcode # Top
      BY <1>1, <2>1, RowOfMenu, CodesOK DEF MenuRow
    <2>3. PICK p \in DOMAIN menu :
             /\ menu[c].pcode = menu[p].code
             /\ Len(menu[p].pcodes) < Len(menu[c].pcodes)
      BY <2>1, <2>2, SoundPath
    <2>4. p = m
      BY <2>1, <2>2, <2>3 DEF Sound
    <2>5. Len(menu[m].pcodes) \in Nat /\ Len(menu[c].pcodes) \in Nat
      BY <2>1, <2>2, SoundPath
    <2>. QED
      BY <2>3, <2>4, <2>5, BoundsOK
  <1>4. room # {}
    BY <1>2
  <1>5. PICK k \in room : \A l \in room : k <= l
    BY <1>4, LeastNumber
  <1>6. PICK m \in loop : k = left(m)
    BY <1>5
  <1>7. PICK c \in loop : left(c) < left(m)
    BY <1>3
  <1>8. left(c) \in room
    BY <1>2
  <1>9. k <= left(c) /\ left(c) \in Nat /\ left(m) \in Nat
    BY <1>2, <1>5, <1>8
  <1>. HIDE DEF left, room
  <1>. QED
    BY <1>6, <1>7, <1>9

\* While the tree of the menus is sound, the index page of every role comes to
\* an end, whichever menus the role is granted (MenuNode.recursionFn).
THEOREM IndexPageEndsWhileSound ==
    Spec => []((Sound /\ Doomed = {}) => IndexPageEnds)
  <1>1. TypeOK => ((Sound /\ Doomed = {}) => IndexPageEnds)
    <2> SUFFICES ASSUME TypeOK, Sound, Doomed = {}, NEW role \in Roles
                 PROVE  Loops(role) = {{}}
      BY DEF IndexPageEnds
    <2>1. {} \in Loops(role)
      BY DEF Loops
    <2>. QED
      BY <2>1, SoundTreeHasNoLoop
  <1>. QED
    BY <1>1, MenuTypeCorrect, PTL
-----------------------------------------------------------------------------
(* What breaks a sound tree *)

LEMMA RequestAfter ==
    ASSUME TypeOK, NEW r \in Requests, NEW q, Continue(r, q)
    PROVE  request'[r] = q /\ \A s \in Requests \ {r} : request'[s] = request[s]
  BY DEF TypeOK, Continue

\* A removal has the code of one menu to search for, or none
\* (delMenuContainSubMenus).
OneCodeInHand ==
    \A r \in Requests : request[r].pc = "remove" =>
        \A c, d \in request[r].code : c = d

LEMMA OneCodeAlways == Spec => []OneCodeInHand
  <1>1. Init => OneCodeInHand
    BY DEF Init, OneCodeInHand, Idle
  <1>2. TypeOK /\ OneCodeInHand /\ [Next]_vars => OneCodeInHand'
    <2> SUFFICES ASSUME TypeOK, OneCodeInHand, Next PROVE OneCodeInHand'
      BY DEF vars, OneCodeInHand
    <2>1. ASSUME NEW r \in Requests, NEW q, Continue(r, q),
                 q.pc = "remove" => \A c, d \in q.code : c = d
          PROVE  OneCodeInHand'
      BY <2>1, RequestAfter DEF OneCodeInHand
    <2>2. ASSUME NEW r \in Requests, NEW code, NEW todo, NEW current,
                 Remove(r, code, todo, current), \A c, d \in code : c = d
          PROVE  OneCodeInHand'
      <3> DEFINE q == [pc |-> "remove", code |-> code, todo |-> todo,
                       current |-> current]
      <3>1. Continue(r, q) /\ q.code = code
        BY <2>2 DEF Remove
      <3>. QED
        BY <2>1, <2>2, <3>1
    <2>3. \A r \in Requests : request[r].pc = "remove" =>
              \A c, d \in request[r].code : c = d
      BY DEF OneCodeInHand
    <2>4. ASSUME NEW r \in Requests, Continue(r, Idle) PROVE OneCodeInHand'
      BY <2>1, <2>4 DEF Idle
    <2>5. ASSUME NEW r \in Requests, NEW c \in Codes, AddCheck(r, c)
          PROVE  OneCodeInHand'
      BY <2>1, <2>5 DEF AddCheck
    <2>6. ASSUME NEW r \in Requests, NEW p \in Menus \cup {Top}, AddPlace(r, p)
          PROVE  OneCodeInHand'
      BY <2>1, <2>6 DEF AddPlace
    <2>7. ASSUME NEW r \in Requests, NEW m \in Menus, NEW c \in Codes,
                 NEW p \in Menus \cup {Top}, EditPlace(r, m, c, p)
          PROVE  OneCodeInHand'
      BY <2>1, <2>7 DEF EditPlace
    <2>8. ASSUME NEW r \in Requests, NEW m \in Menus, RemoveLoad(r, m)
          PROVE  OneCodeInHand'
      BY <2>2, <2>8 DEF RemoveLoad
    <2>9. ASSUME NEW r \in Requests, NEW m \in Menus, DeleteRow(r, m)
          PROVE  OneCodeInHand'
      BY <2>2, <2>3, <2>9 DEF DeleteRow
    <2>10. ASSUME NEW r \in Requests, DeleteRelations(r)
           PROVE  OneCodeInHand'
      BY <2>2, <2>3, <2>4, <2>10 DEF DeleteRelations
    <2>11. ASSUME NEW r \in Requests, RemoveSearch(r)
           PROVE  OneCodeInHand'
      BY <2>2, <2>4, <2>11 DEF RemoveSearch
    <2>12. ASSUME UNCHANGED request PROVE OneCodeInHand'
      BY <2>12 DEF OneCodeInHand
    <2>. QED
      BY <2>4, <2>5, <2>6, <2>7, <2>8, <2>9, <2>10, <2>11, <2>12
      DEF Next, AddInsert, EditWrite, Break, SetAuthority
  <1>. QED
    BY <1>1, <1>2, MenuTypeCorrect, PTL DEF Spec

\* A step that leaves sys_menu alone, and to its request what that was going to
\* delete.
LEMMA SameDoomSound ==
    ASSUME TypeOK, Sound, NEW r \in Requests, NEW q, Continue(r, q),
           menu' = menu, DoomedBy(q) = DoomedBy(request[r])
    PROVE  Sound'
  <1>1. \A s \in Requests : (DoomedBy(request[s]))' = DoomedBy(request'[s])
    BY DEF DoomedBy, SubMenus
  <1>2. \A s \in Requests : (DoomedBy(request[s]))' = DoomedBy(request[s])
    BY <1>1, RequestAfter
  <1>3. Doomed' = Doomed
    BY <1>2 DEF Doomed
  <1>. QED
    BY <1>3 DEF Sound, Lasting, Placed

LEMMA NothingDoomed ==
    ASSUME NEW q, q.pc # "remove"
    PROVE  DoomedBy(q) = {}
  BY DEF DoomedBy

\* A menu inserted or updated at m, the only of its code, below one that stays
\* or none, with none below it: whoever is doomed besides m is so as before.
LEMMA WrittenSound ==
    ASSUME TypeOK, Sound, NEW r \in Requests, Continue(r, Idle),
           request[r].pc # "remove",
           NEW m \in Menus, NEW row \in NewRow,
           DOMAIN menu' = DOMAIN menu \cup {m}, menu'[m] = row,
           \A k \in DOMAIN menu \ {m} : menu'[k] = menu[k],
           OfCode(row.code) \subseteq {m},
           NEW p \in (Lasting \ {m}) \cup {Top}, row \in Places(row.code, p),
           m \in DOMAIN menu => \A k \in DOMAIN menu : menu[k].pcode # menu[m].code
    PROVE  Sound'
  <1>1. \A s \in Requests, k \in DOMAIN menu \ {m} :
            k \in (DoomedBy(request[s]))' <=> k \in DoomedBy(request[s])
    <2>1. \A c : \A k \in DOMAIN menu \ {m} : k \in SubMenus(c)' <=> k \in SubMenus(c)
      BY DEF SubMenus
    <2>2. (DoomedBy(request[r]))' = {} /\ DoomedBy(request[r]) = {}
      BY RequestAfter DEF DoomedBy, Idle
    <2>3. ASSUME NEW s \in Requests \ {r}, NEW k \in DOMAIN menu \ {m}
          PROVE  k \in (DoomedBy(request[s]))' <=> k \in DoomedBy(request[s])
      <3>1. request'[s] = request[s]
        BY RequestAfter
      <3>. QED
        BY <2>1, <3>1 DEF DoomedBy
    <2>. QED
      BY <2>2, <2>3
  <1>2. \A k \in DOMAIN menu \ {m} : k \in Lasting' <=> k \in Lasting
    BY <1>1 DEF Lasting, Doomed
  <1>3. \A k, l \in DOMAIN menu' : menu'[k].code = menu'[l].code => k = l
    BY DEF Sound, OfCode
  <1>4. Placed(row, Lasting)'
    <2>1. CASE p = Top
      BY <2>1 DEF Places, AtTop, Placed
    <2>2. CASE p # Top
      <3>1. p \in Lasting' /\ menu'[p] = menu[p] /\ row = Below(row.code, p)
        BY <1>2, <2>2 DEF Places, Lasting
      <3>. QED
        BY <3>1 DEF Below, Placed
    <2>. QED
      BY <2>1, <2>2
  <1>5. ASSUME NEW k \in Lasting', k # m
        PROVE  Placed(menu[k], Lasting)'
    <2>1. k \in Lasting /\ k \in DOMAIN menu
      BY <1>2, <1>5 DEF Lasting
    <2>2. CASE menu[k].pcode = Top /\ menu[k].pcodes = <<Top>>
      BY <1>5, <2>1, <2>2 DEF Placed
    <2>3. ASSUME NEW l \in Lasting, menu[k].pcode = menu[l].code,
                 menu[k].pcodes = Append(menu[l].pcodes, menu[l].code)
          PROVE  Placed(menu[k], Lasting)'
      <3>1. l # m /\ l \in DOMAIN menu
        BY <2>1, <2>3 DEF Lasting
      <3>2. l \in Lasting' /\ menu'[l] = menu[l] /\ menu'[k] = menu[k]
        BY <1>2, <1>5, <2>1, <2>3, <3>1
      <3>. QED
        BY <2>3, <3>2 DEF Placed
    <2>. QED
      BY <2>1, <2>2, <2>3 DEF Sound, Placed
  <1>. QED
    BY <1>3, <1>4, <1>5 DEF Sound
\* What the excuse of a step is: a hasty edit, a request that overlapped with
\* another, or a removal cut short.
Excused ==
    \E r \in Requests :
        /\ request'[r] # request[r]
        /\ \/ EditsBadly(request[r]) \/ Outdated(request[r])
           \/ DoomedBy(request[r]) # {} /\ request'[r] = Idle

LEMMA NotExcused ==
    ASSUME TypeOK, NEW r \in Requests, NEW q, Continue(r, q), q # request[r],
           ~Excused
    PROVE  /\ ~EditsBadly(request[r]) /\ ~Outdated(request[r])
           /\ q = Idle => DoomedBy(request[r]) = {}
  BY RequestAfter DEF Excused

LEMMA AddInsertSound ==
    ASSUME TypeOK, Sound, ~Excused, NEW r \in Requests, NEW m \in Menus,
           AddInsert(r, m)
    PROVE  Sound'
  <1>0. Continue(r, Idle) /\ request[r].pc = "add" /\ Idle.pc # "add"
    BY DEF AddInsert, Idle
  <1>1. CASE menu' = menu
    BY <1>0, <1>1, NothingDoomed, SameDoomSound DEF Idle
  <1>2. CASE Fits(request[r].row)
    <2>1. PICK row : row = request[r].row
      OBVIOUS
    <2>2. m \notin DOMAIN menu
      BY DEF AddInsert, TypeOK, IsTable
    <2>3. /\ DOMAIN menu' = DOMAIN menu \cup {m} /\ menu'[m] = row
          /\ \A k \in DOMAIN menu \ {m} : menu'[k] = menu[k]
      BY <1>2, <2>1, <2>2 DEF AddInsert, Insert
    <2>4. ~Outdated(request[r])
      BY <1>0, NotExcused
    <2>5. OfCode(row.code) = {}
      BY <1>0, <2>1, <2>4 DEF Outdated
    <2>6. PICK p \in Lasting \cup {Top} : row \in Places(row.code, p)
      BY <1>0, <2>1, <2>4 DEF Outdated
    <2>7. p \in (Lasting \ {m}) \cup {Top}
      BY <2>2 DEF Lasting
    <2>8. row \in NewRow
      BY <1>0, <2>1, RequestKinds
    <2>. QED
      BY <1>0, <2>2, <2>3, <2>5, <2>6, <2>7, <2>8, WrittenSound
  <1>. QED
    BY <1>1, <1>2 DEF AddInsert

LEMMA EditWriteSound ==
    ASSUME TypeOK, Sound, ~Excused, NEW r \in Requests, EditWrite(r)
    PROVE  Sound'
  <1>0. Continue(r, Idle) /\ request[r].pc = "edit" /\ Idle.pc # "edit"
    BY DEF EditWrite, Idle
  <1>1. CASE menu' = menu
    BY <1>0, <1>1, NothingDoomed, SameDoomSound DEF Idle
  <1>2. CASE menu' = Update(menu, request[r].menu, request[r].row)
             /\ request[r].menu \in DOMAIN menu
    <2>1. PICK row, m : row = request[r].row /\ m = request[r].menu
      OBVIOUS
    <2>2. m \in Menus /\ row \in NewRow
      BY <1>0, <2>1, RequestKinds
    <2>3. /\ DOMAIN menu' = DOMAIN menu \cup {m} /\ menu'[m] = row
          /\ \A k \in DOMAIN menu \ {m} : menu'[k] = menu[k]
      BY <1>2, <2>1, UpdateRows
    <2>4. ~EditsBadly(request[r]) /\ ~Outdated(request[r])
      BY <1>0, NotExcused
    <2>5. /\ OfCode(row.code) \subseteq {m} /\ row.pcode # menu[m].code
          /\ \A k \in DOMAIN menu : menu[k].pcode # menu[m].code
      BY <1>0, <1>2, <2>1, <2>4 DEF EditsBadly
    <2>6. PICK p \in Lasting \cup {Top} : row \in Places(row.code, p)
      BY <1>0, <2>1, <2>4 DEF Outdated
    <2>7. p \in (Lasting \ {m}) \cup {Top}
      BY <2>5, <2>6 DEF Places, Below
    <2>. QED
      BY <1>0, <2>2, <2>3, <2>5, <2>6, <2>7, WrittenSound
  <1>3. CASE menu' = Update(menu, request[r].menu, request[r].row)
             /\ request[r].menu \notin DOMAIN menu
    <2>1. Update(menu, request[r].menu, request[r].row) = menu
      BY <1>3 DEF Update, TypeOK, IsTable
    <2>. QED
      BY <1>1, <1>3, <2>1
  <1>. QED
    BY <1>1, <1>2, <1>3 DEF EditWrite

\* A menu and what its path finds go on the way out together: who is below one
\* of them is found as well.
LEMMA RemoveLoadSound ==
    ASSUME TypeOK, Sound, NEW r \in Requests, NEW m \in Menus, RemoveLoad(r, m)
    PROVE  Sound'
  <1> DEFINE code == IF m \in DOMAIN menu THEN {menu[m].code} ELSE {}
             q == [pc |-> "remove", code |-> code, todo |-> {m}, current |-> {}]
             leaving == {m} \cup UNION {SubMenus(c) : c \in code}
  <1>1. request[r] = Idle /\ menu' = menu /\ Continue(r, q)
    BY DEF RemoveLoad, Remove, tables
  <1>2. DoomedBy(q) = leaving /\ DoomedBy(request[r]) = {}
    BY <1>1 DEF DoomedBy, Idle
  <1>. HIDE DEF q
  <1>3. \A s \in Requests : (DoomedBy(request[s]))' = DoomedBy(request'[s])
    BY <1>1 DEF DoomedBy, SubMenus
  <1>4. Doomed' = Doomed \cup leaving
    BY <1>1, <1>2, <1>3, RequestAfter DEF Doomed
  <1>5. Lasting' = Lasting \ leaving
    BY <1>1, <1>4 DEF Lasting
  <1>6. ASSUME NEW k \in Lasting \ leaving, NEW p \in Lasting,
               menu[k].pcode = menu[p].code,
               menu[k].pcodes = Append(menu[p].pcodes, menu[p].code)
        PROVE  p \notin leaving
    <2> SUFFICES ASSUME p \in leaving PROVE k \in leaving
      BY <1>6
    <2>0. /\ p \in DOMAIN menu /\ k \in DOMAIN menu
          /\ menu[p].pcodes \in Seq(Codes \cup {Top})
          /\ menu[p].code \in Codes
      BY <1>6, RowOfMenu DEF Lasting, MenuRow
    <2> DEFINE path == menu[p].pcodes
               codes == Codes \cup {Top}
               last == menu[p].code
    <2>1. m \in DOMAIN menu
      BY <2>0
    <2>2. path \in Seq(codes) /\ last \in codes
      BY <2>0
    <2>3. menu[k].pcodes = Append(path, last)
      BY <1>6
    <2>4. p = m \/ InPath(menu[m].code, path)
      BY <2>1 DEF SubMenus
    <2>. HIDE DEF path, codes, last
    <2>5. /\ Len(path) \in Nat /\ Len(Append(path, last)) = Len(path) + 1
          /\ Append(path, last)[Len(path) + 1] = last
          /\ \A i \in 1..Len(path) : Append(path, last)[i] = path[i]
      BY <2>2
    <2>6. InPath(menu[m].code, Append(path, last))
      <3>1. CASE p = m
        BY <2>5, <3>1 DEF InPath, last
      <3>2. CASE InPath(menu[m].code, path)
        BY <2>5, <3>2 DEF InPath
      <3>. QED
        BY <2>4, <3>1, <3>2
    <2>7. k \in SubMenus(menu[m].code)
      BY <2>0, <2>3, <2>6 DEF SubMenus
    <2>. QED
      BY <2>1, <2>7
  <1>7. \A k \in Lasting \ leaving : Placed(menu[k], Lasting \ leaving)
    <2>. HIDE DEF leaving
    <2>. QED
      BY <1>6 DEF Sound, Placed
  <1>. HIDE DEF leaving
  <1>. QED
    BY <1>1, <1>5, <1>7 DEF Sound, Placed

\* The row that goes was on its way out.
LEMMA DeleteRowSound ==
    ASSUME TypeOK, Sound, NEW r \in Requests, NEW m \in Menus, DeleteRow(r, m)
    PROVE  Sound'
  <1> DEFINE q == [pc |-> "remove", code |-> request[r].code,
                   todo |-> request[r].todo \ {m}, current |-> {m}]
  <1>1. Continue(r, q) /\ menu' = Delete(menu, m) /\ m \in DoomedBy(request[r])
    BY DEF DeleteRow, Remove, DoomedBy
  <1>2. /\ DOMAIN menu' = DOMAIN menu \ {m}
        /\ \A k \in DOMAIN menu \ {m} : menu'[k] = menu[k]
    BY <1>1, DeleteRows
  <1>3. \A c : \A k \in DOMAIN menu \ {m} : k \in SubMenus(c)' <=> k \in SubMenus(c)
    BY <1>2 DEF SubMenus
  <1>4. \A k \in DOMAIN menu \ {m} :
            k \in (DoomedBy(request[r]))' <=> k \in DoomedBy(request[r])
    BY <1>1, <1>3, RequestAfter DEF DoomedBy, DeleteRow
  <1>5. ASSUME NEW s \in Requests \ {r}, NEW k \in DOMAIN menu \ {m}
        PROVE  k \in (DoomedBy(request[s]))' <=> k \in DoomedBy(request[s])
    <2>1. request'[s] = request[s]
      BY <1>1, RequestAfter
    <2>. QED
      BY <1>3, <2>1 DEF DoomedBy
  <1>6. \A s \in Requests, k \in DOMAIN menu \ {m} :
            k \in (DoomedBy(request[s]))' <=> k \in DoomedBy(request[s])
    BY <1>4, <1>5
  <1>7. m \notin Lasting
    BY <1>1 DEF Lasting, Doomed
  <1>8. Lasting' = Lasting
    BY <1>2, <1>6, <1>7 DEF Lasting, Doomed
  <1>9. Lasting \subseteq DOMAIN menu \ {m}
    BY <1>7 DEF Lasting
  <1>10. \A k \in Lasting : Placed(menu[k], Lasting)'
    BY <1>2, <1>8, <1>9 DEF Sound, Placed
  <1>. QED
    BY <1>2, <1>8, <1>10 DEF Sound

LEMMA NextSound ==
    ASSUME TypeOK, OneCodeInHand, Next, Sound, ~Excused
    PROVE  Sound'
  <1>1. ASSUME NEW r \in Requests, NEW c \in Codes, AddCheck(r, c)
        PROVE  Sound'
    <2>1. request[r].pc # "remove" /\ menu' = menu
      BY <1>1 DEF AddCheck, tables, Idle
    <2>. QED
      BY <1>1, <2>1, NothingDoomed, SameDoomSound DEF AddCheck
  <1>2. ASSUME NEW r \in Requests, NEW p \in Menus \cup {Top}, AddPlace(r, p)
        PROVE  Sound'
    BY <1>2, NothingDoomed, SameDoomSound DEF AddPlace, tables
  <1>3. ASSUME NEW r \in Requests, NEW m \in Menus, NEW c \in Codes,
               NEW p \in Menus \cup {Top}, EditPlace(r, m, c, p)
        PROVE  Sound'
    <2>1. request[r].pc # "remove" /\ menu' = menu
      BY <1>3 DEF EditPlace, Idle
    <2>. QED
      BY <1>3, <2>1, NothingDoomed, SameDoomSound DEF EditPlace
  <1>4. ASSUME NEW r \in Requests, DeleteRelations(r)
        PROVE  Sound'
    <2> DEFINE q == [pc |-> "remove", code |-> request[r].code,
                     todo |-> request[r].todo, current |-> {}]
    <2>1. menu' = menu /\ request[r].pc = "remove"
      BY <1>4 DEF DeleteRelations
    <2>2. CASE Continue(r, Idle) /\ request[r].todo = {} /\ request[r].code = {}
      <3>1. DoomedBy(request[r]) = {} /\ DoomedBy(Idle) = {}
        BY <2>2 DEF DoomedBy, Idle
      <3>. QED
        BY <2>1, <2>2, <3>1, SameDoomSound
    <2>3. CASE Continue(r, q)
      <3>1. DoomedBy(q) = DoomedBy(request[r])
        BY <2>1 DEF DoomedBy
      <3>. QED
        BY <2>1, <2>3, <3>1, SameDoomSound
    <2>. QED
      BY <1>4, <2>2, <2>3 DEF DeleteRelations, Remove
  <1>5. ASSUME NEW r \in Requests, RemoveSearch(r)
        PROVE  Sound'
    <2>1. PICK c \in request[r].code :
             /\ request[r].todo = {}
             /\ IF SubMenus(c) = {} THEN Continue(r, Idle)
                ELSE Remove(r, {}, SubMenus(c), {})
      BY <1>5 DEF RemoveSearch
    <2> DEFINE q == [pc |-> "remove", code |-> {}, todo |-> SubMenus(c),
                     current |-> {}]
    <2>2. DoomedBy(q) = SubMenus(c) /\ DoomedBy(Idle) = {} /\ menu' = menu
      BY <1>5 DEF RemoveSearch, DoomedBy, Idle, tables
    <2>3. request[r].code = {c} /\ request[r].pc = "remove"
      BY <1>5, <2>1 DEF RemoveSearch, OneCodeInHand
    <2>4. DoomedBy(request[r]) = SubMenus(c)
      BY <2>1, <2>3 DEF DoomedBy
    <2>5. Continue(r, q) \/ (Continue(r, Idle) /\ SubMenus(c) = {})
      BY <2>1 DEF Remove
    <2>. HIDE DEF q
    <2>. QED
      BY <2>2, <2>4, <2>5, SameDoomSound
  <1>6. ASSUME NEW r \in Requests, Break(r)
        PROVE  Sound'
    <2>1. Continue(r, Idle) /\ request[r] # Idle /\ menu' = menu
      BY <1>6 DEF Break, tables
    <2>2. DoomedBy(request[r]) = {} /\ DoomedBy(Idle) = {}
      BY <2>1, NotExcused DEF DoomedBy, Idle
    <2>. QED
      BY <2>1, <2>2, SameDoomSound
  <1>7. ASSUME UNCHANGED <<menu, request>>
        PROVE  Sound'
    BY <1>7 DEF Sound, Lasting, Doomed, DoomedBy, SubMenus, Placed
  <1>. QED
    BY <1>1, <1>2, <1>3, <1>4, <1>5, <1>6, <1>7, AddInsertSound, EditWriteSound,
       RemoveLoadSound, DeleteRowSound
    DEF Next, SetAuthority

\* Only an addition that has found no menu of its code goes on to look for the
\* parent.
LEMMA CheckedCodes ==
    ASSUME TypeOK, Next, NEW s \in Requests,
           request'[s].pc = "place", request'[s] # request[s]
    PROVE  OfCode(request'[s].code) = {}
  <1>1. ASSUME NEW r \in Requests, NEW q, Continue(r, q), q.pc # "place"
        PROVE  FALSE
    BY <1>1, RequestAfter
  <1>2. ASSUME NEW r \in Requests, NEW c \in Codes, AddCheck(r, c)
        PROVE  OfCode(request'[s].code) = {}
    <2>1. s = r /\ request'[r] = [pc |-> "place", code |-> c]
      BY <1>2, RequestAfter DEF AddCheck
    <2>. QED
      BY <1>2, <2>1 DEF AddCheck, CodeIsFree
  <1>3. ASSUME NEW r \in Requests, NEW code, NEW todo, NEW current,
               Remove(r, code, todo, current)
        PROVE  FALSE
    BY <1>1, <1>3 DEF Remove
  <1>4. ASSUME NEW r \in Requests, Continue(r, Idle) PROVE FALSE
    BY <1>1, <1>4 DEF Idle
  <1>5. ASSUME NEW r \in Requests, NEW p \in Menus \cup {Top}, AddPlace(r, p)
        PROVE  FALSE
    BY <1>1, <1>5 DEF AddPlace
  <1>6. ASSUME NEW r \in Requests, NEW m \in Menus, NEW c \in Codes,
               NEW p \in Menus \cup {Top}, EditPlace(r, m, c, p)
        PROVE  FALSE
    BY <1>1, <1>6 DEF EditPlace
  <1>. QED
    BY <1>2, <1>3, <1>4, <1>5, <1>6
    DEF Next, AddInsert, EditWrite, Break, SetAuthority, RemoveLoad, DeleteRow,
        DeleteRelations, RemoveSearch

\* For any number of menus, codes and threads and any length of the column:
\* additions and removals served one after another and to their end keep the
\* tree sound, and so does an edit of a menu with none below it that takes a
\* free code (MenuController.add, edit, MenuServiceImpl.delMenuContainSubMenus).
THEOREM BreaksAlwaysExplained == Spec => BrokenOnlyByEditsStopsOrOverlap
  <1>1. TypeOK /\ OneCodeInHand /\ [Next]_vars =>
           [/\ (Sound /\ ~Sound') => Excused
            /\ \A r \in Requests :
                 (request'[r].pc = "place" /\ request'[r] # request[r]) =>
                    OfCode(request'[r].code) = {}]_vars
    BY NextSound, CheckedCodes
  <1>. QED
    BY <1>1, MenuTypeCorrect, OneCodeAlways, PTL
    DEF Spec, BrokenOnlyByEditsStopsOrOverlap, Excused
=============================================================================
