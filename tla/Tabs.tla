-------------------------------- MODULE Tabs --------------------------------
(***************************************************************************)
(* The tabs of the window (contabs.js).  A tab is an element of the bar and *)
(* a frame of its own, joined only by the address of its page, and every    *)
(* operation changes the bar and the frames one element at a time.          *)
(***************************************************************************)
EXTENDS Integers, Sequences, SequencesExt, FiniteSets

CONSTANTS Page, Home
ASSUME HomeOK == Home \in Page

\* The bar: the order of the tabs and which are active.  The frames: which
\* there are and which are shown.
TabState == [order: Seq(Page), active: SUBSET Page,
             frames: SUBSET Page, shown: SUBSET Page]
InitialTabs == [order |-> <<Home>>, active |-> {Home},
                frames |-> {Home}, shown |-> {Home}]

IsOpen(t, p) == p \in ToSet(t.order)
Position(t, p) == CHOOSE i \in DOMAIN t.order : t.order[i] = p

\* .show().siblings().hide() on the frame of p, if there is one.
Show(t, p) == IF p \in t.frames THEN {p} ELSE t.shown

\* activeTab, and menuItem for a page that has a tab.
Activated(t, p) ==
    IF p \in t.active THEN t
    ELSE [t EXCEPT !.active = {p}, !.shown = Show(t, p)]

\* menuItem
Opened(t, p) ==
    IF IsOpen(t, p) THEN Activated(t, p)
    ELSE [order |-> Append(t.order, p), active |-> {p},
          frames |-> t.frames \cup {p}, shown |-> {p}]

Removed(t, p) ==
    [order |-> RemoveAt(t.order, Position(t, p)), active |-> t.active \ {p},
     frames |-> t.frames \ {p}, shown |-> t.shown \ {p}]

\* Bug: the tab after the one that is closed is not made active.
ClosedLeavingNone(t, p) == Removed(t, p)

\* closeTab.  The tab after the one that is closed becomes active, or the one
\* before it when it is the last.
Closed(t, p) ==
    LET i == Position(t, p)
        neighbour == IF i < Len(t.order) THEN t.order[i + 1] ELSE t.order[i - 1]
    IN IF p \notin t.active THEN Removed(t, p)
       ELSE Removed([t EXCEPT !.active = @ \cup {neighbour},
                              !.shown = Show(t, neighbour)], p)

\* The tabs that are among the pages, in the order of the bar.
Kept(order, pages) ==
    LET at == {i \in DOMAIN order : order[i] \in pages}
    IN [j \in 1..Cardinality(at) |->
           order[CHOOSE i \in at : Cardinality({k \in at : k <= i}) = j]]

\* closeOtherTabs
OthersClosed(t) ==
    LET first == Head(t.order)
        kept == {first} \cup t.active
        gone == ToSet(t.order) \ kept
    IN [t EXCEPT !.order = Kept(@, kept),
                 !.frames = @ \ gone, !.shown = @ \ gone]

\* J_tabCloseAll
AllClosed(t) ==
    LET first == Head(t.order)
        gone == ToSet(Tail(t.order))
    IN [order |-> <<first>>, active |-> (t.active \ gone) \cup {first},
        frames |-> t.frames \ gone, shown |-> (t.shown \ gone) \cup {first}]

\* Every tab has one frame and every frame a tab, one tab is active, and its
\* frame is the one that is seen; the first tab is always there.
InStep(t) ==
    /\ IsInjective(t.order) /\ t.order[1] = Home
    /\ t.frames = ToSet(t.order)
    /\ t.shown = t.active
    /\ \E p \in t.frames : t.active = {p}
=============================================================================
