--------------------------- MODULE WaterfallPane ---------------------------
(***************************************************************************)
(* The waterfall of the selected trace: its tree (trace.ts, layout.ts of   *)
(* packages/engine) and the rows a user has folded (Waterfall.tsx).  The   *)
(* component is kept, with what is folded, while the trace grows: a parent *)
(* may arrive after its children, and parents may form a cycle.            *)
(***************************************************************************)
EXTENDS Naturals, Sequences, FiniteSets

CONSTANTS
    Spans,          \* in the order the storage returns them
    NoSpan,         \* no parent
    Starts,         \* start times
    MaxFolds        \* bound on clicks of the user

\* The trace that is opened has a span, and another one is to come.
ASSUME WaterfallPaneAssumption ==
    /\ Cardinality(Spans) \in Nat \ {0, 1} /\ Spans = 1..Cardinality(Spans)
    /\ NoSpan \notin Spans
    /\ Starts \subseteq Nat

VARIABLES
    tree,           \* the spans of the trace, their parents and their starts
    stack,          \* the walk's stack, its top first; empty when the layout is made
    rows,           \* the rows laid out
    collapsed,      \* the spans folded
    folds

waterfallVars == <<tree, stack, rows, collapsed, folds>>

-----------------------------------------------------------------------------
\* A parent that is not in the trace is none.
Parent(t, s) == IF t.parent[s] \in t.spans THEN t.parent[s] ELSE NoSpan
Children(t, s) == {c \in t.spans : Parent(t, c) = s}

\* A stable sort of spans by a number that each has.
InTurn(spans, key) ==
    CHOOSE s \in [1..Cardinality(spans) -> spans] :
        /\ \A c \in spans : \E n \in DOMAIN s : s[n] = c
        /\ \A m, n \in DOMAIN s : m < n =>
             key[s[m]] < key[s[n]] \/ (key[s[m]] = key[s[n]] /\ s[m] <= s[n])

\* byStart
ByStart(t, spans) == InTurn(spans, t.start)

\* traceFromSpans: the first root in the order of the spans, or the earliest span.
RootSpan(t) ==
    LET roots == Children(t, NoSpan)
    IN  IF roots # {} THEN CHOOSE r \in roots : \A q \in roots : r <= q
        ELSE CHOOSE r \in t.spans :
               \A q \in t.spans : t.start[r] < t.start[q] \/ (t.start[r] = t.start[q] /\ r <= q)

Roots(t) == IF Children(t, NoSpan) # {} THEN Children(t, NoSpan) ELSE {RootSpan(t)}

At(spans, depth) == [i \in DOMAIN spans |-> [span |-> spans[i], depth |-> depth]]
InRows(s) == \E i \in DOMAIN rows : rows[i].span = s

\* All but the last span are there when the trace is opened.
WaterfallInit ==
    /\ tree \in [spans : {Spans \ {Cardinality(Spans)}},
                 parent : [Spans -> Spans \cup {NoSpan}], start : [Spans -> Starts]]
    /\ stack = At(ByStart(tree, Roots(tree)), 0)
    /\ rows = <<>>
    /\ collapsed = {}
    /\ folds = 0

\* One turn of the walk; a span that has its row is passed over.
Pop ==
    /\ stack # <<>>
    /\ LET top == Head(stack)
           children == Children(tree, top.span)
       IN  IF InRows(top.span) THEN stack' = Tail(stack) /\ UNCHANGED rows
           ELSE /\ stack' = At(ByStart(tree, children), top.depth + 1) \o Tail(stack)
                /\ rows' = Append(rows, [span |-> top.span, depth |-> top.depth,
                                         hasChildren |-> children # {}, appended |-> FALSE])
    /\ UNCHANGED <<tree, collapsed, folds>>

\* Spans that the walk does not reach are appended, so that none is dropped.
AppendLeft ==
    /\ stack = <<>> /\ Len(rows) < Cardinality(tree.spans)
    /\ LET left == InTurn({s \in tree.spans : ~InRows(s)}, [s \in tree.spans |-> s])
       IN  rows' = rows \o [i \in DOMAIN left |->
                      [span |-> left[i], depth |-> 0, hasChildren |-> FALSE, appended |-> TRUE]]
    /\ UNCHANGED <<tree, stack, collapsed, folds>>

LaidOut == stack = <<>> /\ Len(rows) = Cardinality(tree.spans)

-----------------------------------------------------------------------------
\* A mutant of VisibleRows: the siblings of a folded row are hidden too.
VisibleRowsBelow ==
    LET hide[n \in 0..Len(rows)] ==
            IF n = 0 THEN Len(rows)
            ELSE IF rows[n].depth >= hide[n - 1] THEN hide[n - 1]
            ELSE IF rows[n].span \in collapsed /\ rows[n].hasChildren THEN rows[n].depth ELSE Len(rows)
    IN  {rows[n] : n \in {k \in DOMAIN rows : rows[k].depth < hide[k - 1]}}

\* Rows deeper than the last folded one, at hideDepth, are skipped; hide[n] is
\* that depth after n rows.  No depth reaches Len(rows).
VisibleRows ==
    LET hide[n \in 0..Len(rows)] ==
            IF n = 0 THEN Len(rows)
            ELSE IF rows[n].depth > hide[n - 1] THEN hide[n - 1]
            ELSE IF rows[n].span \in collapsed /\ rows[n].hasChildren THEN rows[n].depth ELSE Len(rows)
    IN  {rows[n] : n \in {k \in DOMAIN rows : rows[k].depth <= hide[k - 1]}}

Collapsible == {rows[n].span : n \in {k \in DOMAIN rows : rows[k].hasChildren}}
AllCollapsed == Collapsible # {} /\ Cardinality(collapsed) >= Cardinality(Collapsible)

Fold == LaidOut /\ folds < MaxFolds /\ folds' = folds + 1

\* The caret of a row that is shown.
ToggleRow == \E row \in VisibleRows :
    /\ Fold
    /\ row.hasChildren
    /\ collapsed' = IF row.span \in collapsed THEN collapsed \ {row.span} ELSE collapsed \cup {row.span}
    /\ UNCHANGED <<tree, stack, rows>>

\* One button: expand all if everything is folded, else fold everything.
ToggleAll ==
    /\ Fold
    /\ Collapsible # {}
    /\ collapsed' = IF AllCollapsed THEN {} ELSE Collapsible
    /\ UNCHANGED <<tree, stack, rows>>

\* The trace is read again and has another span.
SpanArrives == \E s \in Spans \ tree.spans :
    /\ LaidOut
    /\ tree' = [tree EXCEPT !.spans = @ \cup {s}]
    /\ stack' = At(ByStart(tree', Roots(tree')), 0)
    /\ rows' = <<>>
    /\ UNCHANGED <<collapsed, folds>>

WaterfallNext == Pop \/ AppendLeft \/ ToggleRow \/ ToggleAll \/ SpanArrives

-----------------------------------------------------------------------------
\* Row j is an ancestor of row i, by their depths alone.
Above(j, i) == j < i /\ \A k \in (j + 1)..i : rows[k].depth > rows[j].depth
Hidden(i) == \E j \in DOMAIN rows : Above(j, i) /\ rows[j].span \in collapsed /\ rows[j].hasChildren

\* Whatever the order in which spans arrive, with missing parents and cycles:
\* every span has its row ("the layout never silently drops data", layout.ts:127);
\* a row stands below its parent's and after the earlier of its siblings; the
\* trace's root is no row's child; what is shown is what has no folded row above
\* it; and, but for a cycle, the button folds until there is nothing to fold.
WaterfallTrue ==
    LaidOut =>
        LET reached == {i \in DOMAIN rows : ~rows[i].appended}
            Up(i) == Parent(tree, rows[i].span)
        IN  /\ \A s \in tree.spans : InRows(s)
            /\ \A i \in reached : rows[i].depth > 0 =>
                 \E j \in reached : /\ Above(j, i) /\ rows[j].depth = rows[i].depth - 1
                                    /\ rows[j].span = Up(i)
            /\ \A i, j \in reached :
                 i < j /\ (rows[i].depth + rows[j].depth = 0 \/ Up(i) = Up(j))
                   => tree.start[rows[i].span] <= tree.start[rows[j].span]
            /\ \E i \in reached : rows[i].span = RootSpan(tree) /\ rows[i].depth = 0
            /\ VisibleRows = {rows[i] : i \in {k \in DOMAIN rows : ~Hidden(k)}}
            /\ reached = DOMAIN rows =>
                 (AllCollapsed <=> Collapsible # {} /\ Collapsible \subseteq collapsed)
=============================================================================
