------------------------------ MODULE Display ------------------------------
(***************************************************************************)
(* The output pane of a world (pager.py): DisplayBuffer, whose entries are *)
(* wrapped into rows and trimmed to a maximum, and its PagerState, which   *)
(* stops the output when a page is full and lets the user go on or scroll. *)
(* The text of an entry is its length, wrapping gives a number of rows.    *)
(***************************************************************************)
EXTENDS Integers, Sequences, FiniteSets

CONSTANTS
    MaxRows,      \* rows kept
    Lengths,      \* lengths of an entry
    Widths, Heights,
    Overlap,      \* rows of a page that the next page repeats
    MaxOutput,    \* bound: entries received
    MaxMoves      \* bound: keys and changes of the size

ASSUME DisplayAssumption ==
    /\ MaxRows \in Nat \ {0} /\ Overlap \in Nat
    /\ Lengths \subseteq Nat \ {0} /\ Widths \subseteq Nat \ {0} /\ Heights \subseteq Nat \ {0}
    /\ MaxOutput \in Nat /\ MaxMoves \in Nat

VARIABLES
    texts,        \* the entries, each with its length, its rows and _entry_row_offsets
    columns,      \* width
    screenStart,  \* _screen_start_entry
    pager,        \* PagerState
    frontier,     \* ghost: rows before this one have been on the screen or were passed over
    skipped,      \* ghost: a row has scrolled off without having been on the screen
    output, moves \* entries and moves so far

displayVars == <<texts, columns, screenStart, pager, frontier, skipped, output, moves>>

AtLeast0(n) == IF n < 0 THEN 0 ELSE n
Least(m, n) == IF m < n THEN m ELSE n

\* wrap_ansi_text
WrappedRows(length, width) == (length + width - 1) \div width
TotalRows(ts) == Cardinality(UNION {{i} \X (1..ts[i].rows) : i \in DOMAIN ts})

DisplayInit ==
    /\ texts = <<>> /\ columns \in Widths /\ screenStart = 0
    /\ \E h \in Heights :
          pager \in [height : {h}, total : {0}, end : {0}, top : {0}, mode : {"follow"},
                    budget : {h}, enabled : BOOLEAN]
    /\ frontier = 0 /\ skipped = FALSE /\ output = 0 /\ moves = 0

-----------------------------------------------------------------------------
(* PagerState: each operator returns the new state *)

PageSize(p) == IF p.height - Overlap > 1 THEN p.height - Overlap ELSE 1
TopMost(p) == AtLeast0(p.total - p.height)

JumpToEnd(p) ==
    [p EXCEPT !.end = p.total, !.top = TopMost(p), !.mode = "follow",
              !.budget = IF p.total = 0 THEN p.height ELSE PageSize(p)]

AppendRows(p, count) ==
    LET shown == Least(count, p.budget)
        end == p.end + shown
    IN IF ~p.enabled THEN JumpToEnd([p EXCEPT !.total = @ + count])
       ELSE IF p.mode # "follow" THEN [p EXCEPT !.total = @ + count]
       ELSE [p EXCEPT !.total = @ + count, !.end = end, !.top = AtLeast0(end - p.height),
                      !.budget = @ - shown, !.mode = IF shown < count THEN "paused" ELSE "follow"]

ScrollRows(p, amount) ==
    LET top == Least(TopMost(p), AtLeast0(p.top + amount)) IN
    IF top = TopMost(p)
    THEN [p EXCEPT !.top = top, !.mode = "follow", !.end = p.total, !.budget = PageSize(p)]
    ELSE [p EXCEPT !.top = top, !.mode = "scrolled"]

AdvancePage(p) ==
    LET end == Least(p.total, p.end + PageSize(p))
        next == [p EXCEPT !.end = end, !.top = AtLeast0(end - p.height)]
    IN CASE p.mode = "scrolled" -> ScrollRows(p, PageSize(p))
         [] p.mode = "follow" -> p
         [] OTHER -> IF end = p.total
                     THEN [next EXCEPT !.mode = "follow", !.budget = PageSize(p)] ELSE next

TrimPager(p, count) ==
    LET q == [p EXCEPT !.total = AtLeast0(@ - count), !.end = AtLeast0(@ - count),
                       !.top = AtLeast0(@ - count)]
    IN IF q.total = 0 \/ (q.mode = "paused" /\ q.end >= q.total) THEN JumpToEnd(q)
       ELSE IF q.mode = "scrolled" THEN [q EXCEPT !.top = Least(q.top, TopMost(q))]
       ELSE q

Clamp(p) == [p EXCEPT !.end = Least(AtLeast0(@), p.total), !.top = Least(AtLeast0(@), TopMost(p))]

ResizePager(p, height) ==
    LET q == [p EXCEPT !.height = height] IN
    Clamp(CASE q.mode = "follow" -> JumpToEnd(q)
            [] q.mode = "paused" -> [q EXCEPT !.top = AtLeast0(q.end - height)]
            [] OTHER -> [q EXCEPT !.top = Least(q.top, TopMost(q))])

\* round() of a product with a quotient, a half to the even neighbour
Scaled(total, part, whole) ==
    LET twice == (2 * total * part) \div whole
        exact == (2 * total * part) % whole = 0
        floor == twice \div 2
    IN IF twice % 2 = 0 THEN floor
       ELSE IF exact THEN (IF floor % 2 = 0 THEN floor ELSE floor + 1) ELSE floor + 1

Reflow(p, total) ==
    LET q == [p EXCEPT !.total = total,
                       !.end = Least(total, Scaled(total, p.end, p.total)),
                       !.top = Least(AtLeast0(total - p.height), Scaled(total, p.top, p.total))]
    IN IF p.mode = "follow" \/ p.total = 0 THEN JumpToEnd([p EXCEPT !.total = total])
       ELSE IF p.mode # "paused" THEN Clamp(q)
       ELSE IF q.end >= total THEN Clamp(JumpToEnd(q))
       ELSE Clamp([q EXCEPT !.top = AtLeast0(q.end - q.height)])

-----------------------------------------------------------------------------
(* DisplayBuffer *)

VisibleEnd(p) ==
    LET end == Least(p.total, p.top + p.height) IN
    IF p.mode = "paused" THEN Least(end, p.end) ELSE end

\* The rows that are shown count as seen; rows above them that never were are skipped.
Look(p, dropped) ==
    LET seen == AtLeast0(frontier - dropped) IN
    /\ frontier' = IF VisibleEnd(p) > seen THEN VisibleEnd(p) ELSE seen
    /\ skipped' = (skipped \/ p.top > seen)

\* What _trim_rows drops: whole entries, then the first rows of the next one.
Excess(ts) == AtLeast0(TotalRows(ts) - MaxRows)
WholeDropped(ts) ==
    CHOOSE k \in 0..Len(ts) :
        /\ TotalRows(SubSeq(ts, 1, k)) <= Excess(ts)
        /\ k = Len(ts) \/ TotalRows(SubSeq(ts, 1, k + 1)) > Excess(ts)
Trimmed(ts) ==
    LET k == WholeDropped(ts)
        rest == Excess(ts) - TotalRows(SubSeq(ts, 1, k))
        kept == SubSeq(ts, k + 1, Len(ts))
    IN IF rest = 0 THEN kept
       ELSE [kept EXCEPT ![1].rows = @ - rest, ![1].offset = @ + rest]

\* The entries ts and the pager p, trimmed; the screen starts at the same entry.
Trim(ts, p) ==
    /\ texts' = Trimmed(ts)
    /\ screenStart' = AtLeast0(screenStart - WholeDropped(ts))
    /\ pager' = IF Excess(ts) = 0 THEN p ELSE TrimPager(p, Excess(ts))

Receive(length) ==
    LET rows == WrappedRows(length, columns)
        ts == Append(texts, [length |-> length, rows |-> rows, offset |-> 0])
    IN /\ output < MaxOutput /\ output' = output + 1
       /\ Trim(ts, AppendRows(pager, rows))
       /\ Look(pager', Excess(ts))
       /\ UNCHANGED <<columns, moves>>

\* Seeded fault: the offset of an entry that had been cut is kept.
RewrappedOffset(width) ==
    [i \in DOMAIN texts |-> [texts[i] EXCEPT !.rows = WrappedRows(texts[i].length, width)]]

Rewrapped(width) ==
    [i \in DOMAIN texts |->
        [texts[i] EXCEPT !.rows = WrappedRows(texts[i].length, width), !.offset = 0]]

Resize(width, height) ==
    LET ts == Rewrapped(width)
        reflowed == Reflow(pager, TotalRows(ts))
        trimmed == IF Excess(ts) = 0 THEN reflowed ELSE TrimPager(reflowed, Excess(ts))
    IN /\ moves < MaxMoves /\ moves' = moves + 1
       /\ <<width, height>> # <<columns, pager.height>>
       /\ columns' = width
       /\ IF width = columns
          THEN /\ pager' = ResizePager(pager, height)
               /\ Look(pager', 0)
               /\ UNCHANGED <<texts, screenStart>>
          ELSE /\ texts' = Trimmed(ts)
               /\ screenStart' = AtLeast0(screenStart - WholeDropped(ts))
               /\ pager' = ResizePager(trimmed, height)
               \* the place is only kept in proportion: what has been seen is set anew
               /\ frontier' = IF pager'.mode = "paused" THEN pager'.end ELSE pager'.total
               /\ UNCHANGED skipped
       /\ UNCHANGED output

Key(p) ==
    /\ moves < MaxMoves /\ moves' = moves + 1
    /\ pager' = p /\ Look(p, 0)
    /\ UNCHANGED <<texts, columns, screenStart, output>>

PageDown == Key(IF pager.mode = "paused" THEN AdvancePage(pager)
                ELSE ScrollRows(pager, PageSize(pager)))

\* Also brings back what ClearScreen put out of reach.
PageUp ==
    /\ moves < MaxMoves /\ moves' = moves + 1
    /\ pager' = ScrollRows(pager, -PageSize(pager)) /\ Look(pager', 0) /\ screenStart' = 0
    /\ UNCHANGED <<texts, columns, output>>

\* The user asks for the end, or for an empty screen: what was not seen is passed over.
GoToEnd ==
    /\ moves < MaxMoves /\ moves' = moves + 1
    /\ pager' = JumpToEnd(pager) /\ frontier' = pager.total
    /\ UNCHANGED <<texts, columns, screenStart, skipped, output>>

ClearScreen ==
    /\ moves < MaxMoves /\ moves' = moves + 1
    /\ pager' = [JumpToEnd(pager) EXCEPT !.budget = pager.height] /\ frontier' = pager.total
    /\ screenStart' = Len(texts)
    /\ UNCHANGED <<texts, columns, skipped, output>>

RestoreScrollback ==
    /\ moves < MaxMoves /\ moves' = moves + 1
    /\ screenStart' = 0
    /\ UNCHANGED <<texts, columns, pager, frontier, skipped, output>>

DisplayNext ==
    \/ \E length \in Lengths : Receive(length)
    \/ \E w \in Widths, h \in Heights : Resize(w, h)
    \/ PageDown \/ PageUp \/ GoToEnd \/ ClearScreen \/ RestoreScrollback

DisplaySpec == DisplayInit /\ [][DisplayNext]_displayVars

-----------------------------------------------------------------------------
(* Properties *)

\* With the pager on, no row leaves the top of the pane that was never in it, unless the
\* user went to the end, cleared the screen or changed the width (pager.py append_rows,
\* advance, scroll_rows, trim_rows, resize).
NothingSkipped == pager.enabled => ~skipped

\* The pager stands where its mode says and counts the rows that the buffer has; cutting,
\* wrapping anew and scrolling never leave it paused with nothing more to show
\* (pager.py trim_rows, reflow, resize).
PagerAgrees ==
    /\ pager.total = TotalRows(texts) /\ pager.total <= MaxRows /\ pager.top <= TopMost(pager)
    /\ pager.mode = "follow" => pager.end = pager.total /\ pager.top = TopMost(pager)
    /\ pager.mode = "paused" => pager.end < pager.total
    /\ screenStart <= Len(texts)

\* The rows kept of an entry are those that wrapping it again gives after its offset, which
\* is what a frame of an animated entry is cut from (pager.py _trim_rows, visible_rows).
RowsAligned ==
    \A i \in DOMAIN texts :
        /\ texts[i].rows > 0 /\ texts[i].offset >= 0
        /\ texts[i].offset + texts[i].rows = WrappedRows(texts[i].length, columns)

\* The output pane as a whole: the pager lets no row pass unseen, what it shows agrees with
\* what it holds, and the rows stay those of the lines after every rewrap.
PaneSound == NothingSkipped /\ PagerAgrees /\ RowsAligned
=============================================================================
