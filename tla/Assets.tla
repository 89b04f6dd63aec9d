------------------------------- MODULE Assets -------------------------------
(***************************************************************************)
(* An asset and its depreciation board (account_asset_management), from    *)
(* the draft to the removal.  The board has one line for each period; a    *)
(* line is posted when it has a journal entry, "init" when it stands for   *)
(* what was depreciated before.  Computing the board keeps those lines and *)
(* replaces the others from the depreciation table, putting what the table *)
(* and the past disagree about into the first of them.                     *)
(*                                                                         *)
(* A method is one transaction, which an error undoes.  The wizard of the  *)
(* removal keeps what it was opened with.  Posting the entries in draft is *)
(* the accounting's, external.  Lines of one type and date are numbered.   *)
(***************************************************************************)
EXTENDS DepreciationTable, FiniteSets

CONSTANTS
  Purchase, Salvage,  \* the amounts an asset may have
  MaxYears,
  LineAmount          \* what a user may type as the amount of a line

ASSUME AssetsAssumption ==
  /\ Purchase \subseteq Nat /\ Salvage \subseteq Nat
  /\ MaxYears \in Nat \ {0}
  /\ LineAmount \subseteq Int

VARIABLES
  asset,      \* the row of account_asset
  lines,      \* its lines but the first, of type "create"
  removal,    \* early_removal of the removal wizards that are open
  trigger,    \* has a fiscal year changed since the boards were computed?
  computed,   \* history: does the board come from the computation?
  undone,     \* history: was a removal undone since the asset was last open?
  late        \* history: was it removed by a wizard that was out of date?

assetVars == <<asset, lines, removal, trigger, computed, undone, late>>

AssetRow ==
  [state : {"draft", "open", "close", "removed"},
   purchase : Purchase, salvage : Salvage, method : Methods, years : 1 .. MaxYears,
   prorata : BOOLEAN, start : 0 .. PeriodsPerYear - 1,
   closed : BOOLEAN,           \* is the fiscal year of the start closed?
   autopost : BOOLEAN]         \* entry_posted of the journal

AssetLine ==
  [type : {"depreciate", "remove"}, date : Nat,
   nth : Nat \ {0},            \* which one of its type and date
   amount : Int, move : {"none", "draft", "posted"}, init : BOOLEAN]

AssetTypeOK ==
  /\ asset \in AssetRow
  /\ IsFiniteSet(lines) /\ \A l \in lines : l \in AssetLine
  /\ removal \subseteq BOOLEAN
  /\ {trigger, computed, undone, late} \subseteq BOOLEAN

AssetInit ==
  /\ asset \in {a \in AssetRow : a.state = "draft" /\ a.salvage < a.purchase}
  /\ lines = {}
  /\ removal = {}
  /\ trigger = FALSE
  /\ computed = FALSE
  /\ undone = FALSE
  /\ late = FALSE

-----------------------------------------------------------------------------
Depreciations(ls) == {l \in ls : l.type = "depreciate"}
Kept(ls) == {l \in Depreciations(ls) : l.move # "none" \/ l.init}
Unposted(ls) == Depreciations(ls) \ Kept(ls)

Total(ls) == SumFunctionOnSet([l \in ls |-> l.amount], ls)
Dates(ls) == {l.date : l \in ls}

\* The number of another line of a type and date
Another(ls, type, date) ==
  Max({0} \cup {l.nth : l \in {m \in ls : m.type = type /\ m.date = date}}) + 1

\* The first day of the asset
DateStart(a) == Day(a.start) + 1

\* _compute_depreciation
ValueResidual(a, ls) ==
  DepreciationBase(a) - Total({l \in ls : l.move # "none" \/ l.init})

-----------------------------------------------------------------------------
(* The board *)

\* The table, as compute_depreciation_board finds its place in it: the index of
\* the first line after the past, and what the table leaves before that line.
NextLine(a, table, ls) ==
  LET last == Max(Dates(Kept(ls)))
      yearOf == (last - 1) \div Day(PeriodsPerYear) + 1
      same == {k \in DOMAIN table : table[k].year = yearOf}
      ahead == {k \in same : table[k].date >= last}
      here == IF ahead = {} THEN Max(same) ELSE Min(ahead)
  IN  IF Kept(ls) = {} THEN [index |-> 1, left |-> DepreciationBase(a)]
      ELSE IF last = Day(PeriodsPerYear) * yearOf
      THEN [index |-> Max(same) + 1, left |-> table[Max(same)].remaining]
      ELSE [index |-> IF table[here].date = last THEN here + 1 ELSE here,
            left |-> table[here].remaining]

\* The duration must reach beyond the past.
Reaches(table, last) == table[Len(table)].date > last

Computable(a, ls) ==
  Kept(ls) # {} /\ ValueResidual(a, ls) # 0 =>
    Reaches(DepreciationTable(a), Max(Dates(Kept(ls))))

\* As a bug would have it: the amounts are those of the table.
TableAmounts(a, table, next, past) == [k \in next.index .. Len(table) |-> table[k].amount]

\* The amounts of the lines from the next one on, past being what the others have
\* depreciated: what the table and the past disagree about goes into the first,
\* and the last takes what remains.
BoardAmounts(a, table, next, past) ==
  LET gap == next.left - (DepreciationBase(a) - past)
      upTo[k \in next.index - 1 .. Len(table)] ==
        IF k = next.index - 1 THEN past
        ELSE IF k = Len(table) THEN Depreciable(a)
        ELSE upTo[k - 1] + table[k].amount - (IF k = next.index THEN gap ELSE 0)
  IN  [k \in next.index .. Len(table) |-> upTo[k] - upTo[k - 1]]

\* The lines it creates for these amounts, next to those of ls
NewLines(a, table, amounts, ls) ==
  {[type |-> "depreciate", date |-> table[k].date, nth |-> Another(ls, "depreciate", table[k].date),
    amount |-> amounts[k], move |-> "none", init |-> a.closed /\ table[k].year = 1] :
     k \in {j \in DOMAIN amounts : amounts[j] # 0}}

Board(a, table, ls) ==
  LET kept == ls \ Unposted(ls)
  IN  kept \cup
      NewLines(a, table, BoardAmounts(a, table, NextLine(a, table, ls), Total(Kept(ls))), kept)

\* The lines after compute_depreciation_board
Computed(a, ls) ==
  IF ValueResidual(a, ls) = 0 THEN ls ELSE Board(a, DepreciationTable(a), ls)

\* compute_depreciation_board, from its button
ComputeDepreciationBoard ==
  /\ asset.state \in {"draft", "open"}
  /\ Computable(asset, lines)
  /\ lines' = Computed(asset, lines)
  /\ computed' = (computed \/ ValueResidual(asset, lines) # 0)
  /\ UNCHANGED <<asset, removal, trigger, undone, late>>

\* modify: the wizard that changes the duration
Modify(years) ==
  LET modified == [asset EXCEPT !.years = years]
  IN  /\ asset.state = "open"
      /\ Computable(modified, lines)
      /\ asset' = modified
      /\ lines' = Computed(modified, lines)
      /\ computed' = (ValueResidual(modified, lines) # 0)
      /\ UNCHANGED <<removal, trigger, undone, late>>

\* A user edits the parameters of a draft.
Edit(method, years) ==
  /\ asset.state = "draft"
  /\ asset' = [asset EXCEPT !.method = method, !.years = years]
  /\ asset' # asset
  /\ computed' = FALSE
  /\ UNCHANGED <<lines, removal, trigger, undone, late>>

\* write, of a line of a draft that is not posted: nothing posted may come before
\* an "init" line.
EditLine(l, amount, init) ==
  /\ asset.state = "draft"
  /\ l.move = "none"
  /\ init => \A other \in Depreciations(lines) : other.date <= l.date => other.move = "none"
  /\ lines' = (lines \ {l}) \cup {[l EXCEPT !.amount = amount, !.init = init]}
  /\ computed' = FALSE
  /\ UNCHANGED <<asset, removal, trigger, undone, late>>

-----------------------------------------------------------------------------
(* Journal entries *)

\* validate
Validate ==
  /\ asset.state = "draft"
  /\ asset' = [asset EXCEPT !.state =
                 IF ValueResidual(asset, lines) = 0 THEN "close" ELSE "open"]
  /\ undone' = FALSE
  /\ UNCHANGED <<lines, removal, trigger, computed, late>>

SetToDraft ==
  /\ asset.state \in {"open", "close"}
  /\ asset' = [asset EXCEPT !.state = "draft"]
  /\ UNCHANGED <<lines, removal, trigger, computed, undone, late>>

\* As a bug would have it: the last line is posted, whatever the others are.
CloseAfterTheLast(ls) ==
  IF \E l \in Kept(ls) : l.date = Max(Dates(Depreciations(ls)))
  THEN [asset EXCEPT !.state = "close"] ELSE asset

\* _set_close_asset_zero_value
SetCloseAssetZeroValue(ls) ==
  IF ValueResidual(asset, ls) = 0 /\ \A l \in ls : l.move \in {"none", "posted"}
  THEN [asset EXCEPT !.state = "close"] ELSE asset

\* The lines ls with the lines of S posted: create_move
Posted(ls, S) ==
  (ls \ S) \cup
  {[l EXCEPT !.move = IF asset.autopost THEN "posted" ELSE "draft"] : l \in S}

CreateMove(l) ==
  /\ asset.state = "open"
  /\ l \in Unposted(lines)
  /\ lines' = Posted(lines, {l})
  /\ asset' = SetCloseAssetZeroValue(lines')
  /\ UNCHANGED <<removal, trigger, computed, undone, late>>

\* The lines of a board that are posted with a period
DueIn(board, period) == {l \in Unposted(board) : l.date \in {Day(period) - 1, Day(period)}}

\* _compute_entries of a board: the lines of a period, when none before it waits
PostDue(board, period) ==
  /\ \A l \in Unposted(board) : l.date > Day(period - 1)
  /\ lines' = Posted(board, DueIn(board, period))
  /\ asset' = IF DueIn(board, period) = {} THEN asset ELSE SetCloseAssetZeroValue(lines')

\* asset_compute: an error of the computation undoes it all
ComputeEntries(period) ==
  /\ asset.state = "open"
  /\ trigger => Computable(asset, lines)
  /\ PostDue(IF trigger THEN Computed(asset, lines) ELSE lines, period)
  /\ computed' = (computed \/ (trigger /\ ValueResidual(asset, lines) # 0))
  /\ trigger' = FALSE
  /\ UNCHANGED <<removal, undone, late>>

\* A fiscal year is created or changed so that its duration is not a year.  Here
\* the change is in years that the table does not depend on.
FiscalYearChanges ==
  /\ ~trigger
  /\ trigger' = TRUE
  /\ UNCHANGED <<asset, lines, removal, computed, undone, late>>

\* A draft entry is posted
PostMove(l) ==
  /\ l.move = "draft"
  /\ lines' = (lines \ {l}) \cup {[l EXCEPT !.move = "posted"]}
  /\ UNCHANGED <<asset, removal, trigger, computed, undone, late>>

\* unlink_move: the entry of a line is deleted; with the entry of a removal, the
\* line goes, too, and the asset is closed, whatever it was before.
UnlinkMove(l) ==
  /\ l.move # "none"
  /\ IF l.type = "remove" /\ asset.state = "removed"
     THEN /\ lines' = lines \ {l}
          /\ asset' = [asset EXCEPT !.state = "close"]
          /\ computed' = FALSE
          /\ undone' = TRUE
     ELSE /\ lines' = (lines \ {l}) \cup {[l EXCEPT !.move = "none"]}
          /\ asset' = [asset EXCEPT !.state = IF @ = "close" THEN "open" ELSE @]
          /\ UNCHANGED <<computed, undone>>
  /\ UNCHANGED <<removal, trigger, late>>

-----------------------------------------------------------------------------
(* The removal *)

\* early_removal
Early(a, ls) ==
  ValueResidual(a, ls) # (IF UpToSalvage(a) THEN a.salvage ELSE 0)

\* The button of the asset opens the wizard
OpenRemoval ==
  /\ asset.state \in {"open", "close"}
  /\ removal' = removal \cup {Early(asset, lines)}
  /\ removal' # removal
  /\ UNCHANGED <<asset, lines, trigger, computed, undone, late>>

\* What is left of a line when it is cut to the days from since to the one before
CutAmount(line, since, day) ==
  LET n == (day - 1 - since) * line.amount
      d == line.date - since
      size(x) == Max({x, -x})
      quotient == RoundedQuotient(size(n), size(d))
  IN  IF (n < 0) = (d < 0) THEN quotient ELSE -quotient

\* The lines when the first that is not posted is cut and posted, and the others
\* are deleted
CutOff(board, first, day, amount) ==
  LET kept == board \ Unposted(board)
      cut == [first EXCEPT !.date = day - 1, !.amount = amount,
                           !.nth = Another(kept, "depreciate", day - 1)]
  IN  IF amount = 0 THEN kept ELSE Posted(kept \cup {cut}, {cut})

\* The date of the depreciation before a line
Since(board, line) ==
  LET earlier == {d \in Dates(Depreciations(board)) : d < line.date}
  IN  IF earlier = {} THEN DateStart(asset) ELSE Max(earlier)

\* The lines after _prepare_early_removal on a day
EarlyRemoval(board, first, day) ==
  CutOff(board, first, day, CutAmount(first, Since(board, first), day))

\* A line may be cut where nothing was posted later.
Cuttable(board, day) ==
  \A d \in Dates(Kept(board)) \cup {DateStart(asset)} : d < day

\* remove, of the wizard, for the lines that are left: the rest is written off.
WriteOff(early, day, cut) ==
  LET dates == Dates(Depreciations(cut)) \cup
               (IF Depreciations(cut) = {} THEN {DateStart(asset)} ELSE {})
  IN  /\ early \in removal
      /\ day >= Max(dates)
      /\ lines' = cut \cup {[type |-> "remove", date |-> day, nth |-> Another(cut, "remove", day),
                             amount |-> ValueResidual(asset, cut), move |-> "draft",
                             init |-> FALSE]}
      /\ asset' = [asset EXCEPT !.state = "removed"]
      /\ removal' = removal \ {early}
      /\ late' = (late \/ asset.state \notin {"open", "close"} \/ early # Early(asset, lines))
      /\ UNCHANGED <<trigger, computed, undone>>

\* The removal of an asset that is depreciated
RemoveDepreciated(day) == WriteOff(FALSE, day, lines)

\* The removal of an asset that is not
RemoveEarly(board, day) ==
  \E first \in Unposted(board) :
    /\ first.date = Min(Dates(Unposted(board)))
    /\ day <= first.date
    /\ first.date # Since(board, first)      \* or else it divides by zero
    /\ \E cut \in {EarlyRemoval(board, first, day)} :
         /\ cut # board \ Unposted(board) => Cuttable(board, day)
         /\ WriteOff(TRUE, day, cut)

Remove(early, day) ==
  \/ ~early /\ RemoveDepreciated(day)
  \/ early /\ Unposted(lines) # {} /\ RemoveEarly(lines, day)
  \/ early /\ Unposted(lines) = {} /\ Computable(asset, lines)
       /\ RemoveEarly(Computed(asset, lines), day)

-----------------------------------------------------------------------------
BoardStep ==
  \/ ComputeDepreciationBoard
  \/ \E years \in 1 .. MaxYears : Modify(years)
  \/ \E method \in Methods, years \in 1 .. MaxYears : Edit(method, years)
  \/ \E l \in lines, amount \in LineAmount, init \in BOOLEAN : EditLine(l, amount, init)

EntryStep ==
  \/ Validate
  \/ SetToDraft
  \/ \E l \in lines : CreateMove(l) \/ PostMove(l) \/ UnlinkMove(l)
  \/ \E period \in 1 .. (MaxYears + 1) * PeriodsPerYear : ComputeEntries(period)
  \/ FiscalYearChanges

RemovalStep ==
  \/ OpenRemoval
  \/ \E early \in BOOLEAN, day \in 1 .. Day((MaxYears + 1) * PeriodsPerYear) : Remove(early, day)

AssetNext == BoardStep \/ EntryStep \/ RemovalStep

AssetSpec == AssetInit /\ [][AssetNext]_assetVars

-----------------------------------------------------------------------------
(* Properties *)

\* A board that was computed depreciates exactly what it should, to the cent,
\* whatever was posted or entered before; the removal takes what is left.  A
\* removal by a wizard that was out of date is an exception.
BoardAddsUp ==
  computed /\ ~late =>
    Total(lines) = IF asset.state = "removed" THEN DepreciationBase(asset) ELSE Depreciable(asset)

\* A closed asset is fully depreciated, unless its removal was undone, which
\* closes it whatever is left.
ClosedIsDepreciated ==
  asset.state = "close" /\ ~undone => ValueResidual(asset, lines) = 0
=============================================================================
