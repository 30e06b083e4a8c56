------------------------------ MODULE ImageCell ------------------------------
(***************************************************************************)
(* The table cells of the article lists and the images they load with      *)
(* Kingfisher: setupArticleCell and the table that reuses its cells.       *)
(*                                                                         *)
(* A cell that scrolls out of sight is used again for another row, while   *)
(* the download for its earlier row goes on.  Kingfisher's setImage clears *)
(* the image and gives the view a new task identifier; a download that     *)
(* ends later is ignored unless its identifier is still the view's.  For a *)
(* row without a URL setupArticleCell only sets the default image: the     *)
(* identifier and the spinner of the earlier row stay.                     *)
(***************************************************************************)
EXTENDS Naturals, Sequences

CONSTANTS
  Cells,      \* the cells of the table
  Rows,       \* the articles of the list
  PlainRows,  \* the articles without the URL of an image
  NoRow,      \* the row of a cell that waits to be used again
  Blank,      \* no image
  Default,    \* news_default.png
  MaxLoads    \* bound: images asked for

ASSUME PlainRowsAssumption == PlainRows \subseteq Rows

ASSUME ImagesAssumption ==
  NoRow \notin Rows /\ Blank \notin Rows /\ Default \notin Rows /\ Blank # Default

ASSUME LoadsAssumption == MaxLoads \in Nat

VARIABLES
  row,      \* row[c]: the row cell c is for
  image,    \* image[c]: what its image view shows; a row stands for its image
  current,  \* current[c]: the task identifier of the image view, 0 for none
  spinner,  \* spinner[c]: the load whose spinner turns in cell c, or 0
  loads,    \* loads[n]: the cell and the row of the n-th load
  underWay, \* the loads that have not ended
  failed    \* history: the cells whose latest load brought no image

vars == <<row, image, current, spinner, loads, underWay, failed>>

Images == Rows \cup {Blank, Default}

Init ==
  /\ row = [c \in Cells |-> NoRow]
  /\ image = [c \in Cells |-> Blank]
  /\ current = [c \in Cells |-> 0]
  /\ spinner = [c \in Cells |-> 0]
  /\ loads = <<>> /\ underWay = {} /\ failed = {}

-----------------------------------------------------------------------------
(* The main thread.                                                        *)

\* Mutant: the old image stays until the new one is there.
SetImage_KeepsImage(c, r) ==
  /\ Len(loads) < MaxLoads
  /\ loads' = Append(loads, [cell |-> c, row |-> r])
  /\ underWay' = underWay \cup {Len(loads) + 1}
  /\ current' = [current EXCEPT ![c] = Len(loads) + 1]
  /\ spinner' = [spinner EXCEPT ![c] = Len(loads) + 1]
  /\ failed' = failed \ {c}
  /\ UNCHANGED image

\* Mutant: an identifier is issued for a load that never starts.
SetImage_NoTask(c, r) ==
  /\ Len(loads) < MaxLoads
  /\ current' = [current EXCEPT ![c] = Len(loads) + 1]
  /\ spinner' = [spinner EXCEPT ![c] = Len(loads) + 1]
  /\ image' = [image EXCEPT ![c] = Blank]
  /\ failed' = failed \ {c}
  /\ UNCHANGED <<loads, underWay>>

\* indicatorType = .activity and setImage.  A hit in the memory cache is a load
\* that ends at once.
SetImage(c, r) ==
  /\ Len(loads) < MaxLoads
  /\ loads' = Append(loads, [cell |-> c, row |-> r])
  /\ underWay' = underWay \cup {Len(loads) + 1}
  /\ current' = [current EXCEPT ![c] = Len(loads) + 1]
  /\ spinner' = [spinner EXCEPT ![c] = Len(loads) + 1]
  /\ image' = [image EXCEPT ![c] = Blank]
  /\ failed' = failed \ {c}

\* Mutant: nothing is loaded into a view that shows something already.
SetupArticleCell_OnlyIfBlank(c, r) ==
  \/ /\ r \notin PlainRows /\ image[c] = Blank
     /\ SetImage(c, r)
  \/ /\ r \notin PlainRows /\ image[c] # Blank
     /\ UNCHANGED <<image, current, spinner, loads, underWay, failed>>
  \/ /\ r \in PlainRows
     /\ image' = [image EXCEPT ![c] = Default]
     /\ UNCHANGED <<current, spinner, loads, underWay, failed>>

\* Mutant: the test of the URL is the wrong way round.
SetupArticleCell_Inverted(c, r) ==
  \/ /\ r \in PlainRows
     /\ SetImage(c, r)
  \/ /\ r \notin PlainRows
     /\ image' = [image EXCEPT ![c] = Default]
     /\ UNCHANGED <<current, spinner, loads, underWay, failed>>

\* setupArticleCell
SetupArticleCell(c, r) ==
  \/ /\ r \notin PlainRows
     /\ SetImage(c, r)
  \/ /\ r \in PlainRows
     /\ image' = [image EXCEPT ![c] = Default]
     /\ UNCHANGED <<current, spinner, loads, underWay, failed>>

\* A row comes into sight: cellForRowAt, with a cell that is new or used again.
CellForRow(c, r) ==
  /\ row[c] = NoRow
  /\ \A d \in Cells : row[d] # r
  /\ row' = [row EXCEPT ![c] = r]
  /\ SetupArticleCell(c, r)

\* A row goes out of sight, and its cell is kept for another.
OutOfSight(c) ==
  /\ row[c] # NoRow
  /\ row' = [row EXCEPT ![c] = NoRow]
  /\ UNCHANGED <<image, current, spinner, loads, underWay, failed>>

-----------------------------------------------------------------------------
(* Kingfisher's completion, on the main thread.                            *)

\* Mutant: the identifier is not looked at.
LoadEnds_AnyIdentifier(n, ok) ==
  LET c == loads[n].cell IN
    /\ n \in underWay
    /\ underWay' = underWay \ {n}
    /\ spinner' = [spinner EXCEPT ![c] = IF @ = n THEN 0 ELSE @]
    /\ current' = [current EXCEPT ![c] = 0]
    /\ image' = [image EXCEPT ![c] = IF ok THEN loads[n].row ELSE @]
    /\ failed' = IF ok THEN failed ELSE failed \cup {c}
    /\ UNCHANGED <<row, loads>>

\* Mutant: a download that was overtaken leaves its spinner on.
LoadEnds_NoStop(n, ok) ==
  LET c == loads[n].cell
      mine == current[c] = n
  IN
    /\ n \in underWay
    /\ underWay' = underWay \ {n}
    /\ spinner' = [spinner EXCEPT ![c] = IF mine /\ ok THEN 0 ELSE @]
    /\ current' = [current EXCEPT ![c] = IF mine THEN 0 ELSE @]
    /\ image' = [image EXCEPT ![c] = IF mine /\ ok THEN loads[n].row ELSE @]
    /\ failed' = IF mine /\ ~ok THEN failed \cup {c} ELSE failed
    /\ UNCHANGED <<row, loads>>

\* The spinner of this load is stopped; the image is set if the view has not
\* moved on to another load and the download has succeeded.
LoadEnds(n, ok) ==
  LET c == loads[n].cell
      mine == current[c] = n
  IN
    /\ n \in underWay
    /\ underWay' = underWay \ {n}
    /\ spinner' = [spinner EXCEPT ![c] = IF @ = n THEN 0 ELSE @]
    /\ current' = [current EXCEPT ![c] = IF mine THEN 0 ELSE @]
    /\ image' = [image EXCEPT ![c] = IF mine /\ ok THEN loads[n].row ELSE @]
    /\ failed' = IF mine /\ ~ok THEN failed \cup {c} ELSE failed
    /\ UNCHANGED <<row, loads>>

Ends(n) == \E ok \in BOOLEAN : LoadEnds(n, ok)

Next ==
  \/ \E c \in Cells, r \in Rows : CellForRow(c, r)
  \/ \E c \in Cells : OutOfSight(c)
  \/ \E n \in 1 .. MaxLoads : Ends(n)

\* Every load ends, by a timeout at the latest.  The user may never scroll.
Spec ==
  /\ Init /\ [][Next]_vars
  /\ \A n \in 1 .. MaxLoads : WF_vars(Ends(n))

-----------------------------------------------------------------------------
(* Properties.                                                             *)

TypeOK ==
  /\ row \in [Cells -> Rows \cup {NoRow}]
  /\ image \in [Cells -> Images]
  /\ current \in [Cells -> 0 .. Len(loads)]
  /\ spinner \in [Cells -> 0 .. Len(loads)]
  /\ loads \in Seq([cell : Cells, row : Rows])
  /\ underWay \subseteq 1 .. Len(loads)
  /\ failed \subseteq Cells

(* A cell shows the image of an article it is not for only if its own has  *)
(* none (ArticleTableViewCell.swift:29 does not stop the earlier load): no *)
(* order of scrolling and of answers shows one article the other's image.  *)
OwnImage ==
  \A c \in Cells :
    row[c] \in Rows \ PlainRows => image[c] \in {row[c], Blank}

(* The right image is never taken away again while its row is in sight, by *)
(* however many loads for earlier rows of the cell.                        *)
RightImageStays ==
  [][\A c \in Cells :
       row[c] # NoRow /\ row'[c] = row[c] /\ image[c] = row[c] => image'[c] = row[c]]_vars

(* A row in sight is never forgotten: it shows its image, or the load the  *)
(* view waits for is its own and is under way, or its load has failed.  No *)
(* reuse of the cell and no load that ends late leaves it blank for good.  *)
NoneLeftBlank ==
  \A c \in Cells : row[c] \in Rows \ PlainRows =>
    \/ image[c] = row[c]
    \/ current[c] \in underWay /\ loads[current[c]].row = row[c]
    \/ c \in failed

(* A row that stays in sight gets its image, unless its load fails.        *)
RowIsServed ==
  \A c \in Cells : \A r \in Rows \ PlainRows :
    row[c] = r ~> (image[c] = r \/ c \in failed \/ row[c] # r)

(* No spinner turns for ever, not even one that was left over the default  *)
(* image of a row without a URL.                                           *)
SpinnerStops ==
  \A c \in Cells : \A n \in 1 .. MaxLoads : spinner[c] = n ~> spinner[c] # n

=============================================================================
