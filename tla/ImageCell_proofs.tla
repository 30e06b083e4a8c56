-------------------------- MODULE ImageCell_proofs --------------------------
(***************************************************************************)
(* Proofs about ImageCell for any table, any list and any number of loads. *)
(***************************************************************************)
EXTENDS ImageCell, TLAPS, SequenceTheorems

\* Rows without a URL are never loaded, so their image is on show nowhere.
PlainRowsHaveNoImage ==
  /\ \A n \in 1 .. Len(loads) : loads[n].row \notin PlainRows
  /\ \A c \in Cells : image[c] \notin PlainRows

\* A load the view still waits for is the one of the row it shows, or of a
\* row it had before one without a URL; the spinner turns for that load.
WaitsForItsRow ==
  \A c \in Cells :
    /\ spinner[c] = current[c]
    /\ current[c] # 0 => current[c] \in underWay /\ loads[current[c]].cell = c
    /\ current[c] # 0 /\ row[c] \in Rows \ PlainRows => loads[current[c]].row = row[c]

IInv ==
  /\ TypeOK
  /\ PlainRowsHaveNoImage
  /\ WaitsForItsRow
  /\ OwnImage
  /\ NoneLeftBlank

LEMMA InitIInv == Init => IInv
  BY ImagesAssumption, PlainRowsAssumption
  DEF Init, IInv, TypeOK, PlainRowsHaveNoImage, WaitsForItsRow, OwnImage, NoneLeftBlank, Images

\* What Append leaves of the loads there were.
LEMMA NewLoad ==
  ASSUME TypeOK, NEW c \in Cells, NEW r \in Rows,
         loads' = Append(loads, [cell |-> c, row |-> r])
  PROVE  /\ Len(loads) \in Nat
         /\ loads' \in Seq([cell : Cells, row : Rows])
         /\ Len(loads') = Len(loads) + 1
         /\ loads'[Len(loads) + 1].cell = c
         /\ loads'[Len(loads) + 1].row = r
         /\ \A n \in 1 .. Len(loads) : loads'[n] = loads[n]
  <1>1. [cell |-> c, row |-> r] \in [cell : Cells, row : Rows]
    OBVIOUS
  <1>2. loads \in Seq([cell : Cells, row : Rows])
    BY DEF TypeOK
  <1>3. QED
    BY <1>1, <1>2, AppendProperties

-----------------------------------------------------------------------------
(* One step.                                                               *)

\* A row with a URL comes into sight.
LEMMA SetImageIInv ==
  ASSUME IInv, NEW c \in Cells, NEW r \in Rows \ PlainRows,
         row' = [row EXCEPT ![c] = r], SetImage(c, r)
  PROVE  IInv'
  <1> DEFINE new == Len(loads) + 1
  <1>1. /\ loads' = Append(loads, [cell |-> c, row |-> r])
        /\ underWay' = underWay \cup {new}
        /\ current' = [current EXCEPT ![c] = new]
        /\ spinner' = [spinner EXCEPT ![c] = new]
        /\ image' = [image EXCEPT ![c] = Blank]
        /\ failed' = failed \ {c}
    BY DEF SetImage
  <1>2. TypeOK /\ PlainRowsHaveNoImage /\ WaitsForItsRow /\ OwnImage /\ NoneLeftBlank
    BY DEF IInv
  <1>3. /\ Len(loads) \in Nat
        /\ loads' \in Seq([cell : Cells, row : Rows])
        /\ Len(loads') = new
        /\ loads'[new].cell = c /\ loads'[new].row = r
        /\ \A n \in 1 .. Len(loads) : loads'[n] = loads[n]
    BY <1>1, <1>2, NewLoad
  <1>4. /\ new # 0 /\ 0 .. Len(loads) \subseteq 0 .. new /\ new \in 0 .. new
        /\ 1 .. Len(loads) \subseteq 1 .. new /\ new \in 1 .. new
        /\ \A n \in 1 .. new : n \in 1 .. Len(loads) \/ n = new
        /\ \A n \in 0 .. Len(loads) : n # 0 => n \in 1 .. Len(loads)
    BY <1>3
  <1>5. Blank \in Images /\ Blank \notin PlainRows
    BY ImagesAssumption, PlainRowsAssumption DEF Images
  <1> HIDE DEF new
  <1>6. TypeOK'
    BY <1>1, <1>2, <1>3, <1>4, <1>5 DEF TypeOK
  <1>7. PlainRowsHaveNoImage'
    BY <1>1, <1>2, <1>3, <1>4, <1>5 DEF PlainRowsHaveNoImage, TypeOK
  <1>8. WaitsForItsRow'
    <2> SUFFICES ASSUME NEW d \in Cells
                 PROVE  /\ spinner'[d] = current'[d]
                        /\ current'[d] # 0 => /\ current'[d] \in underWay'
                                              /\ loads'[current'[d]].cell = d
                        /\ current'[d] # 0 /\ row'[d] \in Rows \ PlainRows
                             => loads'[current'[d]].row = row'[d]
      BY DEF WaitsForItsRow
    <2>1. CASE d = c
      BY <2>1, <1>1, <1>2, <1>3 DEF TypeOK
    <2>2. CASE d # c
      <3>1. current'[d] = current[d] /\ spinner'[d] = spinner[d] /\ row'[d] = row[d]
        BY <2>2, <1>1, <1>2 DEF TypeOK
      <3>2. current[d] # 0 => loads'[current[d]] = loads[current[d]]
        BY <1>2, <1>3, <1>4 DEF TypeOK
      <3>3. /\ spinner[d] = current[d]
            /\ current[d] # 0 => current[d] \in underWay /\ loads[current[d]].cell = d
            /\ current[d] # 0 /\ row[d] \in Rows \ PlainRows
                 => loads[current[d]].row = row[d]
        BY <1>2 DEF WaitsForItsRow
      <3>4. underWay \subseteq underWay'
        BY <1>1
      <3>5. QED
        BY ONLY <3>1, <3>2, <3>3, <3>4
    <2>3. QED
      BY <2>1, <2>2
  <1>9. OwnImage'
    BY <1>1, <1>2 DEF OwnImage, TypeOK
  <1>10. NoneLeftBlank'
    <2> SUFFICES ASSUME NEW d \in Cells, row'[d] \in Rows \ PlainRows
                 PROVE  \/ image'[d] = row'[d]
                        \/ current'[d] \in underWay' /\ loads'[current'[d]].row = row'[d]
                        \/ d \in failed'
      BY DEF NoneLeftBlank
    <2>1. CASE d = c
      BY <2>1, <1>1, <1>2, <1>3 DEF TypeOK
    <2>2. CASE d # c
      <3>1. /\ image'[d] = image[d] /\ current'[d] = current[d] /\ row'[d] = row[d]
            /\ d \in failed => d \in failed'
        BY <2>2, <1>1, <1>2 DEF TypeOK
      <3>2. current[d] \in underWay => loads'[current[d]] = loads[current[d]]
        BY <1>2, <1>3 DEF TypeOK
      <3>3. \/ image[d] = row[d]
            \/ current[d] \in underWay /\ loads[current[d]].row = row[d]
            \/ d \in failed
        BY <1>2, <3>1 DEF NoneLeftBlank
      <3>4. underWay \subseteq underWay'
        BY <1>1
      <3>5. QED
        BY ONLY <3>1, <3>2, <3>3, <3>4
    <2>3. QED
      BY <2>1, <2>2
  <1>11. QED
    BY <1>6, <1>7, <1>8, <1>9, <1>10 DEF IInv

\* A row without a URL comes into sight.
LEMMA SetDefaultIInv ==
  ASSUME IInv, NEW c \in Cells, NEW r \in PlainRows,
         row' = [row EXCEPT ![c] = r],
         image' = [image EXCEPT ![c] = Default],
         UNCHANGED <<current, spinner, loads, underWay, failed>>
  PROVE  IInv'
  <1>1. TypeOK'
    BY PlainRowsAssumption DEF IInv, TypeOK, Images
  <1>2. PlainRowsHaveNoImage'
    BY ImagesAssumption, PlainRowsAssumption DEF IInv, TypeOK, PlainRowsHaveNoImage
  <1>3. WaitsForItsRow'
    BY DEF IInv, TypeOK, WaitsForItsRow
  <1>4. OwnImage' /\ NoneLeftBlank'
    BY DEF IInv, TypeOK, OwnImage, NoneLeftBlank
  <1>5. QED
    BY <1>1, <1>2, <1>3, <1>4 DEF IInv

LEMMA CellForRowIInv ==
  ASSUME IInv, NEW c \in Cells, NEW r \in Rows, CellForRow(c, r)
  PROVE  IInv'
  <1>1. row' = [row EXCEPT ![c] = r]
    BY DEF CellForRow
  <1>2. CASE r \notin PlainRows /\ SetImage(c, r)
    BY <1>1, <1>2, SetImageIInv
  <1>3. CASE /\ r \in PlainRows
             /\ image' = [image EXCEPT ![c] = Default]
             /\ UNCHANGED <<current, spinner, loads, underWay, failed>>
    BY <1>1, <1>3, SetDefaultIInv
  <1>4. QED
    BY <1>2, <1>3 DEF CellForRow, SetupArticleCell

LEMMA OutOfSightIInv ==
  ASSUME IInv, NEW c \in Cells, OutOfSight(c)
  PROVE  IInv'
  <1>1. TypeOK'
    BY DEF IInv, TypeOK, OutOfSight
  <1>2. PlainRowsHaveNoImage'
    BY DEF IInv, PlainRowsHaveNoImage, OutOfSight
  <1>3. WaitsForItsRow' /\ OwnImage' /\ NoneLeftBlank'
    BY ImagesAssumption
    DEF IInv, TypeOK, WaitsForItsRow, OwnImage, NoneLeftBlank, OutOfSight
  <1>4. QED
    BY <1>1, <1>2, <1>3 DEF IInv

\* What the end of a load does to the cell it was made for, and to no other.
LEMMA LoadEndsFacts ==
  ASSUME IInv, NEW n \in 1 .. MaxLoads, NEW ok \in BOOLEAN, LoadEnds(n, ok)
  PROVE  /\ n \in 1 .. Len(loads)
         /\ n # 0
         /\ loads[n].cell \in Cells /\ loads[n].row \in Rows \ PlainRows
         /\ UNCHANGED <<row, loads>>
         /\ underWay' = underWay \ {n}
         /\ failed \subseteq failed' /\ failed' \subseteq Cells
         /\ \A d \in Cells :
              /\ current[d] # n => /\ image'[d] = image[d]
                                   /\ current'[d] = current[d]
                                   /\ spinner'[d] = spinner[d]
              /\ current[d] = n => /\ loads[n].cell = d
                                   /\ current'[d] = 0
                                   /\ spinner'[d] = 0
                                   /\ image'[d] \in {image[d], loads[n].row}
                                   /\ image'[d] = loads[n].row \/ d \in failed'
                                   /\ row[d] \in Rows \ PlainRows => loads[n].row = row[d]
  <1> DEFINE c == loads[n].cell
             mine == current[c] = n
  <1>1. /\ n \in underWay
        /\ underWay' = underWay \ {n}
        /\ spinner' = [spinner EXCEPT ![c] = IF @ = n THEN 0 ELSE @]
        /\ current' = [current EXCEPT ![c] = IF mine THEN 0 ELSE @]
        /\ image' = [image EXCEPT ![c] = IF mine /\ ok THEN loads[n].row ELSE @]
        /\ failed' = IF mine /\ ~ok THEN failed \cup {c} ELSE failed
        /\ UNCHANGED <<row, loads>>
    BY DEF LoadEnds
  <1>2. TypeOK /\ PlainRowsHaveNoImage /\ WaitsForItsRow
    BY DEF IInv
  <1>3. n \in 1 .. Len(loads) /\ n # 0
    BY <1>1, <1>2 DEF TypeOK
  <1>4. loads[n] \in [cell : Cells, row : Rows]
    <2>1. loads \in Seq([cell : Cells, row : Rows])
      BY <1>2 DEF TypeOK
    <2>2. QED
      BY ONLY <1>3, <2>1, ElementOfSeq
  <1>5. c \in Cells /\ loads[n].row \in Rows \ PlainRows
    BY <1>2, <1>3, <1>4 DEF PlainRowsHaveNoImage
  <1>6. \A d \in Cells : current[d] = n =>
          /\ c = d
          /\ row[d] \in Rows \ PlainRows => loads[n].row = row[d]
    BY <1>2, <1>3 DEF WaitsForItsRow
  <1>7. \A d \in Cells : spinner[d] = current[d]
    BY <1>2 DEF WaitsForItsRow
  <1> HIDE DEF c
  <1>8. ASSUME NEW d \in Cells
        PROVE  /\ current[d] # n => /\ image'[d] = image[d]
                                    /\ current'[d] = current[d]
                                    /\ spinner'[d] = spinner[d]
               /\ current[d] = n => /\ current'[d] = 0
                                    /\ spinner'[d] = 0
                                    /\ image'[d] \in {image[d], loads[n].row}
                                    /\ image'[d] = loads[n].row \/ d \in failed'
    <2>1. CASE d # c
      BY <2>1, <1>1, <1>2, <1>6 DEF TypeOK
    <2>2. CASE d = c
      BY <2>2, <1>1, <1>2, <1>7 DEF TypeOK
    <2>3. QED
      BY <2>1, <2>2
  <1>9. failed \subseteq failed' /\ failed' \subseteq Cells
    BY <1>1, <1>2, <1>5 DEF TypeOK
  <1>10. QED
    BY <1>1, <1>3, <1>5, <1>6, <1>8, <1>9 DEF c

LEMMA LoadEndsIInv ==
  ASSUME IInv, NEW n \in 1 .. MaxLoads, NEW ok \in BOOLEAN, LoadEnds(n, ok)
  PROVE  IInv'
  <1>1. TypeOK /\ PlainRowsHaveNoImage /\ WaitsForItsRow /\ OwnImage /\ NoneLeftBlank
    BY DEF IInv
  <1>2. TypeOK'
    <2>1. loads[n].cell \in Cells /\ loads[n].row \in Images
      BY LoadEndsFacts DEF Images
    <2>2. \A k \in Nat : 0 \in 0 .. k
      OBVIOUS
    <2>3. Len(loads) \in Nat
      BY <1>1 DEF TypeOK
    <2>4. failed' \subseteq Cells
      BY LoadEndsFacts
    <2>5. QED
      BY <1>1, <2>1, <2>2, <2>3, <2>4 DEF TypeOK, LoadEnds
  <1>3. PlainRowsHaveNoImage'
    BY <1>1, LoadEndsFacts DEF PlainRowsHaveNoImage
  <1>4. WaitsForItsRow'
    BY <1>1, LoadEndsFacts DEF WaitsForItsRow
  <1>5. OwnImage'
    BY <1>1, LoadEndsFacts DEF OwnImage
  <1>6. NoneLeftBlank'
    <2> SUFFICES ASSUME NEW d \in Cells, row[d] \in Rows \ PlainRows
                 PROVE  \/ image'[d] = row[d]
                        \/ current'[d] \in underWay' /\ loads[current'[d]].row = row[d]
                        \/ d \in failed'
      BY LoadEndsFacts DEF NoneLeftBlank
    <2>1. CASE current[d] = n
      BY <2>1, LoadEndsFacts
    <2>2. CASE current[d] # n
      <3>1. /\ image'[d] = image[d] /\ current'[d] = current[d]
            /\ underWay' = underWay \ {n} /\ failed \subseteq failed'
        BY <2>2, LoadEndsFacts
      <3>2. QED
        BY <1>1, <2>2, <3>1 DEF NoneLeftBlank
    <2>3. QED
      BY <2>1, <2>2
  <1>7. QED
    BY <1>2, <1>3, <1>4, <1>5, <1>6 DEF IInv

LEMMA NextIInv == IInv /\ [Next]_vars => IInv'
  <1> SUFFICES ASSUME IInv, [Next]_vars PROVE IInv'
    OBVIOUS
  <1>1. ASSUME NEW c \in Cells, NEW r \in Rows, CellForRow(c, r) PROVE IInv'
    BY <1>1, CellForRowIInv
  <1>2. ASSUME NEW c \in Cells, OutOfSight(c) PROVE IInv'
    BY <1>2, OutOfSightIInv
  <1>3. ASSUME NEW n \in 1 .. MaxLoads, Ends(n) PROVE IInv'
    BY <1>3, LoadEndsIInv DEF Ends
  <1>4. CASE UNCHANGED vars
    BY <1>4 DEF vars, IInv, TypeOK, PlainRowsHaveNoImage, WaitsForItsRow, OwnImage, NoneLeftBlank
  <1>5. QED
    BY <1>1, <1>2, <1>3, <1>4 DEF Next

LEMMA Invariance == Spec => []IInv
  BY InitIInv, NextIInv, PTL DEF Spec

-----------------------------------------------------------------------------
(* The theorems.                                                           *)

(* A cell, its image, its identifier and its spinner keep their types: the *)
(* fields of the image view that setupArticleCell and Kingfisher write.    *)
THEOREM TypeCorrect == Spec => []TypeOK
  <1>1. IInv => TypeOK
    BY DEF IInv
  <1>2. QED
    BY <1>1, Invariance, PTL

(* No scrolling and no order of answers shows an article with a URL the    *)
(* image of another, in a table of any size (ArticleTableViewCell.swift).  *)
THEOREM ImagesAreOwn == Spec => []OwnImage
  <1>1. IInv => OwnImage
    BY DEF IInv
  <1>2. QED
    BY <1>1, Invariance, PTL

(* No row in sight is forgotten by the cells and the loads: it shows its    *)
(* image, its own load is under way, or that load has failed.              *)
THEOREM NoneForgotten == Spec => []NoneLeftBlank
  <1>1. IInv => NoneLeftBlank
    BY DEF IInv
  <1>2. QED
    BY <1>1, Invariance, PTL

(* No late load takes the right image away from a row that stays in sight. *)
THEOREM ImagesStay == Spec => RightImageStays
  <1> DEFINE Stays == \A c \in Cells :
               row[c] # NoRow /\ row'[c] = row[c] /\ image[c] = row[c] => image'[c] = row[c]
  <1>1. ASSUME IInv, [Next]_vars PROVE [Stays]_vars
    <2> SUFFICES ASSUME NEW d \in Cells,
                        row[d] # NoRow, row'[d] = row[d], image[d] = row[d], Next
                 PROVE  image'[d] = row[d]
      BY <1>1
    <2>1. TypeOK /\ PlainRowsHaveNoImage
      BY <1>1 DEF IInv
    <2>2. row[d] \in Rows \ PlainRows
      BY <2>1 DEF TypeOK, PlainRowsHaveNoImage
    <2>3. ASSUME NEW c \in Cells, NEW r \in Rows, CellForRow(c, r) PROVE image'[d] = row[d]
      <3>1. d # c
        BY <2>3 DEF CellForRow
      <3>2. image'[d] = image[d]
        BY <2>1, <2>3, <3>1 DEF CellForRow, SetupArticleCell, SetImage, TypeOK
      <3>3. QED
        BY <3>2
    <2>4. ASSUME NEW c \in Cells, OutOfSight(c) PROVE image'[d] = row[d]
      BY <2>4 DEF OutOfSight
    <2>5. ASSUME NEW n \in 1 .. MaxLoads, Ends(n) PROVE image'[d] = row[d]
      <3>1. PICK ok \in BOOLEAN : LoadEnds(n, ok)
        BY <2>5 DEF Ends
      <3>2. QED
        BY <1>1, <2>2, <3>1, LoadEndsFacts
    <2>6. QED
      BY <2>3, <2>4, <2>5 DEF Next
  <1>2. IInv /\ [Next]_vars => [Stays]_vars
    BY <1>1
  <1>3. QED
    BY <1>2, Invariance, PTL DEF Spec, RightImageStays

=============================================================================
