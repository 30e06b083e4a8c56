------------------------- MODULE CategorizedSources -------------------------
(***************************************************************************)
(* The list of sources, grouped by category, of                            *)
(* NewsDay/NewsDay/Models/CategorizedSources.swift: how populate builds it *)
(* source by source, what flatten makes of it, and what arrives when the   *)
(* phone archives it and the watch decodes it.                             *)
(***************************************************************************)
EXTENDS Naturals, Sequences, SequencesExt

CONSTANTS
  Ids,         \* what distinguishes sources apart from their category
  Categories,  \* category names; a source without one has the empty name
  MaxSources   \* bound: length of the list that is downloaded

ASSUME MaxSourcesAssumption == MaxSources \in Nat

Sources == [id : Ids, category : Categories]

VARIABLES
  input,       \* the sources that were downloaded
  next,        \* the loop of populate: the source it handles next
  categories,  \* the category names, one per section
  details      \* the sources of each section

vars == <<input, next, categories, details>>

Init ==
  /\ input \in BoundedSeq(Sources, MaxSources)
  /\ next = 1
  /\ categories = <<>>
  /\ details = <<>>

\* categories.firstIndex(of:), for a category that is there
FirstIndex(category) ==
  CHOOSE i \in 1 .. Len(categories) :
    /\ categories[i] = category
    /\ \A j \in 1 .. i - 1 : categories[j] # category

\* Mutant: the new section starts empty and the source is left out.
NewSection_LeftOut(source) ==
  /\ categories' = Append(categories, source.category)
  /\ details' = Append(details, <<>>)

\* A source whose category is new: a section of its own.
NewSection(source) ==
  /\ categories' = Append(categories, source.category)
  /\ details' = Append(details, <<source>>)

\* A source whose category is there: the end of its section.
OldSection(source) ==
  /\ details' = [details EXCEPT ![FirstIndex(source.category)] = Append(@, source)]
  /\ UNCHANGED categories

\* Mutant: only the latest section is compared.
Populate_ComparesLast ==
  /\ next <= Len(input)
  /\ LET source == input[next] IN
       IF categories # <<>> /\ Last(categories) = source.category
       THEN OldSection(source) ELSE NewSection(source)
  /\ next' = next + 1
  /\ UNCHANGED input

\* One turn of the loop in populate(from:).
Populate ==
  /\ next <= Len(input)
  /\ LET source == input[next] IN
       \/ source.category \in Range(categories) /\ OldSection(source)
       \/ source.category \notin Range(categories) /\ NewSection(source)
  /\ next' = next + 1
  /\ UNCHANGED input

Next == Populate

Spec == Init /\ [][Next]_vars

-----------------------------------------------------------------------------
(* What is made of the result.                                             *)

\* flatten()
Flatten == FlattenSeq(details)

\* encode(with:)
Encode ==
  [categories |-> categories,
   detailCount |-> Len(details),
   detail |-> [index \in 0 .. Len(details) - 1 |-> details[index + 1]]]

\* Mutant: the last section is not read.
Decode_OneShort(archive) ==
  [categories |-> archive.categories,
   details |-> [i \in 1 .. archive.detailCount - 1 |-> archive.detail[i - 1]]]

\* init(coder:)
Decode(archive) ==
  [categories |-> archive.categories,
   details |-> [i \in 1 .. archive.detailCount |-> archive.detail[i - 1]]]

-----------------------------------------------------------------------------
(* Properties.                                                             *)

\* The sources the loop has handled
Handled == SubSeq(input, 1, next - 1)

\* The elements of s that are in T, in their order
Selected(s, T) ==
  LET upTo[n \in 0 .. Len(s)] ==
        IF n = 0 THEN <<>>
        ELSE IF s[n] \in T THEN Append(upTo[n - 1], s[n]) ELSE upTo[n - 1]
  IN upTo[Len(s)]

\* The sources of a category
OfCategory(c) == {s \in Sources : s.category = c}

(* The list is the stable grouping of what was handled: one section for    *)
(* each category, in the order in which the categories first come up, and  *)
(* in a section exactly the sources of its category, in the order of the   *)
(* download.  The table of the phone takes a section's name and its rows   *)
(* by the same index from two arrays, so these must stay in step.          *)
Grouped ==
  /\ Len(categories) = Len(details)
  /\ IsInjective(categories)
  /\ Range(categories) = {s.category : s \in Range(Handled)}
  /\ \A c \in 1 .. Len(categories) :
       details[c] = Selected(Handled, OfCategory(categories[c]))
  /\ \A c, d \in 1 .. Len(categories) : c < d =>
       \E i \in 1 .. Len(Handled) :
         /\ Handled[i].category = categories[c]
         /\ \A j \in 1 .. i : Handled[j].category # categories[d]

(* Flattening loses and doubles nothing: the watch's table has a row for   *)
(* each source, with the rows of a category next to each other.            *)
FlatIsComplete ==
  /\ Len(Flatten) = next - 1
  /\ \A s \in Sources :
       Len(Selected(Flatten, {s})) = Len(Selected(Handled, {s}))
  /\ \A i, j, k \in 1 .. Len(Flatten) :
       i < j /\ j < k /\ Flatten[i].category = Flatten[k].category
         => Flatten[i].category = Flatten[j].category

(* What the watch decodes is what the phone has encoded.                   *)
ArchiveIsFaithful ==
  Decode(Encode) = [categories |-> categories, details |-> details]

=============================================================================
