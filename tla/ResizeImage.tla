---------------------------- MODULE ResizeImage -----------------------------
(***************************************************************************)
(* How WatchServer.resizeImage finds the size of an image for the watch    *)
(* (NewsDay/NewsDay/Network/WatchServer.swift).  Sides are CGFloats in the *)
(* code and fractions here: a side of a size s is s.width / s.den, and     *)
(* s.height / s.den, exactly.                                              *)
(***************************************************************************)
EXTENDS Naturals

CONSTANTS
  MaxWidth, MaxHeight,  \* maxSize, 448 by 368 in the code
  MaxSide               \* bound: sides of the images

ASSUME MaxSizeAssumption == MaxWidth \in Nat \ {0} /\ MaxHeight \in Nat \ {0}

ASSUME MaxSideAssumption == MaxSide \in Nat

VARIABLES
  image,       \* the size of the image
  outputSize,  \* the size it is drawn in
  step         \* the statement that comes next

resizeVars == <<image, outputSize, step>>

Size(width, height, den) == [width |-> width, height |-> height, den |-> den]

\* Scaling by num / den multiplies both sides.
Scaled(s, num, den) == Size(s.width * num, s.height * num, s.den * den)

ResizeInit ==
  /\ \E w, h \in 0 .. MaxSide : image = Size(w, h, 1)
  /\ outputSize = image
  /\ step = "fits?"

TooWide(s) == s.width > MaxWidth * s.den
TooTall(s) == s.height > MaxHeight * s.den

\* An image that fits is returned as it is.
SkipResize ==
  /\ step = "fits?"
  /\ step' = IF TooWide(outputSize) \/ TooTall(outputSize) THEN "narrow" ELSE "done"
  /\ UNCHANGED <<image, outputSize>>

\* Narrower if it is too wide, by maxSize.width / outputSize.width.
Narrow ==
  /\ step = "narrow"
  /\ outputSize' = IF TooWide(outputSize)
                   THEN Scaled(outputSize, MaxWidth * outputSize.den, outputSize.width)
                   ELSE outputSize
  /\ step' = "shorten"
  /\ UNCHANGED image

\* Mutant: the scale is that of the image, whatever was scaled before.
Shorten_FromImage ==
  /\ step = "shorten"
  /\ outputSize' = IF TooTall(outputSize)
                   THEN Scaled(outputSize, MaxHeight, image.height)
                   ELSE outputSize
  /\ step' = "done"
  /\ UNCHANGED image

\* Shorter if it is still too tall, by maxSize.height / outputSize.height.
Shorten ==
  /\ step = "shorten"
  /\ outputSize' = IF TooTall(outputSize)
                   THEN Scaled(outputSize, MaxHeight * outputSize.den, outputSize.height)
                   ELSE outputSize
  /\ step' = "done"
  /\ UNCHANGED image

ResizeNext == SkipResize \/ Narrow \/ Shorten

ResizeSpec == ResizeInit /\ [][ResizeNext]_resizeVars

-----------------------------------------------------------------------------
(* Properties.                                                             *)

(* The result is the best fit, though the code scales up to twice: it has  *)
(* the proportions of the image, is no larger than the image or the screen *)
(* of the watch, and is as large as these allow.                           *)
BestFit ==
  step = "done" =>
    /\ outputSize.width * image.height = outputSize.height * image.width
    /\ ~TooWide(outputSize) /\ ~TooTall(outputSize)
    /\ outputSize.width <= image.width * outputSize.den
    /\ outputSize.height <= image.height * outputSize.den
    /\ \/ outputSize = image
       \/ outputSize.width = MaxWidth * outputSize.den
       \/ outputSize.height = MaxHeight * outputSize.den

=============================================================================
