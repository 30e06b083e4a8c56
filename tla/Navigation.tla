------------------------------ MODULE Navigation ------------------------------
(***************************************************************************)
(* The main UI of the phone: a tab bar with headlines, sources and         *)
(* settings, and a navigation stack in each tab.  The view controllers are *)
(* those of Controllers/*.swift, their connections those of Main.storyboard*)
(*                                                                         *)
(* All controllers write one flag, tabBar.isHidden, in viewDidLoad and in  *)
(* viewWillAppear, and not all of them in both.  UIKit calls these when a  *)
(* view is pushed, uncovered, reached by its tab, and while a swipe back   *)
(* goes on: first for the view below and, if the user changes his mind,    *)
(* for the view on top once more.                                          *)
(*                                                                         *)
(* A list view asks for its list when it is made and gets it later, or     *)
(* never; by then it may have been left.                                   *)
(***************************************************************************)
EXTENDS Naturals, Sequences

CONSTANTS
  Home,      \* the headlines
  Sources,   \* the rows of the list of sources, by their articles
  AllSources,\* that list itself
  Nil,       \* Swift's nil
  MaxViews   \* bound: list views made by the user

ASSUME ViewsAssumption == MaxViews \in Nat

VARIABLES
  tab,        \* the selected tab
  stack,      \* stack[t]: the view controllers of tab t, the root first
  barHidden,  \* tabBar.isHidden
  views,      \* the number of list views made
  loads,      \* the lists that are under way, and for which view
  trapped     \* a forced cast has failed

navVars == <<tab, stack, barHidden, views, loads, trapped>>

Tabs == {"feed", "sources", "settings"}

Contents == Sources \cup {Home, AllSources}

Screens == {"headlines", "sources", "articles", "detail", "web", "settings"}

\* What a view controller shows: a list view what it was made for and the list
\* it has got; a detail or web view an article of the list "of".
ListView(screen, of, view) == [screen |-> screen, of |-> of, view |-> view, list |-> Nil]
View(screen, of) == [screen |-> screen, of |-> of, view |-> 0, list |-> Nil]

Views == [screen : Screens, of : Contents, view : Nat, list : Contents \cup {Nil}]

Settings == View("settings", Home)

NoStacks == [t \in Tabs |-> <<>>]

NavInit ==
  /\ tab = "feed" /\ stack = NoStacks /\ barHidden = FALSE
  /\ views = 0 /\ loads = {} /\ trapped = FALSE

Here == stack[tab]
Top == Here[Len(Here)]

-----------------------------------------------------------------------------
(* The controllers' own code.                                              *)

\* Mutant: headlines do not bring the bar back.
AfterAppears_NotHeadlines(screen, hidden) ==
  IF screen = "sources" THEN FALSE
  ELSE IF screen \in {"detail", "web"} THEN TRUE
  ELSE hidden

\* tabBar.isHidden after viewWillAppear of a screen
AfterAppears(screen, hidden) ==
  IF screen \in {"headlines", "sources"} THEN FALSE
  ELSE IF screen \in {"detail", "web"} THEN TRUE
  ELSE hidden

\* tabBar.isHidden after viewDidLoad and viewWillAppear of a new screen
AfterPushed(screen) == screen \in {"articles", "detail", "web"}

\* Mutant: the list is given to the view made before.
Loads_ForThePrevious(of) ==
  /\ views' = views + 1
  /\ loads' = loads \cup {[view |-> views, of |-> of]}

\* viewDidLoad of a list view asks for its list.
Loads(of) ==
  /\ views' = views + 1
  /\ loads' = loads \cup {[view |-> views + 1, of |-> of]}

Push(v) ==
  /\ stack' = [stack EXCEPT ![tab] = Append(@, v)]
  /\ barHidden' = AfterPushed(v.screen)
  /\ UNCHANGED <<tab, trapped>>

\* The stack of this tab is cut down to its first k views.
PopTo(k) ==
  /\ stack' = [stack EXCEPT ![tab] = SubSeq(@, 1, k)]
  /\ barHidden' = AfterAppears(Here[k].screen, barHidden)

-----------------------------------------------------------------------------
(* Steps of the user.                                                      *)

\* The main UI is made anew each time it is presented, with the headlines.
Enter ==
  /\ tab' = "feed"
  /\ stack' = [NoStacks EXCEPT !["feed"] = <<ListView("headlines", Home, views + 1)>>,
                               !["settings"] = <<Settings>>]
  /\ barHidden' = FALSE
  /\ Loads(Home)
  /\ UNCHANGED trapped

\* It is dismissed: only the callbacks of lists under way keep their views.
Leave ==
  /\ stack' = NoStacks
  /\ UNCHANGED <<tab, barHidden, views, loads, trapped>>

\* Another tab, whose view on top appears; the sources are made at first sight.
SelectTab(t) ==
  /\ ~barHidden
  /\ t # tab
  /\ tab' = t
  /\ \/ /\ stack[t] = <<>>
        /\ views < MaxViews
        /\ stack' = [stack EXCEPT ![t] = <<ListView("sources", AllSources, views + 1)>>]
        /\ barHidden' = AfterPushed("sources")
        /\ Loads(AllSources)
     \/ /\ stack[t] # <<>>
        /\ barHidden' = AfterAppears(stack[t][Len(stack[t])].screen, barHidden)
        /\ UNCHANGED <<stack, views, loads>>
  /\ UNCHANGED trapped

\* The selected tab once more: back to its root.
ReselectTab ==
  /\ ~barHidden
  /\ Len(Here) > 1
  /\ PopTo(1)
  /\ UNCHANGED <<tab, views, loads, trapped>>

\* Mutant: the articles take the place of the sources.
OpenSource_InPlace(s) ==
  /\ Top.screen = "sources" /\ Top.list # Nil
  /\ views < MaxViews
  /\ stack' = [stack EXCEPT ![tab] = <<ListView("articles", s, views + 1)>>]
  /\ barHidden' = TRUE
  /\ Loads(s)
  /\ UNCHANGED <<tab, trapped>>

\* A row of the sources: didSelectRowAt, prepare, viewDidLoad of the articles
OpenSource(s) ==
  /\ Top.screen = "sources" /\ Top.list # Nil
  /\ views < MaxViews
  /\ Push(ListView("articles", s, views + 1))
  /\ Loads(s)

\* A row of the headlines or articles: articles[selectedArticleIndex]
OpenArticle ==
  /\ Top.screen \in {"headlines", "articles"} /\ Top.list # Nil
  /\ Push(View("detail", Top.list))
  /\ UNCHANGED <<views, loads>>

\* readMore
ReadMore ==
  /\ Top.screen = "detail"
  /\ Push(View("web", Top.of))
  /\ UNCHANGED <<views, loads>>

\* The back button, or a swipe that is completed.
Back ==
  /\ Len(Here) > 1
  /\ PopTo(Len(Here) - 1)
  /\ UNCHANGED <<tab, views, loads, trapped>>

\* A swipe back that is given up.
CancelBack ==
  /\ Len(Here) > 1
  /\ barHidden' = AfterAppears(Top.screen, AfterAppears(Here[Len(Here) - 1].screen, barHidden))
  /\ UNCHANGED <<tab, stack, views, loads, trapped>>

\* "Articles" of the web view unwinds to backToArticles of the nearest headlines
\* or articles below, which looks for itself at a fixed place of the stack.
BackToArticles ==
  /\ Top.screen = "web"
  /\ \E k \in 1 .. Len(Here) - 1 :
       LET place == IF Here[k].screen = "headlines" THEN 1 ELSE 2 IN
         /\ Here[k].screen \in {"headlines", "articles"}
         /\ \A j \in k + 1 .. Len(Here) : Here[j].screen \notin {"headlines", "articles"}
         /\ \/ /\ place <= Len(Here) /\ Here[place].screen = Here[k].screen
               /\ PopTo(place)
               /\ UNCHANGED trapped
            \/ /\ ~(place <= Len(Here) /\ Here[place].screen = Here[k].screen)
               /\ trapped' = TRUE
               /\ UNCHANGED <<stack, barHidden>>
  /\ UNCHANGED <<tab, views, loads>>

-----------------------------------------------------------------------------
(* The lists.                                                              *)

\* Mutant: the list is shown by whatever list view is on top.
ListArrives_OnTop(l) ==
  /\ l \in loads
  /\ loads' = loads \ {l}
  /\ stack' = [t \in Tabs |-> [i \in 1 .. Len(stack[t]) |->
                 IF t = tab /\ i = Len(stack[t]) /\ stack[t][i].view > 0
                 THEN [stack[t][i] EXCEPT !.list = l.of] ELSE stack[t][i]]]
  /\ UNCHANGED <<tab, barHidden, views, trapped>>

\* The callback fills the view that asked, on show or not.
ListArrives(l) ==
  /\ l \in loads
  /\ loads' = loads \ {l}
  /\ stack' = [t \in Tabs |-> [i \in 1 .. Len(stack[t]) |->
                 IF stack[t][i].view = l.view
                 THEN [stack[t][i] EXCEPT !.list = l.of] ELSE stack[t][i]]]
  /\ UNCHANGED <<tab, barHidden, views, trapped>>

\* What the user does in the main UI.
NavNext ==
  \/ \E t \in Tabs : SelectTab(t)
  \/ ReselectTab
  \/ \E s \in Sources : OpenSource(s)
  \/ OpenArticle \/ ReadMore \/ Back \/ CancelBack \/ BackToArticles

-----------------------------------------------------------------------------
(* Properties.                                                             *)

NavTypeOK ==
  /\ tab \in Tabs
  /\ stack \in [Tabs -> Seq(Views)]
  /\ barHidden \in BOOLEAN
  /\ views \in Nat
  /\ loads \subseteq [view : 1 .. views, of : Contents]
  /\ trapped \in BOOLEAN

(* The bar is there whenever the root of a tab is, so that the other tabs  *)
(* and the sign-out can be reached, and never under an article.  (It may   *)
(* be there under a source's articles, after a swipe that was given up.)   *)
BarFollowsTop ==
  Here # <<>> =>
    /\ Len(Here) = 1 => ~barHidden
    /\ ~barHidden => Top.screen \notin {"detail", "web"}

(* HeadlineViewController.swift:40 and ArticleViewController.swift:39 find *)
(* themselves where they look, whatever way led to the web view.           *)
UnwindCastsHold == ~trapped

(* A view shows what was chosen in the views below it: a list the articles *)
(* of its own source, though lists arrive late and views come and go, and  *)
(* a detail or web view an article of the list it was opened from.         *)
ShowsWhatWasChosen ==
  \A t \in Tabs : \A i \in 1 .. Len(stack[t]) :
    LET v == stack[t][i] IN
      /\ v.list # Nil => v.list = v.of
      /\ v.screen \in {"detail", "web"} => stack[t][i - 1].of = v.of

=============================================================================
