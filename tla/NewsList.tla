------------------------------ MODULE NewsList ------------------------------
(***************************************************************************)
(* The list of the news page: the articles of one filter, page after page, *)
(* over useApi, refreshed every thirty seconds and after every operation.  *)
(* Answers come late, and an operation refreshes the list the person saw   *)
(* when it was begun.  One organisation; an article is told by its place.  *)
(***************************************************************************)
EXTENDS Naturals, FiniteSets

CONSTANTS
    Items,       \* articles, in the order of the list: numbers
    Views,       \* the filters other than "all": each article is in one
    PerPage,
    NoItem,      \* no cursor, answer or request
    MaxPressed,  \* bound: what the person does
    MaxMoved     \* bound: articles that change place

ASSUME NewsListAssumption ==
    Items \subseteq Nat \ {0} /\ PerPage \in Nat \ {0} /\ MaxPressed \in Nat /\ MaxMoved \in Nat

VARIABLES
    place,       \* on the server: the view an article is in
    filter, cursor,
    articles,    \* loadedArticles
    data,        \* the last answer of useApi
    fetching,    \* the latest request of useApi; the answer of an older one is dropped
    underway,    \* operations, with the request of the render they were begun in
    visible,     \* document.visibilityState
    pressed, moved

newsListVars == <<place, filter, cursor, articles, data, fetching, underway, visible, pressed, moved>>
-----------------------------------------------------------------------------
Path(f, c) == [filter |-> f, cursor |-> c]
Paths   == [filter : Views, cursor : Items \cup {NoItem}]
Answer  == [items : SUBSET Items, next : Items \cup {NoItem}]

(* GET news/articles: the first PerPage of the view after the cursor.      *)
Page(p) ==
    LET found == {i \in Items : place[i] = p.filter /\ (p.cursor = NoItem \/ i > p.cursor)}
        first == {i \in found : Cardinality({j \in found : j < i}) < PerPage}
    IN [items |-> first,
        next  |-> IF first = found THEN NoItem
                  ELSE CHOOSE i \in first : \A j \in first : j <= i]

ListInit ==
    /\ place \in [Items -> Views] /\ filter \in Views /\ cursor = NoItem
    /\ articles = {} /\ data = NoItem /\ fetching = Path(filter, NoItem)
    /\ underway = {} /\ visible = TRUE /\ pressed = 0 /\ moved = 0

Pressing == pressed < MaxPressed /\ pressed' = pressed + 1

(* setCursor('') and setLoadedArticles([]): with a cursor the effect of    *)
(* its change shows the last answer again, and the path asks anew.         *)
Restart(f, otherwise) ==
    /\ cursor' = NoItem
    /\ articles' = IF cursor # NoItem /\ data # NoItem THEN data.items ELSE {}
    /\ fetching' = IF cursor # NoItem THEN Path(f, NoItem) ELSE otherwise
-----------------------------------------------------------------------------
ChooseFilter(f) ==
    /\ f # filter /\ Pressing
    /\ filter' = f /\ Restart(f, Path(f, NoItem))
    /\ UNCHANGED <<place, data, underway, visible, moved>>

More ==
    /\ data # NoItem /\ data.next # NoItem /\ articles # {}
    /\ ~(fetching # NoItem /\ cursor # NoItem)
    /\ data.next # cursor /\ Pressing
    /\ cursor' = data.next /\ fetching' = Path(filter, data.next)
    /\ UNCHANGED <<place, filter, articles, data, underway, visible, moved>>

(* An operation on a card, or of the page; its refresh is that of the      *)
(* render in which it was begun.                                           *)
OpBegins ==
    /\ Pressing
    /\ underway' = underway \cup {Path(filter, cursor)}
    /\ UNCHANGED <<place, filter, cursor, articles, data, fetching, visible, moved>>

OpEnds(p) ==
    /\ underway' = underway \ {p}
    /\ \/ moved < MaxMoved /\ moved' = moved + 1
          /\ \E i \in Items, v \in Views : place' = [place EXCEPT ![i] = v]
       \/ UNCHANGED <<place, moved>>
    /\ Restart(filter, p)
    /\ UNCHANGED <<filter, data, visible, pressed>>

OpEndsInError(p) ==
    /\ underway' = underway \ {p}
    /\ UNCHANGED <<place, filter, cursor, articles, data, fetching, visible, pressed, moved>>

(* One that asks for the list of the first render.                         *)
PollFirst ==
    /\ visible
    /\ \E v \in {CHOOSE w \in Views : TRUE} : fetching' = Path(v, NoItem)
    /\ UNCHANGED <<place, filter, cursor, articles, data, underway, visible, pressed, moved>>

(* Every thirty seconds, and when the tab comes back.                      *)
Poll ==
    /\ visible
    /\ fetching' = Path(filter, cursor)
    /\ UNCHANGED <<place, filter, cursor, articles, data, underway, visible, pressed, moved>>

HideOrShow ==
    /\ Pressing
    /\ visible' = ~visible
    /\ fetching' = IF visible THEN fetching ELSE Path(filter, cursor)
    /\ UNCHANGED <<place, filter, cursor, articles, data, underway, moved>>

Answered ==
    /\ fetching # NoItem /\ fetching' = NoItem
    /\ data' = Page(fetching)
    /\ articles' = IF cursor = NoItem THEN data'.items ELSE articles \cup data'.items
    /\ UNCHANGED <<place, filter, cursor, underway, visible, pressed, moved>>

Unanswered ==
    /\ fetching # NoItem /\ fetching' = NoItem
    /\ data' = NoItem
    /\ UNCHANGED <<place, filter, cursor, articles, underway, visible, pressed, moved>>

(* The automation, or another person, moves an article.                    *)
Moves ==
    /\ moved < MaxMoved /\ moved' = moved + 1
    /\ \E i \in Items, v \in Views : place' = [place EXCEPT ![i] = v]
    /\ UNCHANGED <<filter, cursor, articles, data, fetching, underway, visible, pressed>>

ListNext ==
    \/ \E f \in Views : ChooseFilter(f)
    \/ More
    \/ OpBegins
    \/ \E p \in underway : OpEnds(p) \/ OpEndsInError(p)
    \/ Poll
    \/ HideOrShow
    \/ Answered
    \/ Unanswered
    \/ Moves

ListSpec == ListInit /\ [][ListNext]_newsListVars

(* The interval fires, and its request is not refused for ever; operations *)
(* come to an end.                                                         *)
ListFairness ==
    /\ WF_newsListVars(Poll) /\ SF_newsListVars(Answered)
    /\ \A p \in Paths : WF_newsListVars(p \in underway /\ (OpEnds(p) \/ OpEndsInError(p)))

FairListSpec == ListSpec /\ ListFairness
-----------------------------------------------------------------------------
ListTypeOK ==
    /\ place \in [Items -> Views] /\ filter \in Views /\ cursor \in Items \cup {NoItem}
    /\ articles \subseteq Items /\ data \in Answer \cup {NoItem}
    /\ fetching \in Paths \cup {NoItem} /\ underway \subseteq Paths
    /\ visible \in BOOLEAN /\ pressed \in 0..MaxPressed /\ moved \in 0..MaxMoved

(* The list comes to show the first page of the chosen filter as it is on  *)
(* the server, and stays so, if the person asks for no further page and    *)
(* leaves the tab visible.                                                 *)
ListCatchesUp ==
    <>[](visible /\ cursor = NoItem => articles = Page(Path(filter, NoItem)).items)
=============================================================================
