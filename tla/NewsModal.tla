----------------------------- MODULE NewsModal -----------------------------
(***************************************************************************)
(* The news page around its publishing window: one window for the article  *)
(* that is reviewed, one key for the operation that is under way, and an   *)
(* upload of the featured image that may outlive the window.               *)
(***************************************************************************)
EXTENDS Naturals, FiniteSets

CONSTANTS
    News,       \* the articles of the page
    NoNews,     \* no window, key or upload
    MaxBegun    \* bound: operations

ASSUME NewsModalAssumption ==
    MaxBegun \in Nat /\ NoNews \notin News \cup [of : News, image : {"own", "none", "other"}]

VARIABLES
    window,     \* publishModal: the article and the image in its draft
    busyKey,    \* the operation begun last, until any ends
    ops,        \* operations under way, the answered ones while the page is refreshed
    upload,     \* the article whose image is being changed
    opened,     \* operations begun so far
    wiped,      \* an operation ended while another was under way
    slipped     \* the window was left by a way that does not wait for the upload

newsModalVars == <<window, busyKey, ops, upload, opened, wiped, slipped>>
-----------------------------------------------------------------------------
OpKey(kind, a) == [kind |-> kind, of |-> a]
Keys    == [kind : {"act", "translate", "publish"}, of : News]
Windows == [of : News, image : {"own", "none", "other"}]
InWindow(a) == window # NoNews /\ window.of = a

ModalInit ==
    /\ window = NoNews /\ busyKey = NoNews /\ ops = {} /\ upload = NoNews
    /\ opened = 0 /\ wiped = FALSE /\ slipped = FALSE

Begin(kind, a) ==
    /\ opened < MaxBegun /\ opened' = opened + 1
    /\ busyKey' = OpKey(kind, a)
    /\ ops' = ops \cup {[id |-> opened, kind |-> kind, of |-> a]}
    /\ UNCHANGED <<upload, wiped, slipped>>
-----------------------------------------------------------------------------
(* Summarise, reject, restore, send to the studio, assign a category, or   *)
(* translate, from the card of the article.                                *)
Act(kind, a) ==
    /\ window = NoNews /\ busyKey # OpKey(kind, a)
    /\ Begin(kind, a)
    /\ UNCHANGED window

(* The card of an article with a text opens the window.                    *)
Review(a) ==
    /\ window = NoNews /\ busyKey # OpKey("translate", a)
    /\ \E image \in {"own", "none"} : window' = [of |-> a, image |-> image]
    /\ UNCHANGED <<busyKey, ops, upload, opened, wiped, slipped>>

(* One whose button stays enabled while the article is being published.    *)
PublishAgain(a) ==
    /\ InWindow(a) /\ upload = NoNews /\ busyKey # OpKey("translate", a)
    /\ Begin("publish", a)
    /\ UNCHANGED window

Publish(a) ==
    /\ InWindow(a) /\ upload = NoNews
    /\ busyKey \notin {OpKey("publish", a), OpKey("translate", a)}
    /\ Begin("publish", a)
    /\ UNCHANGED window

Retranslate(a) ==
    /\ InWindow(a) /\ upload = NoNews
    /\ busyKey \notin {OpKey("publish", a), OpKey("translate", a)}
    /\ Begin("translate", a)
    /\ window' = NoNews

(* One that may be left while its article is being published.              *)
MayLeaveAnytime == window # NoNews

(* What the page refuses whichever way the window is left.                 *)
MayLeave == window # NoNews /\ busyKey \notin {OpKey("publish", a) : a \in News}

(* One that closes during an upload.                                       *)
ShutAnyway ==
    /\ MayLeave
    /\ window' = NoNews
    /\ UNCHANGED <<busyKey, ops, upload, opened, wiped, slipped>>

(* Cancel, the cross and the backdrop wait for an upload.                  *)
Shut ==
    /\ MayLeave /\ upload = NoNews
    /\ window' = NoNews
    /\ UNCHANGED <<busyKey, ops, upload, opened, wiped, slipped>>

(* The key of the modal asks the page only.                                *)
Escape ==
    /\ MayLeave
    /\ window' = NoNews
    /\ slipped' = (slipped \/ upload # NoNews)
    /\ UNCHANGED <<busyKey, ops, upload, opened, wiped>>

(* Replace or remove the featured image: disabled by another upload only.  *)
ChangeImage(a) ==
    /\ InWindow(a) /\ upload = NoNews
    /\ upload' = a
    /\ UNCHANGED <<window, busyKey, ops, opened, wiped, slipped>>
-----------------------------------------------------------------------------
(* onFeaturedImageChange: the answer goes to the window that is open.      *)
ImageChanged(image) ==
    /\ upload # NoNews /\ upload' = NoNews
    /\ window' = IF window = NoNews THEN NoNews
                 ELSE [window EXCEPT !.image = IF InWindow(upload) THEN image ELSE "other"]
    /\ UNCHANGED <<busyKey, ops, opened, wiped, slipped>>

ImageUnchanged ==
    /\ upload # NoNews /\ upload' = NoNews
    /\ UNCHANGED <<window, busyKey, ops, opened, wiped, slipped>>

EndOp(o) ==
    /\ ops' = ops \ {o} /\ busyKey' = NoNews
    /\ wiped' = (ops' # {})
    /\ UNCHANGED <<upload, opened>>

(* The answer: the window of a published article is closed, and the page   *)
(* refreshed before the key is cleared.                                    *)
Done(o) ==
    /\ o.kind # "refresh"
    /\ ops' = (ops \ {o}) \cup {[o EXCEPT !.kind = "refresh"]}
    /\ window' = IF o.kind = "publish" THEN NoNews ELSE window
    /\ slipped' = (slipped \/ (o.kind = "publish" /\ upload # NoNews))
    /\ UNCHANGED <<busyKey, upload, opened, wiped>>

Refreshed(o) == o.kind = "refresh" /\ EndOp(o) /\ UNCHANGED <<window, slipped>>

OpFails(o) == o.kind # "refresh" /\ EndOp(o) /\ UNCHANGED <<window, slipped>>

ModalNext ==
    \/ \E a \in News :
          \/ \E kind \in {"act", "translate"} : Act(kind, a)
          \/ Review(a) \/ Publish(a) \/ Retranslate(a) \/ ChangeImage(a)
    \/ Shut
    \/ Escape
    \/ \E image \in {"own", "none"} : ImageChanged(image)
    \/ ImageUnchanged
    \/ \E o \in ops : Done(o) \/ Refreshed(o) \/ OpFails(o)

ModalSpec == ModalInit /\ [][ModalNext]_newsModalVars
-----------------------------------------------------------------------------
ModalTypeOK ==
    /\ window \in Windows \cup {NoNews} /\ busyKey \in Keys \cup {NoNews}
    /\ ops \subseteq [id : 0..MaxBegun, kind : {"act", "translate", "publish", "refresh"},
                   of : News]
    /\ upload \in News \cup {NoNews} /\ opened \in 0..MaxBegun
    /\ wiped \in BOOLEAN /\ slipped \in BOOLEAN

(* The window never holds the image of another article, unless it was left *)
(* with Escape, or by the answer to a publish, during an upload.           *)
OwnImage == window # NoNews /\ window.image = "other" => slipped

(* An article is not sent to the site again while a first request of it is *)
(* under way, unless the end of another operation cleared the key.         *)
SentOnce ==
    wiped \/ \A o, p \in ops : o.kind = "publish" /\ p.kind = "publish" /\ o.of = p.of => o = p

ModalHolds == OwnImage /\ SentOnce

(* An answer closes no window but that of the article it published: edits  *)
(* in a window are not lost to the operation of another article, with the  *)
(* same exception.                                                         *)
OwnWindow ==
    \A o \in ops \ ops' :
        wiped \/ window' # NoNews \/ window = NoNews \/ (o.kind = "publish" /\ InWindow(o.of))

ModalKept == [][OwnWindow]_newsModalVars
=============================================================================
