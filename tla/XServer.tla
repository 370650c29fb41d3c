------------------------------ MODULE XServer ------------------------------
(***************************************************************************)
(* The X server as src/rcomp.c knows it: the children of the root window   *)
(* in stacking order, what other programs do to them, and the events the   *)
(* server queues for the compositor.  An event says what was so when it    *)
(* was sent; a request is answered with what is so when it is served.      *)
(* Xlib keeps requests that need no answer in a buffer, and the server     *)
(* serves all of them in order: requests are those still to be served.     *)
(*                                                                         *)
(* A window gets a new off-screen pixmap whenever it becomes viewable or   *)
(* changes its size; pixmap[w] numbers them.  ink[w] counts what was drawn *)
(* on w.  A position is like a size that needs no new pixmap and is left   *)
(* out, as are the contents of the root window itself.                     *)
(***************************************************************************)
EXTENDS Naturals, Sequences, SequencesExt

CONSTANTS
    Windows,
    Hidden,       \* those never drawn: input-only ones, rcomp's own sel_win
    NoWin,
    InitOrders,   \* the stacking orders to start from
    MaxChanges    \* changes other programs make

ASSUME XServerAssumption ==
    /\ Hidden \subseteq Windows /\ NoWin \notin Windows
    /\ InitOrders \subseteq Seq(Windows)
    /\ \A s \in InitOrders : IsInjective(s)
    /\ MaxChanges \in Nat

Sizes == {"small", "large"}

VARIABLES
    order,     \* the children of the root, bottom to top
    away,      \* windows that are children of another window
    mapped,    \* mapped windows
    size,      \* the size of each window
    opaque,    \* whether its _NET_WM_WINDOW_OPACITY is full
    pixmap,    \* the number of its current pixmap
    ink,       \* the number of drawings on it
    tracked,   \* the windows with a damage object of rcomp
    damaged,   \* those whose damage has been reported and not subtracted
    watched,   \* the windows whose properties rcomp has selected
    queue,     \* events on their way to rcomp
    requests,  \* requests on their way from rcomp
    changes    \* changes still to be made

xvars == <<order, away, mapped, size, opaque, pixmap, ink, tracked, damaged,
           watched, queue, requests, changes>>

XInit ==
    /\ order \in InitOrders
    /\ away = {} /\ mapped \in SUBSET (ToSet(order) \ Hidden)
    /\ size = [w \in Windows |-> "small"] /\ opaque = [w \in Windows |-> TRUE]
    /\ pixmap = [w \in Windows |-> 0] /\ ink = [w \in Windows |-> 0]
    /\ tracked = ToSet(order) \ Hidden /\ damaged = {}
    /\ watched = ToSet(order) \ Hidden
    /\ queue = <<>> /\ requests = <<>> /\ changes = MaxChanges

Exists(w)   == Contains(order, w) \/ w \in away
Viewable(w) == Contains(order, w) /\ w \in mapped

Position(s, w) == CHOOSE i \in DOMAIN s : s[i] = w

Without(s, w) == IF Contains(s, w) THEN RemoveAt(s, Position(s, w)) ELSE s

\* s with w at the top; directly above a, or at the bottom.
OnTop(s, w) == Append(Without(s, w), w)

Above(s, w, a) ==
    LET r == Without(s, w)
    IN  IF a = NoWin THEN <<w>> \o r ELSE InsertAt(r, Position(r, a) + 1, w)

Beneath(s, w) ==
    LET i == Position(s, w) IN IF i = 1 THEN NoWin ELSE s[i - 1]

Event(t, w)       == [type |-> t, win |-> w]
ReparentEvent(w, r) == [type |-> "reparent", win |-> w, root |-> r]
PlaceEvent(w, top)  == [type |-> "circulate", win |-> w, top |-> top]
\* What ConfigureNotify says of a window in the new order.
ConfigureEvent(w) ==
    [type |-> "configure", win |-> w, size |-> size'[w], above |-> Beneath(order', w)]

Request(t, w) == [type |-> t, win |-> w]

Send(events) == queue' = queue \o events
When(b, events) == IF b THEN events ELSE <<>>

Change == changes > 0 /\ changes' = changes - 1

NewPixmap(w) == pixmap' = [pixmap EXCEPT ![w] = @ + 1]

-----------------------------------------------------------------------------
(* What other programs do                                                  *)

CreateWindow(w) ==
    /\ Change /\ ~Exists(w)
    /\ order' = Append(order, w)
    /\ size' = [size EXCEPT ![w] = "small"] /\ opaque' = [opaque EXCEPT ![w] = TRUE]
    /\ Send(<<Event("create", w)>>)
    /\ UNCHANGED <<away, mapped, pixmap, ink, tracked, damaged, watched, requests>>

\* The server unmaps a window before it destroys it.
DestroyWindow(w) ==
    /\ Change /\ Exists(w)
    /\ order' = Without(order, w) /\ away' = away \ {w}
    /\ mapped' = mapped \ {w} /\ tracked' = tracked \ {w}
    /\ damaged' = damaged \ {w} /\ watched' = watched \ {w}
    /\ Send(When(Viewable(w), <<Event("unmap", w)>>)
            \o When(Contains(order, w), <<Event("destroy", w)>>))
    /\ UNCHANGED <<size, opaque, pixmap, ink, requests>>

MapWindow(w) ==
    /\ Change /\ Contains(order, w) /\ w \notin mapped
    /\ mapped' = mapped \cup {w} /\ NewPixmap(w)
    /\ Send(<<Event("map", w)>>)
    /\ UNCHANGED <<order, away, size, opaque, ink, tracked, damaged, watched, requests>>

UnmapWindow(w) ==
    /\ Change /\ Viewable(w)
    /\ mapped' = mapped \ {w}
    /\ Send(<<Event("unmap", w)>>)
    /\ UNCHANGED <<order, away, size, opaque, pixmap, ink, tracked, damaged, watched, requests>>

ResizeWindow(w) ==
    /\ Change /\ Contains(order, w)
    /\ \E s \in Sizes \ {size[w]} : size' = [size EXCEPT ![w] = s]
    /\ IF Viewable(w) THEN NewPixmap(w) ELSE UNCHANGED pixmap
    /\ UNCHANGED <<order, away, mapped, opaque, ink, tracked, damaged, watched, requests>>
    /\ Send(<<ConfigureEvent(w)>>)

MoveWindow(w, a) ==
    /\ Change /\ Contains(order, w) /\ a # w /\ (a = NoWin \/ Contains(order, a))
    /\ order' = Above(order, w, a) /\ order' # order
    /\ UNCHANGED <<away, mapped, size, opaque, pixmap, ink, tracked, damaged, watched, requests>>
    /\ Send(<<ConfigureEvent(w)>>)

\* XCirculateSubwindows
CirculateWindow(w, top) ==
    /\ Change /\ Contains(order, w)
    /\ order' = IF top THEN OnTop(order, w) ELSE Above(order, w, NoWin)
    /\ order' # order
    /\ Send(<<PlaceEvent(w, top)>>)
    /\ UNCHANGED <<away, mapped, size, opaque, pixmap, ink, tracked, damaged, watched, requests>>

\* A window manager frames a window, or makes it a child of the root, where it
\* comes to the top and which it may have been already.  The server unmaps it
\* before and maps it again.
ReparentWindow(w, root) ==
    /\ Change /\ Exists(w)
    /\ IF root
       THEN /\ away' = away \ {w} /\ order' = OnTop(order, w)
            /\ IF w \in mapped THEN NewPixmap(w) ELSE UNCHANGED pixmap
            /\ Send(When(Viewable(w), <<Event("unmap", w)>>) \o <<ReparentEvent(w, TRUE)>>
                    \o When(w \in mapped, <<Event("map", w)>>))
       ELSE /\ w \notin away
            /\ away' = away \cup {w} /\ order' = Without(order, w)
            /\ Send(When(Viewable(w), <<Event("unmap", w)>>) \o <<ReparentEvent(w, FALSE)>>)
            /\ UNCHANGED pixmap
    /\ UNCHANGED <<mapped, size, opaque, ink, tracked, damaged, watched, requests>>

SetOpacity(w) ==
    /\ Change /\ Exists(w)
    /\ opaque' = [opaque EXCEPT ![w] = ~@]
    /\ Send(When(w \in watched, <<Event("property", w)>>))
    /\ UNCHANGED <<order, away, mapped, size, pixmap, ink, tracked, damaged, watched, requests>>

\* XDamageReportNonEmpty: the next report comes only after a subtraction.
Draw(w) ==
    /\ Change /\ Viewable(w)
    /\ ink' = [ink EXCEPT ![w] = @ + 1]
    /\ IF w \in tracked \ damaged
       THEN damaged' = damaged \cup {w} /\ Send(<<Event("damage", w)>>)
       ELSE UNCHANGED <<damaged, queue>>
    /\ UNCHANGED <<order, away, mapped, size, opaque, pixmap, tracked, watched, requests>>

Programs ==
    \/ \E w \in Windows : CreateWindow(w) \/ DestroyWindow(w)
    \/ \E w \in Windows \ Hidden :
          \/ MapWindow(w) \/ UnmapWindow(w) \/ ResizeWindow(w)
          \/ (\E a \in Windows \cup {NoWin} : MoveWindow(w, a))
          \/ (\E top \in BOOLEAN : CirculateWindow(w, top))
          \/ (\E root \in BOOLEAN : ReparentWindow(w, root))
          \/ SetOpacity(w) \/ Draw(w)

-----------------------------------------------------------------------------
(* What the server does for rcomp                                          *)

\* XDamageCreate, which reports what a viewable window shows, and XSelectInput.
Manage(w) ==
    /\ IF Exists(w) THEN tracked' = tracked \cup {w} /\ watched' = watched \cup {w}
       ELSE UNCHANGED <<tracked, watched>>
    /\ IF Viewable(w) THEN damaged' = damaged \cup {w} /\ Send(<<Event("damage", w)>>)
       ELSE UNCHANGED <<damaged, queue>>

\* XDamageSubtract.  Of an object that is gone by then it would fail; that of a
\* new one on the same window is only reported once more.
Subtract(w) == damaged' = damaged \ {w} /\ UNCHANGED <<tracked, watched, queue>>

\* XDamageDestroy
Release(w) ==
    /\ tracked' = tracked \ {w} /\ damaged' = damaged \ {w}
    /\ UNCHANGED <<watched, queue>>

\* The next request; those of one window in one call are served together.
Serve(w) ==
    /\ requests # <<>> /\ Head(requests).win = w
    /\ requests' = Tail(requests)
    /\ CASE Head(requests).type = "manage" -> Manage(w)
         [] Head(requests).type = "subtract" -> Subtract(w)
         [] Head(requests).type = "release" -> Release(w)
    /\ UNCHANGED <<order, away, mapped, size, opaque, pixmap, ink, changes>>
=============================================================================
