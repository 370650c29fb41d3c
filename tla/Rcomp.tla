-------------------------------- MODULE Rcomp --------------------------------
(***************************************************************************)
(* The compositing manager, src/rcomp.c.  It mirrors the children of the   *)
(* root window in a list and paints them bottom to top from pictures of    *)
(* their pixmaps.  It learns of changes only through events, handled one   *)
(* by one while other programs go on, and paints when none is left.         *)
(*                                                                         *)
(* Every round trip to the server is a step of its own, which can only be  *)
(* taken once the server has served what was requested before; requests    *)
(* that need no answer are left behind and served at any later time.       *)
(* Starting up is atomic, for the server is grabbed meanwhile, and what it *)
(* reported of the windows found then is taken as handled.                 *)
(***************************************************************************)
EXTENDS XServer, Integers

NoPic  == -1
BadPic == -2     \* named while the window was not viewable; draws nothing

VARIABLES
    wins,      \* the list, bottom to top
    cache,     \* what each Win in it holds
    dirty,
    busy,      \* what it is in the middle of: the next step, and of which window
    screen,    \* what the last paint drew, in the order of the list
    misled     \* a sibling the list does not hold was named, or a window of the
               \* list became a child of the root once more

vars == <<xvars, wins, cache, dirty, busy, screen, misled>>

\* Which windows of a list are below which, each below itself.
Stack(s) == UNION {{<<s[i], s[j]>> : j \in i .. Len(s)} : i \in DOMAIN s}

\* The list has the server's windows, and no others, in the server's order.
InOrder == Stack(wins) = {p \in Stack(order) : p[1] \notin Hidden /\ p[2] \notin Hidden}

Blank == [viewable |-> FALSE, size |-> "small", opaque |-> TRUE, pic |-> NoPic]
Idle  == [win |-> NoWin, step |-> "none"]

Init ==
    /\ XInit
    /\ wins \in SeqOf(ToSet(order) \ Hidden, Len(order)) /\ IsInjective(wins) /\ InOrder
    /\ cache = [w \in Windows |-> [Blank EXCEPT !.viewable = Viewable(w)]]
    /\ dirty = TRUE /\ busy = Idle
    /\ screen = {} /\ misled = FALSE

Listed(w) == Contains(wins, w)       \* find_win

\* Mutants: an unknown sibling without unlinking first; below the sibling.
RestackLinked(w, a) ==
    /\ wins' = IF a = NoWin \/ Listed(a) THEN Above(wins, w, a) ELSE Append(wins, w)
    /\ misled' = (misled \/ (a # NoWin /\ ~Listed(a)))

RestackBelow(w, a) ==
    /\ wins' = IF a = NoWin \/ ~Listed(a) THEN <<w>> \o Without(wins, w)
               ELSE Above(wins, w, Beneath(Without(wins, w), a))
    /\ misled' = (misled \/ (a # NoWin /\ ~Listed(a)))

\* restack: above a sibling the list does not hold means on top.
Restack(w, a) ==
    /\ wins' = IF a = NoWin \/ Listed(a) THEN Above(wins, w, a)
               ELSE OnTop(wins, w)
    /\ misled' = (misled \/ (a # NoWin /\ ~Listed(a)))

\* The next event, of type t and about window w.
On(t, w) ==
    /\ busy = Idle /\ queue # <<>>
    /\ Head(queue).type = t /\ Head(queue).win = w
    /\ queue' = Tail(queue)

server == <<order, away, mapped, size, opaque, pixmap, ink, tracked, damaged,
            watched, changes>>

\* A request that needs no answer; one whose answer is here.
Ask(t, w) == requests' = Append(requests, Request(t, w))
Answered  == requests = <<>>

-----------------------------------------------------------------------------
(* Adding and removing windows                                             *)

\* add_win: XGetWindowAttributes fails for a window that is gone.
AddWin(w) ==
    /\ Listed(w) \/ w \in Hidden \/ Answered
    /\ IF ~Listed(w) /\ Exists(w) /\ w \notin Hidden
       THEN /\ busy' = [win |-> w, step |-> "opacity"]
            /\ cache' = [cache EXCEPT ![w] = [Blank EXCEPT !.size = size[w], !.viewable = Viewable(w)]]
       ELSE UNCHANGED <<busy, cache>>
    /\ UNCHANGED <<wins, dirty, requests>>

ReadOpacity(w) == Exists(w) => opaque[w]

GetOpacity(w) ==
    /\ busy = [win |-> w, step |-> "opacity"] /\ Answered
    /\ busy' = [win |-> w, step |-> "append"]
    /\ cache' = [cache EXCEPT ![w].opaque = ReadOpacity(w)]
    /\ UNCHANGED <<server, queue, requests, wins, dirty, screen, misled>>

\* Mutant: damage and property changes are not selected.
AppendUnselected(w) ==
    /\ busy = [win |-> w, step |-> "append"]
    /\ busy' = Idle
    /\ wins' = Append(wins, w) /\ dirty' = TRUE
    /\ UNCHANGED <<server, queue, requests, cache, screen, misled>>

\* XDamageCreate, XSelectInput: the window is in the list, whenever the server
\* gets to them.
AppendWin(w) ==
    /\ busy = [win |-> w, step |-> "append"]
    /\ busy' = Idle
    /\ wins' = Append(wins, w) /\ dirty' = TRUE
    /\ Ask("manage", w)
    /\ UNCHANGED <<server, queue, cache, screen, misled>>

RemoveWin(w) ==
    /\ IF Listed(w)
       THEN /\ wins' = Without(wins, w) /\ dirty' = TRUE
            /\ cache' = [cache EXCEPT ![w] = Blank]
            /\ Ask("release", w)
       ELSE UNCHANGED <<wins, dirty, cache, requests>>
    /\ UNCHANGED busy

-----------------------------------------------------------------------------
(* handle_event                                                            *)

OnDamage(w) ==
    /\ On("damage", w)
    /\ Ask("subtract", w) /\ dirty' = TRUE
    /\ UNCHANGED <<server, wins, cache, busy, screen, misled>>

OnCreate(w)  == On("create", w) /\ AddWin(w) /\ UNCHANGED <<server, screen, misled>>
OnDestroy(w) == On("destroy", w) /\ RemoveWin(w) /\ UNCHANGED <<server, screen, misled>>

\* A window of the list that has come to the top like this stays where it is.
OnReparent(w) ==
    /\ On("reparent", w)
    /\ IF Head(queue).root THEN AddWin(w) ELSE RemoveWin(w)
    /\ misled' = (misled \/ (Head(queue).root /\ Listed(w) /\ wins # OnTop(wins, w)))
    /\ UNCHANGED <<server, screen>>

\* Update what is cached about a listed window and have it painted.
Update(w, new) ==
    /\ IF Listed(w) THEN cache' = [cache EXCEPT ![w] = new] /\ dirty' = TRUE
       ELSE UNCHANGED <<cache, dirty>>
    /\ UNCHANGED <<server, requests, busy, screen>>

OnMap(w) ==
    /\ On("map", w) /\ (Listed(w) => Answered)
    /\ Update(w, [cache[w] EXCEPT !.viewable = TRUE, !.pic = NoPic,
                                  !.size = IF Exists(w) THEN size[w] ELSE @])
    /\ UNCHANGED <<wins, misled>>

OnUnmap(w) ==
    /\ On("unmap", w)
    /\ Update(w, [cache[w] EXCEPT !.viewable = FALSE, !.pic = NoPic])
    /\ UNCHANGED <<wins, misled>>

\* Mutant: the old picture is kept.
OnConfigureKept(w) ==
    /\ On("configure", w)
    /\ Update(w, [cache[w] EXCEPT !.size = Head(queue).size])
    /\ IF Listed(w) THEN Restack(w, Head(queue).above) ELSE UNCHANGED <<wins, misled>>

\* A picture of the old size is dropped.
OnConfigure(w) ==
    /\ On("configure", w)
    /\ Update(w, [cache[w] EXCEPT !.size = Head(queue).size,
                                  !.pic = IF cache[w].size = Head(queue).size THEN @ ELSE NoPic])
    /\ IF Listed(w) THEN Restack(w, Head(queue).above) ELSE UNCHANGED <<wins, misled>>

OnCirculate(w) ==
    /\ On("circulate", w)
    /\ Update(w, cache[w])
    /\ IF ~Listed(w) THEN UNCHANGED <<wins, misled>>
       ELSE IF Head(queue).top THEN wins' = OnTop(wins, w) /\ UNCHANGED misled
       ELSE Restack(w, NoWin)

OnProperty(w) ==
    /\ On("property", w) /\ (Listed(w) => Answered)
    /\ Update(w, [cache[w] EXCEPT !.opaque = ReadOpacity(w)])
    /\ UNCHANGED <<wins, misled>>

HandleEvent(w) ==
    \/ OnDamage(w) \/ OnCreate(w) \/ OnDestroy(w) \/ OnReparent(w) \/ OnMap(w)
    \/ OnUnmap(w) \/ OnConfigure(w) \/ OnCirculate(w) \/ OnProperty(w)

-----------------------------------------------------------------------------
(* Painting                                                                *)

\* ensure_pic: the picture of a viewable window, named now if there is none.
Picture(w) ==
    IF ~cache[w].viewable \/ cache[w].pic # NoPic THEN cache[w].pic
    ELSE IF Viewable(w) THEN pixmap[w] ELSE BadPic

Drawing(w, pic, s) == [win |-> w, pic |-> pic, size |-> s, ink |-> ink[w]]

\* XPending has seen no event; more may arrive before anything is painted.
BeginPaint ==
    /\ busy = Idle /\ queue = <<>> /\ dirty
    /\ busy' = [win |-> NoWin, step |-> "paint"]
    /\ UNCHANGED <<xvars, wins, cache, dirty, screen, misled>>

\* Mutant: dirty is not reset.
PaintAgain ==
    /\ busy.step = "paint" /\ busy' = Idle /\ Answered
    /\ screen' = {Drawing(w, Picture(w), cache[w].size) :
                     w \in {x \in ToSet(wins) : cache[x].viewable /\ Picture(x) # BadPic}}
    /\ UNCHANGED <<xvars, wins, cache, dirty, misled>>

\* Its requests need no answer either, but come after all others; an event rcomp
\* handles before they are served could be handled after them as well.
Paint ==
    /\ busy.step = "paint" /\ Answered
    /\ busy' = Idle /\ dirty' = FALSE
    /\ cache' = [w \in Windows |-> IF Listed(w) THEN [cache[w] EXCEPT !.pic = Picture(w)]
                                   ELSE cache[w]]
    /\ screen' = {Drawing(w, Picture(w), cache[w].size) :
                     w \in {x \in ToSet(wins) : cache[x].viewable /\ Picture(x) # BadPic}}
    /\ UNCHANGED <<xvars, wins, misled>>

Compositor ==
    \/ \E w \in Windows : HandleEvent(w) \/ GetOpacity(w) \/ AppendWin(w)
    \/ BeginPaint \/ Paint

Server == \E w \in Windows : Serve(w) /\ UNCHANGED <<wins, cache, dirty, busy, screen, misled>>

Next ==
    \/ Programs /\ UNCHANGED <<wins, cache, dirty, busy, screen, misled>>
    \/ Compositor
    \/ Server

Spec == Init /\ [][Next]_vars

\* The loop of main never stops: it handles what there is, or paints.  Xlib sends
\* what it has buffered before it waits.
FairSpec == Spec /\ WF_vars(Compositor) /\ WF_vars(Server)

-----------------------------------------------------------------------------
(* Properties                                                              *)

\* The shape of the state; no window is twice in the list.
TypeOK ==
    /\ wins \in Seq(Windows \ Hidden)
    /\ IsInjective(wins)
    /\ cache \in [Windows -> [viewable : BOOLEAN, size : Sizes, opaque : BOOLEAN, pic : Int]]
    /\ \A w \in Windows : cache[w].pic \in {NoPic, BadPic} \cup 0 .. pixmap[w]
    /\ dirty \in BOOLEAN /\ misled \in BOOLEAN
    /\ busy.win \in Windows \cup {NoWin}
    /\ busy.step \in {"none", "opacity", "append", "paint"}

\* Nothing is left to handle and nothing to paint.
Quiet == queue = <<>> /\ busy = Idle /\ ~dirty

\* Once it is quiet, the screen shows exactly the viewable windows, each from
\* its current pixmap, in its current size, with everything drawn on it: no
\* event is needed that was not sent, or was handled against newer state.
UpToDate ==
    Quiet => screen = {Drawing(w, pixmap[w], size[w]) :
                          w \in {x \in Windows \ Hidden : Viewable(x)}}

\* Replaying events on the list ends with the server's order, unless an event
\* named a sibling the list does not hold or raised a window by reparenting it.
OrderReplayed == Quiet /\ ~misled => InOrder

\* An event is on its way at which rcomp reads the opacity of w, or drops w.
Rereads(w) ==
    \E i \in DOMAIN queue :
        /\ queue[i].win = w
        /\ \/ queue[i].type \in {"property", "destroy"}
           \/ queue[i].type = "reparent" /\ ~queue[i].root

OpacityKnown(w) ==
    Listed(w) \/ busy = [win |-> w, step |-> "append"] =>
        cache[w].opaque = opaque[w] \/ Rereads(w)

\* add_win has begun with w, and the server has not got its XSelectInput yet; it
\* may lie in Xlib's buffer while rcomp is handling other events.
Unselected(w) == busy.win = w \/ Contains(requests, Request("manage", w))

\* The opacity in a list entry gets out of step in one way only: by a change
\* between add_win's reading of it and the selection of property changes.  A
\* later change reaches rcomp, also after one that was lost like that.
OpacityKept ==
    [][\A w \in Windows \ Hidden :
           OpacityKnown(w) \/ (Listed(w) /\ opaque'[w] # opaque[w]) =>
               OpacityKnown(w)' \/ (Unselected(w) /\ opaque'[w] # opaque[w])]_vars

\* When the other programs pause, the compositor comes to rest.
SettlesDown == <>[]Quiet

-----------------------------------------------------------------------------
(* The inductive invariant behind the promises                             *)

Events ==
    [type : {"create", "destroy", "map", "unmap", "damage", "property"}, win : Windows]
    \cup [type : {"reparent"}, win : Windows, root : BOOLEAN]
    \cup [type : {"circulate"}, win : Windows, top : BOOLEAN]
    \cup {e \in [type : {"configure"}, win : Windows, size : Sizes, above : Windows \cup {NoWin}] :
             e.above # e.win}

Requests == [type : {"manage", "subtract", "release"}, win : Windows]

Kind(t, w) == {e \in Events : e.win = w /\ e.type = t}

\* Events after which w is, or is not, a child of the root; after which it is,
\* or is not, viewable; and which say that its size is in S.
Adding(w)   == Kind("create", w) \cup {e \in Kind("reparent", w) : e.root}
Removing(w) == Kind("destroy", w) \cup {e \in Kind("reparent", w) : ~e.root}
Hiding(w)   == Removing(w) \cup Kind("unmap", w)
Sizing(w, S) == {e \in Kind("configure", w) : e.size \in S}

\* An event of P is in q; and none of Q comes after it; each event of P in q
\* has one of Q before it; one of P and a later one of R have one of Q between.
Some(q, P) == \E i \in DOMAIN q : q[i] \in P
Lasting(q, P, Q) ==
    \E i \in DOMAIN q : q[i] \in P /\ \A j \in DOMAIN q : j > i => q[j] \notin Q
Behind(q, P, Q) ==
    \A i \in DOMAIN q : q[i] \in P => \E j \in DOMAIN q : j < i /\ q[j] \in Q
Spaced(q, P, R, Q) ==
    \A i, k \in DOMAIN q :
        i < k /\ q[i] \in P /\ q[k] \in R => \E j \in DOMAIN q : i < j /\ j < k /\ q[j] \in Q

\* In the list, or about to be.
Present(w) == Listed(w) \/ busy.win = w

\* The server's state, and what rcomp may be in the middle of.
XTypeOK ==
    /\ order \in Seq(Windows) /\ IsInjective(order)
    /\ away \subseteq Windows /\ \A w \in away : ~Contains(order, w)
    /\ mapped \subseteq Windows /\ \A w \in mapped : Exists(w)
    /\ size \in [Windows -> Sizes] /\ opaque \in [Windows -> BOOLEAN]
    /\ pixmap \in [Windows -> Nat] /\ ink \in [Windows -> Nat]
    /\ tracked \subseteq Windows /\ damaged \subseteq Windows /\ watched \subseteq Windows
    /\ queue \in Seq(Events) /\ requests \in Seq(Requests) /\ changes \in Nat

BusyOK ==
    \/ busy = Idle
    \/ busy = [win |-> NoWin, step |-> "paint"]
    \/ /\ busy.win \in Windows \ Hidden /\ ~Listed(busy.win)
       /\ busy.step \in {"opacity", "append"} /\ busy = [win |-> busy.win, step |-> busy.step]

\* A window is a child of the root if the last event to say so is on its way,
\* or if it is in the list and nothing on its way says otherwise.
Tree(w) ==
    /\ Contains(order, w) <=>
           Lasting(queue, Adding(w), Removing(w)) \/ (Present(w) /\ ~Some(queue, Removing(w)))
    /\ Spaced(queue, Adding(w), Kind("create", w), Removing(w))
    /\ Present(w) => Behind(queue, Kind("create", w), Removing(w))

\* In the same way it is viewable ...
Seen(w) ==
    Viewable(w) => \/ Lasting(queue, Kind("map", w), Adding(w) \cup Hiding(w))
                   \/ Present(w) /\ cache[w].viewable /\ ~Some(queue, Hiding(w))

\* ... or not ...
Unseen(w) ==
    ~Viewable(w) => /\ ~Lasting(queue, Kind("map", w), Hiding(w))
                    /\ Present(w) /\ cache[w].viewable => Some(queue, Hiding(w))

\* ... and of its size.
Right(w) == IF Contains(order, w) THEN Sizing(w, {size[w]}) ELSE {}

Sized(w) ==
    /\ ~Lasting(queue, Kind("configure", w) \ Right(w), Right(w) \cup Removing(w))
    /\ Contains(order, w) /\ Present(w) /\ ~Some(queue, Removing(w)) =>
           cache[w].size = size[w] \/ Some(queue, Right(w))

\* An old picture goes when one of the events on their way is handled.
Pictured(w) ==
    Present(w) =>
        /\ cache[w].pic \notin {NoPic, pixmap[w]} =>
               Some(queue, Kind("map", w) \cup Hiding(w) \cup Sizing(w, Sizes \ {cache[w].size}))
        /\ ~cache[w].viewable \/ busy.win = w => cache[w].pic = NoPic

\* A request of type t about w is on its way.
Asked(t, w) == \E i \in DOMAIN requests : requests[i] = Request(t, w)

Damaged(w) ==
    /\ w \in damaged =>
           Some(queue, Kind("damage", w)) \/ Asked("subtract", w) \/ Asked("release", w)
    /\ Listed(w) /\ ~Some(queue, Removing(w)) => w \in tracked \/ Asked("manage", w)
    /\ Asked("release", w) => ~Present(w)

\* The drawing of w that the screen has while nothing is to be painted.
Painted(w) ==
    ~dirty =>
        IF Listed(w) /\ cache[w].viewable /\ cache[w].pic # BadPic
        THEN /\ cache[w].pic # NoPic
             /\ \E n \in Nat :
                   /\ n = ink[w] \/ Some(queue, Kind("damage", w) \cup Removing(w))
                   /\ {d \in screen : d.win = w} =
                         {[win |-> w, pic |-> cache[w].pic, size |-> cache[w].size, ink |-> n]}
        ELSE {d \in screen : d.win = w} = {}

Mirrored(w) ==
    Tree(w) /\ Seen(w) /\ Unseen(w) /\ Sized(w) /\ Pictured(w) /\ Damaged(w) /\ Painted(w)

IInv ==
    /\ XTypeOK /\ TypeOK /\ BusyOK
    /\ \A d \in screen : d.win \in Windows \ Hidden
    /\ ~dirty => Answered
    /\ \A w \in Windows \ Hidden : Mirrored(w)

\* What the opacity needs besides: rcomp has selected the property changes of
\* each window in the list that is not about to be dropped.
Selected(w) ==
    Listed(w) /\ ~Some(queue, Removing(w)) => w \in watched \/ Asked("manage", w)

\* A stack without w; with w above all the others, or below; and right over a.
Out(R, w) == {p \in R : p[1] # w /\ p[2] # w}

OverAll(R, w) == Out(R, w) \cup {<<x, w>> : x \in {w} \cup {y \in Windows : <<y, y>> \in R}}

UnderAll(R, w) == Out(R, w) \cup {<<w, x>> : x \in {w} \cup {y \in Windows : <<y, y>> \in R}}

Over(R, w, a) ==
    Out(R, w) \cup {<<x, w>> : x \in {w} \cup {y \in Windows : <<y, a>> \in R}}
              \cup {<<w, x>> : x \in {y \in Windows \ {a, w} : <<a, y>> \in R}}

\* The event e is what makes the stack R the stack T.
Replays(R, e, T) ==
    LET w == e.win
    IN  \/ /\ e \in Adding(w) \/ (e.type = "circulate" /\ e.top)
           /\ T = OverAll(R, w)
        \/ e \in Removing(w) /\ T = Out(R, w)
        \/ /\ (e.type = "configure" /\ e.above = NoWin) \/ (e.type = "circulate" /\ ~e.top)
           /\ T = UnderAll(R, w)
        \/ e.type = "configure" /\ e.above # NoWin /\ T = Over(R, w, e.above)
        \/ e.type \in {"map", "unmap", "damage", "property"} /\ T = R

\* What the list has to do with the stack R that the events on their way begin
\* with; a window that is being added was added to its top.
Fits(R) ==
    /\ \A x \in Windows \ Hidden : Present(x) => <<x, x>> \in R
    /\ \A x, y \in Windows \ Hidden :
           Listed(x) /\ Listed(y) /\ ~misled => (<<x, y>> \in Stack(wins) <=> <<x, y>> \in R)
    /\ \A x, y \in Windows \ Hidden :
           Listed(x) /\ busy.win = y => <<x, y>> \in R /\ <<y, x>> \notin R

\* The events of q make the stack R the stack T.
Leads(q, R, T) ==
    \E past \in [1 .. Len(q) + 1 -> SUBSET (Windows \X Windows)] :
        /\ past[1] = R /\ past[Len(q) + 1] = T
        /\ \A i \in 1 .. Len(q) : Replays(past[i], q[i], past[i + 1])

\* The events on their way lead from a stack the list fits to the server's.
Replayed == \E R \in SUBSET (Windows \X Windows) : Fits(R) /\ Leads(queue, R, Stack(order))
=============================================================================
