------------------------------ MODULE UIObjects ------------------------------
(***************************************************************************)
(* The UI object manager (libupanui/uiobject/core): the tree of UI         *)
(* objects, the queue of objects to draw again, the two focuses, and the   *)
(* three sorts of threads that meet there:                                 *)
(*   - the application, whose calls take the tree mutex (drawLock) and are *)
(*     a step each, since they exclude the drawing and one another; but    *)
(*     x(), y() and xy() are two, as a notifier gets in between;           *)
(*   - the refresh thread, which holds the tree mutex while it draws;      *)
(*   - the notifiers: objects changed without the tree mutex, a text area  *)
(*     by its blink thread, a label by a thread that calls setText.        *)
(* A mouse event is dispatched under the tree mutex and counts as a call   *)
(* of the application.                                                     *)
(*                                                                         *)
(* Of the look of an object the model keeps whether what is in its draw    *)
(* buffer is out of date.  Geometry, visibility and z order are left out.  *)
(***************************************************************************)
EXTENDS Naturals, Sequences, FiniteSets, SequencesExt, Functions

CONSTANTS
    Objects,    \* the UI objects, with the root
    Root,       \* _rootCanvas
    Local,      \* the canvases with a draw buffer of their own
    Through,    \* the objects drawn by drawing their parent: round or not opaque
    Labels,     \* the objects whose constructor asks for a redraw
    Buttons,    \* the objects that see the mouse, and change their look under it
    Focusable,  \* the objects that take keyboard input
    Notifiers,  \* the objects changed without the tree mutex
    Blinking,   \* those of them with a blink thread; the others are labels
    Places,     \* the pairs <<parent, child>> the application adds
    MaxQueue,   \* MAX_OBJECTS_UPDATE_QUEUE
    None        \* an empty option

ASSUME ObjectAssumption ==
    /\ IsFiniteSet(Objects) /\ Root \in Objects /\ None \notin Objects
    /\ UNION {Local, Through, Labels, Buttons, Focusable, Notifiers} \subseteq Objects \ {Root}
    /\ Blinking \subseteq Notifiers
    /\ Places \subseteq Objects \X (Objects \ {Root})
    /\ MaxQueue \in Nat \ {0}

VARIABLES
    live,       \* the objects that exist
    parent,     \* _childParentMap, without the root and its proxy parent
    children,   \* _parentChildMap
    flagged,    \* the objects whose _changeState has Content or Size: Position
                \* alone is skipped as Clean is, and is not kept
    queue,      \* _modifiedUIObjects
    keyboard,   \* _keyboardFocusedObject
    mouse,      \* _mouseFocusedObject
    moving,     \* the object whose x(), y() or xy() is at its _changeState |=
    loaded,     \* what that |= has loaded: whether the object was flagged
    drawing,    \* the refresh thread is inside draw() and holds the tree mutex
    snapshot,   \* draw(): the objects still to be drawn
    frames,     \* drawTopDown: the canvases begun, with the children to come
    notify,     \* where the notifier of an object is
    phase,      \* up, and then the steps of ~UIObjectManager
    doomed,     \* destroy: the objects begun, from the root down
    queueOwner, \* the object destroy() deletes under the queue mutex
    outdated,   \* auxiliary: the objects whose last change is in no buffer
    missed,     \* auxiliary: those of them whose change the code has lost
    attached    \* auxiliary: the tree as it was when the destructor began

treeVars == <<live, parent, children>>
focusVars == <<keyboard, mouse>>
callVars == <<moving, loaded>>
drawVars == <<drawing, snapshot, frames>>
endVars == <<phase, doomed, queueOwner, attached>>
vars == <<treeVars, flagged, queue, focusVars, callVars, drawVars, notify, endVars,
          outdated, missed>>

TypeOK ==
    /\ live \subseteq Objects
    /\ DOMAIN parent \subseteq live \ {Root} /\ Range(parent) \subseteq Objects
    /\ children \in [Objects -> SUBSET Objects]
    /\ flagged \subseteq Objects
    /\ queue \in Seq(Objects) /\ Len(queue) <= MaxQueue
    /\ {keyboard, mouse} \subseteq Objects \cup {None}
    /\ moving \in Objects \cup {None} /\ loaded \in BOOLEAN
    /\ drawing \in BOOLEAN /\ snapshot \subseteq Objects
    /\ frames \in Seq([node : Objects, todo : SUBSET Objects])
    /\ notify \in [Notifiers -> {"idle", "flag", "queue"}]
    /\ phase \in {"up", "stop", "destroy", "down"}
    /\ doomed \in Seq(Objects) /\ queueOwner \in Objects \cup {None}
    /\ outdated \subseteq Objects /\ missed \subseteq Objects

Init ==
    /\ live = {Root} /\ parent = <<>>
    /\ children = [o \in Objects |-> {}]
    /\ flagged = {Root}
    /\ queue = <<Root>> /\ outdated = {Root}
    /\ keyboard = Root /\ mouse = None
    /\ moving = None /\ loaded = FALSE
    /\ drawing = FALSE /\ snapshot = {} /\ frames = <<>>
    /\ notify = [o \in Notifiers |-> "idle"]
    /\ phase = "up" /\ doomed = <<>> /\ queueOwner = None
    /\ missed = {} /\ attached = {}

-----------------------------------------------------------------------------
(* The tree                                                                *)

\* An object and all it reaches by parent().
Above(o) ==
    LET up[n \in 0 .. Cardinality(Objects)] ==
            IF n = 0 THEN {o}
            ELSE up[n - 1] \cup {parent[x] : x \in up[n - 1] \cap DOMAIN parent}
    IN  up[Cardinality(Objects)]

\* parent() does not throw up to the root.
HasChain(o) == Root \in Above(o)

\* The object is in the children's list of its parent, and so on up.
InTree(o) ==
    HasChain(o) /\ \A a \in Above(o) \ {Root} : a \in children[parent[a]]

\* The manager is up, and nobody holds the tree mutex.
TreeFree == phase = "up" /\ ~drawing /\ moving = None

-----------------------------------------------------------------------------
(* The redraw queue                                                        *)

\* Mutants of Enqueued: no bound,
EnqueuedUnbounded(q, o) ==
    IF o = Root THEN <<Root>>
    ELSE IF q = <<>> \/ Last(q) # o THEN Append(q, o) ELSE q

\* or a full queue is cleared and the root forgotten.
EnqueuedAlone(q, o) ==
    IF Len(q) = MaxQueue \/ o = Root THEN <<o>>
    ELSE IF q = <<>> \/ Last(q) # o THEN Append(q, o) ELSE q

Enqueued(q, o) ==
    IF Len(q) = MaxQueue \/ o = Root THEN <<Root>>
    ELSE IF q = <<>> \/ Last(q) # o THEN Append(q, o) ELSE q

\* Of an option: nothing is queued for an empty one.
EnqueuedIfAny(q, option) == IF option = None THEN q ELSE Enqueued(q, option)

-----------------------------------------------------------------------------
(* The application                                                         *)

\* new: the constructor of a label calls setFont, which asks for a redraw
\* of an object that is in no tree yet.
Create(o) ==
    /\ phase = "up" /\ o \notin live
    /\ live' = live \cup {o} /\ outdated' = outdated \cup {o} /\ flagged' = flagged \cup {o}
    /\ queue' = IF o \in Labels THEN Enqueued(queue, o) ELSE queue
    /\ UNCHANGED <<parent, children, focusVars, callVars, drawVars, notify, endVars, missed>>

\* Mutant of Adds: the child is entered, and nobody asks for a redraw.
AddsSilently(p, c) == UNCHANGED <<queue, flagged>>

Adds(p, c) == queue' = Enqueued(queue, p) /\ flagged' = flagged \cup {p, c}

\* UIObjectImpl::add; that of a child with a parent entry throws.  Nothing
\* in the code refuses to hang an object below itself: that the application
\* does not is the guard c \notin Above(p).
Add(p, c) ==
    /\ TreeFree /\ {p, c} \subseteq live /\ c \notin DOMAIN parent
    /\ c \notin Above(p)
    /\ children' = [children EXCEPT ![p] = @ \cup {c}]
    /\ parent' = [x \in DOMAIN parent \cup {c} |-> IF x = c THEN p ELSE parent[x]]
    /\ Adds(p, c)
    /\ outdated' = outdated \cup {p} /\ missed' = missed \ {p}
    /\ UNCHANGED <<live, focusVars, callVars, drawVars, notify, endVars>>

\* UIObjectImpl::remove: the parent entry stays, and it is the child, not
\* the parent, that is queued: nobody asks for the parent's new picture.
RemoveObject(c) ==
    /\ TreeFree /\ c \in DOMAIN parent
    /\ children' = [children EXCEPT ![parent[c]] = @ \ {c}]
    /\ flagged' = flagged \cup {c} /\ queue' = Enqueued(queue, c)
    /\ outdated' = outdated \cup {parent[c]} /\ missed' = missed \cup {parent[c]}
    /\ UNCHANGED <<live, parent, focusVars, callVars, drawVars, notify, endVars>>

\* A setter that changes the look of the object: notifyChange(Content).
Change(o) ==
    /\ TreeFree /\ o \in live
    /\ outdated' = outdated \cup {o} /\ missed' = missed \ {o}
    /\ flagged' = flagged \cup {o} /\ queue' = Enqueued(queue, o)
    /\ UNCHANGED <<treeVars, focusVars, callVars, drawVars, notify, endVars>>

\* x(), y(), xy() up to the load of the object's own _changeState |= Position.
MoveLoad(o) ==
    /\ TreeFree /\ o \in DOMAIN parent
    /\ moving' = o /\ loaded' = (o \in flagged)
    /\ UNCHANGED <<treeVars, flagged, queue, focusVars, drawVars, notify, endVars, outdated, missed>>

\* setChangeState(Position) stores what it loaded: a Content that a notifier
\* has put there meanwhile is gone.
PositionStored(o) == IF loaded THEN flagged \cup {o} ELSE flagged \ {o}

\* The rest of notifyChange(Position): the store, and the parent is to be
\* drawn again.
MoveStore ==
    LET p == parent[moving]
        overwritten == IF loaded THEN {} ELSE {moving} \cap Local \cap outdated \cap flagged
    IN  /\ moving # None
        /\ flagged' = PositionStored(moving) \cup {p} /\ queue' = Enqueued(queue, p)
        /\ outdated' = outdated \cup {p} /\ missed' = (missed \ {p}) \cup overwritten
        /\ moving' = None /\ loaded' = FALSE
        /\ UNCHANGED <<treeVars, focusVars, drawVars, notify, endVars>>

SetFocus(o) ==
    /\ TreeFree /\ o \in live \cap Focusable
    /\ keyboard' = o
    /\ UNCHANGED <<treeVars, flagged, queue, mouse, callVars, drawVars, notify, endVars, outdated, missed>>

\* A mouse event with no button held, over the object o or over none: a
\* button changes its look when it loses or gains the focus.
MouseEvent(o, pressed) ==
    LET turned == {mouse, o} \ {None}
    IN  /\ TreeFree
        /\ o = None \/ (o \in live \cap Buttons /\ InTree(o))
        /\ keyboard' = IF pressed /\ o \in Focusable THEN o ELSE keyboard
        /\ mouse' = o
        /\ IF mouse = o
           THEN UNCHANGED <<flagged, queue, outdated, missed>>
           ELSE /\ flagged' = flagged \cup turned
                /\ outdated' = outdated \cup turned /\ missed' = missed \ turned
                /\ queue' = EnqueuedIfAny(EnqueuedIfAny(queue, mouse), o)
        /\ UNCHANGED <<treeVars, callVars, drawVars, notify, endVars>>

-----------------------------------------------------------------------------
(* A change without the tree mutex                                         *)

\* The content changes, then setChangeState(Content) and queueForRedraw run:
\* of the blink thread until ~TextArea has stopped it, of a call of the
\* application while the manager is up.
NotifyChange(o) ==
    /\ o \in live /\ notify[o] = "idle"
    /\ o \in Blinking \/ phase = "up"
    /\ outdated' = IF phase = "up" THEN outdated \cup {o} ELSE outdated
    /\ notify' = [notify EXCEPT ![o] = "flag"]
    /\ UNCHANGED <<treeVars, flagged, queue, focusVars, callVars, drawVars, endVars, missed>>

\* The store of _changeState |= Content.  Its load is no step of its own: what
\* is stored has Content whatever was loaded, and the Clean or Position of
\* another thread that is overwritten makes no difference to flagged then.
NotifyFlag(o) ==
    /\ notify[o] = "flag"
    /\ flagged' = flagged \cup {o}
    /\ notify' = [notify EXCEPT ![o] = "queue"]
    /\ UNCHANGED <<treeVars, queue, focusVars, callVars, drawVars, endVars, outdated, missed>>

NotifyQueue(o) ==
    /\ notify[o] = "queue" /\ queueOwner = None
    /\ queue' = Enqueued(queue, o)
    /\ missed' = missed \ ({o} \cap flagged)
    /\ notify' = [notify EXCEPT ![o] = "idle"]
    /\ UNCHANGED <<treeVars, flagged, focusVars, callVars, drawVars, endVars, outdated>>

-----------------------------------------------------------------------------
(* The refresh thread                                                      *)

\* UIElement::skipRedraw, for a buffer that was set up before.
SkipRedraw(n) == n \in Local \ flagged

\* draw(): the queue becomes a set.  A draw that begins after Stop is one
\* that began just before it: the destructor's thread does nothing between.
DrawBegin ==
    /\ TreeFree /\ queue # <<>>
    /\ drawing' = TRUE /\ snapshot' = Range(queue) /\ queue' = <<>>
    /\ UNCHANGED <<treeVars, flagged, focusVars, callVars, frames, notify, endVars, outdated, missed>>

\* drawTopDown: unless it is skipped, draw into the buffer, then the children.
DrawTopDown(n, above) ==
    IF SkipRedraw(n)
    THEN /\ frames' = Append(above, [node |-> n, todo |-> {}])
         /\ UNCHANGED <<outdated, missed>>
    ELSE /\ frames' = Append(above, [node |-> n, todo |-> children[n]])
         /\ outdated' = outdated \ {n} /\ missed' = missed \ {n}

\* Canvas::draw, RoundCanvas::draw and UIRoot::draw: some draw their parent.
Target(q) ==
    LET up[n \in 0 .. Cardinality(Objects)] ==
            IF n = 0 THEN q
            ELSE IF up[n - 1] \in Through THEN parent[up[n - 1]] ELSE up[n - 1]
    IN  up[Cardinality(Objects)]

DrawObject(q) ==
    /\ drawing /\ frames = <<>> /\ q \in snapshot /\ HasChain(q)
    /\ snapshot' = snapshot \ {q}
    /\ DrawTopDown(Target(q), frames)
    /\ UNCHANGED <<treeVars, flagged, queue, focusVars, callVars, drawing, notify, endVars>>

\* parent() throws for an object in no tree; on_timer_trigger catches it,
\* and the rest of the set is not drawn.
DrawThrows(q) ==
    /\ drawing /\ frames = <<>> /\ q \in snapshot /\ ~HasChain(q)
    /\ missed' = missed \cup {o \in outdated : Above(o) \cap snapshot # {}}
    /\ snapshot' = {} /\ drawing' = FALSE
    /\ UNCHANGED <<treeVars, flagged, queue, focusVars, callVars, frames, notify, endVars, outdated>>

DrawChild(c) ==
    /\ frames # <<>> /\ c \in Last(frames).todo
    /\ DrawTopDown(c, [frames EXCEPT ![Len(frames)].todo = @ \ {c}])
    /\ UNCHANGED <<treeVars, flagged, queue, focusVars, callVars, drawing, snapshot, notify, endVars>>

Cleaned(n) == flagged \ ({n} \ {Root})

\* The end of drawTopDown, skipped or not: setChangeState(Clean), also over
\* a flag set since; the root does not clean.
DrawLeave ==
    LET node == Last(frames).node
    IN  /\ frames # <<>> /\ Last(frames).todo = {}
        /\ frames' = Front(frames)
        /\ flagged' = Cleaned(node)
        /\ missed' = missed \cup ({node} \cap Local \cap outdated \cap flagged)
        /\ UNCHANGED <<treeVars, queue, focusVars, callVars, drawing, snapshot, notify, endVars, outdated>>

DrawEnd ==
    /\ drawing /\ snapshot = {} /\ frames = <<>>
    /\ drawing' = FALSE
    /\ UNCHANGED <<treeVars, flagged, queue, focusVars, callVars, snapshot, frames, notify, endVars, outdated, missed>>

-----------------------------------------------------------------------------
(* ~UIObjectManager                                                        *)

\* The application's calls have returned, also those without the tree mutex.
Stop ==
    /\ phase = "up" /\ moving = None
    /\ \A n \in Notifiers \ Blinking : notify[n] = "idle"
    /\ phase' = "stop"
    /\ attached' = {o \in live : InTree(o)}
    /\ outdated' = {} /\ missed' = {}
    /\ UNCHANGED <<treeVars, flagged, queue, focusVars, callVars, drawVars, notify, doomed, queueOwner>>

\* stop() returns when the refresh thread is gone (UThread: QuietAfterStop);
\* then destroy(_rootCanvas) takes the root out of the proxy's list.
DestroyRoot ==
    /\ phase = "stop" /\ ~drawing
    /\ phase' = "destroy" /\ doomed' = <<Root>>
    /\ UNCHANGED <<treeVars, flagged, queue, focusVars, callVars, drawVars, notify, queueOwner, attached, outdated, missed>>

\* remove() and _childParentMap.erase of the next child foreach meets.
DestroyChild(c) ==
    /\ phase = "destroy" /\ queueOwner = None /\ c \in children[Last(doomed)]
    /\ children' = [children EXCEPT ![parent[c]] = @ \ {c}]
    /\ parent' = [x \in DOMAIN parent \ {c} |-> parent[x]]
    /\ doomed' = Append(doomed, c)
    /\ UNCHANGED <<live, flagged, queue, focusVars, callVars, drawVars, notify, phase, queueOwner, attached, outdated, missed>>

\* Mutant of ForeachEnds: the iterator stood on the node that was erased.
ForeachEndsEarly(n) == TRUE

ForeachEnds(n) == children[n] = {}

Unfocused(f, o) == IF f = o THEN None ELSE f

\* Under the queue mutex: out of the queue, its first entry only, and out
\* of the focuses; the mutex is held while the object is deleted.
Unlist ==
    /\ phase = "destroy" /\ queueOwner = None /\ ForeachEnds(Last(doomed))
    /\ queueOwner' = Last(doomed)
    /\ queue' = RemoveFirst(queue, Last(doomed))
    /\ keyboard' = Unfocused(keyboard, Last(doomed))
    /\ mouse' = Unfocused(mouse, Last(doomed))
    /\ UNCHANGED <<treeVars, flagged, callVars, drawVars, notify, phase, doomed, attached, outdated, missed>>

\* Mutants of NotifierEnds: delete does not wait for the notifier,
NotifierRuns(o) == TRUE

\* or waits for those of other objects too.
NotifiersAllEnd(o) == \A n \in Notifiers : notify[n] = "idle"

\* ~TextArea: stop() of the blink thread returns when its callback has; the
\* destructor of a label waits for nobody.
NotifierEnds(o) == o \in Blinking => notify[o] = "idle"

Delete ==
    /\ queueOwner # None /\ NotifierEnds(queueOwner)
    /\ live' = live \ {queueOwner} /\ outdated' = outdated \ {queueOwner}
    /\ doomed' = Front(doomed) /\ queueOwner' = None
    /\ phase' = IF queueOwner = Root THEN "down" ELSE "destroy"
    /\ UNCHANGED <<parent, children, flagged, queue, focusVars, callVars, drawVars, notify, attached, missed>>

-----------------------------------------------------------------------------
Application ==
    \/ \E o \in Objects : Create(o) \/ Change(o) \/ MoveLoad(o) \/ RemoveObject(o) \/ SetFocus(o)
    \/ \E place \in Places : Add(place[1], place[2])
    \/ \E o \in Objects \cup {None}, pressed \in BOOLEAN : MouseEvent(o, pressed)
    \/ MoveStore \/ Stop

Notifier(o) == NotifyFlag(o) \/ NotifyQueue(o)

Refresh ==
    \/ DrawBegin \/ DrawLeave \/ DrawEnd
    \/ \E o \in Objects : DrawObject(o) \/ DrawThrows(o) \/ DrawChild(o)

Destructor == DestroyRoot \/ Unlist \/ Delete \/ \E o \in Objects : DestroyChild(o)

Next ==
    \/ Application \/ Refresh \/ Destructor
    \/ \E o \in Notifiers : NotifyChange(o) \/ Notifier(o)

Spec == Init /\ [][Next]_vars

\* The refresh thread triggers every 50 ms, a started notification or move
\* goes on, and a draw that waits for the tree mutex gets it in the end, though
\* moves take it again and again.
Fairness ==
    /\ WF_vars(Refresh) /\ SF_vars(DrawBegin)
    /\ WF_vars(Destructor) /\ WF_vars(MoveStore)
    /\ \A o \in Notifiers : WF_vars(Notifier(o))

FairSpec == Spec /\ Fairness

-----------------------------------------------------------------------------
(* Correctness                                                             *)

\* A notification or a drawing that will reach the object or one above it.
Requested(o) ==
    Above(o) \cap UNION {Range(queue), snapshot,
                         {n \in Notifiers : notify[n] # "idle"},
                         UNION {f.todo : f \in Range(frames)}} # {}

\* The ways the code has to lose a change of an object:
\*   - drawing from above stops at a clean buffer (SkipRedraw);
\*   - a draw() threw before it got to what had been asked for (DrawThrows);
\*   - a draw cleaned a change that was flagged as it was drawing (DrawLeave);
\*   - a position was stored over the flag of a notifier (MoveStore);
\*   - a child was removed, which asks for the child and not for the parent
\*     (RemoveObject).
\* The last four put the object in missed, until it is drawn or changes again
\* and asks for that.
Excused(o) == o \in missed \/ \E a \in Above(o) \ {o} : SkipRedraw(a)

\* What a full queue drops, a setter announces or a second request finds
\* already there is still drawn: after any calls modelled here, a change in
\* the tree that is in no buffer is asked for, by the object itself or above
\* it, unless it was lost in one of the five ways of Excused (queueForRedraw,
\* setChangeState, draw and drawTopDown together).
NoChangeForgotten ==
    phase = "up" => \A o \in outdated : InTree(o) => Requested(o) \/ Excused(o)

\* Such a change gets into a buffer: the refresh thread comes to all that is
\* asked for, or it is lost in one of the five ways.
ChangesAppear ==
    \A o \in Objects :
        (o \in outdated /\ phase = "up" /\ InTree(o))
        ~> (o \notin outdated \/ phase # "up" \/ ~InTree(o) \/ Excused(o))

\* The draw under way, the notifiers and the focuses keep only objects that
\* exist, through the destructor too: destroy() deletes an object after the
\* refresh thread and the object's own thread have stopped.
UsedIsLive ==
    UNION {snapshot, Range(doomed), {keyboard, mouse} \ {None},
           {n \in Notifiers : notify[n] # "idle"},
           {f.node : f \in Range(frames)}} \subseteq live

\* destroy(_rootCanvas) deletes the whole tree, though every child takes
\* itself out of the list its parent is walking.
TreeIsFreed == phase = "down" => live \cap attached = {} /\ doomed = <<>>

\* destroy() deletes under the queue mutex, and the thread that delete waits
\* for wants that mutex.
Stuck == queueOwner \in Notifiers /\ notify[queueOwner] = "queue"

\* The destructor ends, or it is stuck in that one way.
TeardownEnds == phase = "stop" ~> phase = "down" \/ Stuck
=============================================================================
