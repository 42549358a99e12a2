----------------------------- MODULE WatchLoop ------------------------------
(***************************************************************************)
(* The two debounce loops: hmr.Watcher, whose callback reads the file and  *)
(* gives the bytes to wasm.Handle.Update, and watch.Watcher, whose         *)
(* callback belongs to its user, who looks at the file in it.  They are    *)
(* the same loop up to the operations they follow and the callback.        *)
(*                                                                         *)
(* The file has a version, 0 when it is gone; torn says that somebody is   *)
(* in the middle of writing it in place.  Notifications are a bounded      *)
(* queue of the kernel: one that finds it full is lost, and a single       *)
(* overflow mark, delivered as an error, stands for all that were.         *)
(*                                                                         *)
(* Of the handle (module WasmHandle) this module has its mutex, which      *)
(* Update takes before it looks at anything: other Updates and Calls hold  *)
(* it as long as they like.                                                *)
(***************************************************************************)
EXTENDS Integers, Sequences

CONSTANTS
    MaxSteps,   \* bound on what is done to the file
    QueueCap    \* notifications the kernel keeps

ASSUME WatchAssumption == MaxSteps \in Nat /\ QueueCap \in Nat \ {0}

VARIABLES
    form,       \* which of the two loops: "hmr" or "watch"
    \* the file system
    file, torn,
    steps,      \* what was done to the file so far
    queue,
    unseen,     \* a change was made that no queued notification stands for
    \* the loop
    loop,       \* "starting", "select", "reading", "locking", "updating" or "done"
    timer,      \* "off", "running" or "fired" (timer and timerC)
    seen,       \* what the callback read last: version and whether torn
    \* its surroundings
    held,       \* another Update, or a Call, is inside Handle.mu
    blocked,    \* the services the component injects are missing
    cancelled,  \* the context.Context is done
    closing     \* Close was called

fileVars == <<file, torn, steps>>
askVars == <<held, blocked, cancelled, closing>>
vars == <<form, fileVars, queue, unseen, loop, timer, seen, askVars>>

Ops == {"create", "write", "rename", "remove", "chmod"}
Overflow == "overflow"

Content == <<file, torn>>

Init ==
    /\ form \in {"hmr", "watch"}
    /\ file = 1 /\ torn = FALSE /\ steps = 1
    /\ queue = <<>> /\ unseen = FALSE
    /\ loop = "starting" /\ timer = "off" /\ seen = <<1, FALSE>>
    /\ held = FALSE /\ blocked \in BOOLEAN /\ cancelled = FALSE /\ closing = FALSE
-----------------------------------------------------------------------------
(* What others do to the file, and what the kernel makes of it. *)

\* The operations that (re)start the timer.  "chmod" stands for the events of
\* other files in the directory as well.
Followed ==
    IF form = "hmr" THEN {"write", "create", "rename"} ELSE Ops \ {"chmod"}

\* The directory is watched from Add until the loop closes the watcher.
Watched == loop \notin {"starting", "done"}

Notify(op) ==
    /\ queue' = CASE ~Watched \/ Len(queue) > QueueCap -> queue
                  [] Watched /\ Len(queue) = QueueCap -> Append(queue, Overflow)
                  [] Watched /\ Len(queue) < QueueCap -> Append(queue, op)
    /\ unseen' = (unseen \/ ~Watched \/ Len(queue) >= QueueCap)

Touch ==
    /\ steps < MaxSteps
    /\ steps' = steps + 1
    /\ UNCHANGED <<form, loop, timer, seen, askVars>>

\* Writing in place is a truncation, and later the end of the writing.
BeginWrite ==
    /\ Touch
    /\ ~torn
    /\ file' = steps + 1 /\ torn' = TRUE
    /\ Notify(IF file = 0 THEN "create" ELSE "write")

EndWrite ==
    /\ torn
    /\ torn' = FALSE
    /\ Notify("write")
    /\ UNCHANGED <<form, file, steps, loop, timer, seen, askVars>>

\* An atomic save: another file is renamed over this one.
SaveAtomically ==
    /\ Touch
    /\ ~torn
    /\ file' = steps + 1 /\ UNCHANGED torn
    /\ Notify("create")

MoveAway ==
    /\ Touch
    /\ ~torn /\ file # 0
    /\ file' = 0 /\ UNCHANGED torn
    /\ \E op \in {"rename", "remove"} : Notify(op)

Chmod ==
    /\ Touch
    /\ Notify("chmod")
    /\ UNCHANGED <<file, torn>>

FileStep == BeginWrite \/ SaveAtomically \/ MoveAway \/ Chmod
-----------------------------------------------------------------------------
(* The loop. *)

\* fw.Add has succeeded and the goroutine runs.
Start ==
    /\ loop = "starting"
    /\ loop' = "select"
    /\ UNCHANGED <<form, fileVars, queue, unseen, timer, seen, askVars>>

\* Mutant: an event that finds the timer running stops it and starts none.
TakeEventOnce ==
    /\ loop = "select"
    /\ queue # <<>> /\ Head(queue) # Overflow
    /\ queue' = Tail(queue)
    /\ timer' = IF Head(queue) \notin Followed THEN timer
                ELSE IF timer = "running" THEN "off" ELSE "running"
    /\ UNCHANGED <<form, fileVars, unseen, loop, seen, askVars>>

\* stopTimer, then a new timer: a firing nobody took is forgotten.
TakeEvent ==
    /\ loop = "select"
    /\ queue # <<>> /\ Head(queue) # Overflow
    /\ queue' = Tail(queue)
    /\ timer' = IF Head(queue) \in Followed THEN "running" ELSE timer
    /\ UNCHANGED <<form, fileVars, unseen, loop, seen, askVars>>

\* Mutant: nobody receives from Errors, and the reader of the kernel's queue
\* stays where it is.
ErrorsUnread == FALSE /\ UNCHANGED vars

\* Errors are reported or ignored; nothing else comes of them.
TakeError ==
    /\ loop = "select"
    /\ queue # <<>> /\ Head(queue) = Overflow
    /\ queue' = Tail(queue)
    /\ UNCHANGED <<form, fileVars, unseen, loop, timer, seen, askVars>>

TimerFires ==
    /\ timer = "running"
    /\ timer' = "fired"
    /\ UNCHANGED <<form, fileVars, queue, unseen, loop, seen, askVars>>

\* The firing is received; stopTimer; the callback begins.
Fire ==
    /\ loop = "select" /\ timer = "fired"
    /\ timer' = "off"
    /\ loop' = "reading"
    /\ UNCHANGED <<form, fileVars, queue, unseen, seen, askVars>>

\* The callback looks at the file.  hmr reports an error if there is none, and
\* gives the bytes to Update otherwise.
Read ==
    /\ loop = "reading"
    /\ seen' = Content
    /\ unseen' = FALSE
    /\ loop' = CASE form = "watch" -> "updating"
                 [] form = "hmr" /\ file = 0 -> "select"
                 [] form = "hmr" /\ file # 0 -> "locking"
    /\ UNCHANGED <<form, fileVars, queue, timer, askVars>>

\* Update takes the handle's mutex first, and looks at no context meanwhile.
Lock ==
    /\ loop = "locking" /\ ~held
    /\ loop' = "updating"
    /\ UNCHANGED <<form, fileVars, queue, unseen, timer, seen, askVars>>

\* The callback returns.  Update returns at once when the probe refuses half a
\* file; otherwise it waits until the new version is active, that is for the
\* services it injects, or until the context is done.
Return ==
    /\ loop = "updating"
    /\ form = "hmr" => seen[2] \/ ~blocked \/ cancelled
    /\ loop' = "select"
    /\ UNCHANGED <<form, fileVars, queue, unseen, timer, seen, askVars>>

\* Mutants: one of the two reasons to stop is not looked at.
StopOnClose ==
    /\ loop = "select" /\ closing
    /\ loop' = "done" /\ timer' = "off"
    /\ UNCHANGED <<form, fileVars, queue, unseen, seen, askVars>>

StopOnCancel ==
    /\ loop = "select" /\ cancelled
    /\ loop' = "done" /\ timer' = "off"
    /\ UNCHANGED <<form, fileVars, queue, unseen, seen, askVars>>

\* Mutant: the timer is not stopped on the way out.
StopTicking ==
    /\ loop = "select" /\ (cancelled \/ closing)
    /\ loop' = "done"
    /\ UNCHANGED <<form, fileVars, queue, unseen, timer, seen, askVars>>

\* select picks among the cases that are ready, so Stop may lose to others.
Stop ==
    /\ loop = "select" /\ (cancelled \/ closing)
    /\ loop' = "done" /\ timer' = "off"
    /\ UNCHANGED <<form, fileVars, queue, unseen, seen, askVars>>

LoopStep == Start \/ TakeEvent \/ TakeError \/ Fire \/ Read \/ Lock \/ Return \/ Stop
-----------------------------------------------------------------------------
Cancel ==
    /\ cancelled' = TRUE
    /\ UNCHANGED <<form, fileVars, queue, unseen, loop, timer, seen, held, blocked, closing>>

Close ==
    /\ loop # "starting"
    /\ closing' = TRUE
    /\ UNCHANGED <<form, fileVars, queue, unseen, loop, timer, seen, held, blocked, cancelled>>

\* A service the component injects goes or comes back.
Flip ==
    /\ blocked' = ~blocked
    /\ UNCHANGED <<form, fileVars, queue, unseen, loop, timer, seen, held, cancelled, closing>>

\* Somebody else updates or calls the handle, or has done so.
Hold ==
    /\ form = "hmr" /\ ~held /\ loop # "updating"
    /\ held' = TRUE
    /\ UNCHANGED <<form, fileVars, queue, unseen, loop, timer, seen, blocked, cancelled, closing>>

Unhold ==
    /\ held
    /\ held' = FALSE
    /\ UNCHANGED <<form, fileVars, queue, unseen, loop, timer, seen, blocked, cancelled, closing>>

Next ==
    \/ FileStep \/ EndWrite
    \/ LoopStep \/ TimerFires
    \/ Cancel \/ Close \/ Flip \/ Hold \/ Unhold

Spec == Init /\ [][Next]_vars

\* The goroutine runs while a case of its select is ready or its callback can
\* return, time passes, and whoever writes in place comes to an end.  A mutex
\* that is free again and again comes to whoever waits for it (sync.Mutex hands
\* itself over after a millisecond), but nobody need ever leave it.
FairSpec ==
    /\ Spec
    /\ WF_vars(LoopStep) /\ SF_vars(Lock)
    /\ WF_vars(TimerFires) /\ WF_vars(EndWrite)
-----------------------------------------------------------------------------
\* Types.  A timer belongs to the select: none outlives the loop, or runs while a
\* callback does; and the loop and others exclude one another in the handle.
TypeOK ==
    /\ form \in {"hmr", "watch"}
    /\ file \in 0..MaxSteps + 1 /\ torn \in BOOLEAN /\ steps \in Nat
    /\ queue \in Seq(Ops \cup {Overflow}) /\ Len(queue) <= QueueCap + 1
    /\ unseen \in BOOLEAN
    /\ loop \in {"starting", "select", "reading", "locking", "updating", "done"}
    /\ timer \in {"off", "running", "fired"}
    /\ timer # "off" => loop = "select"
    /\ seen \in (0..MaxSteps + 1) \X BOOLEAN
    /\ held \in BOOLEAN /\ (held => form = "hmr" /\ loop # "updating")
    /\ blocked \in BOOLEAN /\ cancelled \in BOOLEAN /\ closing \in BOOLEAN

\* There is a state of the file to agree on: nobody is writing, no change went
\* without notification, and, for hmr, which does not follow removals, there is
\* a file.
Settled == ~torn /\ ~unseen /\ (form = "hmr" => file # 0)

\* The debounce loses nothing: however events, firings, callbacks and writers
\* interleave, once the queue is empty and the timer off, what the callback
\* last read is what the file holds.  In particular a callback that read half a
\* file, or ran while the file was saved again, is followed by another.
QuietMeansCurrent ==
    loop = "select" /\ timer = "off" /\ queue = <<>> /\ Settled => seen = Content

\* The loop does not stay behind: when nobody touches the file any more, and
\* the loop is neither stopped nor held up by an Update, the callback comes to
\* read the last version, overflows on the way notwithstanding.
CatchesUp ==
    <>[](loop \in {"starting", "select", "reading"} /\ Settled => seen = Content)

\* Nobody keeps the handle for ever: a Call returns, and so does an Update without
\* a deadline.
HandleFrees == form = "hmr" => []<>~held

\* Cancelling the context ends the loop, even one that is inside an Update
\* waiting for services that never come, unless Update waits for the handle's
\* mutex for ever: it takes that before it looks at the context.
CancelStops == HandleFrees => (cancelled ~> (loop = "done"))

\* Close ends the loop as well, provided that, besides, no Update waits for ever
\* for services: Close does not reach into the callback, cancelling does.
CloseStops ==
    HandleFrees /\ (form = "hmr" => <>[]~blocked) => (closing ~> (loop = "done"))
=============================================================================
