----------------------------- MODULE EventLoop -----------------------------
(***************************************************************************)
(* The loop of main(): a frame takes all pending events from SDL, acts on  *)
(* keys and the wheel at once, keeps the last event for the panels, and    *)
(* draws them one after the other.  Meanwhile the user goes on, and other  *)
(* threads log lines, which resets the position of the log.                *)
(***************************************************************************)
EXTENDS SubmitForm, Sequences

CONSTANTS
  TALL,          \* the height the user may give the window
  Points,        \* bound: where the mouse is pressed or dragged
  MaxEvents,     \* bound: how often the user does something
  UI_LOG_MAX, MAX_GANTT,
  JOB_PAGE       \* pixels of the job table that show rows

ASSUME LoopAssumption ==
  /\ TALL \in Nat /\ Points \subseteq Nat \X Nat /\ MaxEvents \in Nat
  /\ UI_LOG_MAX \in Nat \ {0} /\ MAX_GANTT \in Nat \ {0}
  /\ JOB_PAGE \in Nat

VARIABLES
  height,        \* the window's height
  sdl_queue,     \* SDL's event queue
  todo,          \* how many events the user will still cause
  clicks,        \* history: presses on a preset or on SUBMIT JOB
  step,          \* where the loop is
  quit, has_ev, ev_copy,
  job_scroll, gantt_scroll, log_scroll,    \* UIState
  read           \* log_scroll as the wheel handler has read it

userVars == <<height, sdl_queue, todo, clicks>>
frameVars == <<quit, has_ev, ev_copy>>
scrollVars == <<job_scroll, gantt_scroll, log_scroll, read>>
vars == <<formVars, userVars, step, frameVars, scrollVars>>

Init ==
  /\ FormInit
  /\ height = WIN_H
  /\ sdl_queue = <<>> /\ todo = MaxEvents /\ clicks = 0
  /\ step = "frame"
  /\ quit = FALSE /\ has_ev = FALSE /\ ev_copy = NoEvent
  /\ job_scroll = 0 /\ gantt_scroll = 0 /\ log_scroll = 0 /\ read = 0

-----------------------------------------------------------------------------
(* The user, through SDL.  "other" is any event that nobody handles.       *)
event(type, x, y) == [type |-> type, x |-> x, y |-> y]

isJobButton(ev) ==
  onSubmit(ev) \/ \E i \in 0 .. N_PRESETS - 1 : onPreset(ev, i)

cause(ev) ==
  /\ todo > 0
  /\ todo' = todo - 1
  /\ sdl_queue' = Append(sdl_queue, ev)
  /\ clicks' = IF isJobButton(ev) THEN clicks + 1 ELSE clicks
  /\ UNCHANGED <<formVars, step, frameVars, scrollVars>>

Mouse ==
  \E p \in Points, type \in {"press", "drag"} :
     /\ p[2] < height
     /\ cause(event(type, p[1], p[2]))
     /\ UNCHANGED height

Keyboard ==
  \E type \in {"text", "backspace", "tab", "escape", "quit", "other"} :
     cause(event(type, 0, 0)) /\ UNCHANGED height

Wheel == \E dy \in {-1, 1} : cause(event("wheel", 0, dy)) /\ UNCHANGED height

Enlarge == height' = TALL /\ height < TALL /\ cause(event("other", 0, 0))

User == Mouse \/ Keyboard \/ Wheel \/ Enlarge

(* A line of another thread: pushLog.                                      *)
PushLog ==
  /\ log_scroll' = 0
  /\ UNCHANGED <<formVars, userVars, step, frameVars>>
  /\ UNCHANGED <<job_scroll, gantt_scroll, read>>

-----------------------------------------------------------------------------
at(from, to) == step = from /\ step' = to

(* Mutant: the event of the frame before is left in place.                 *)
KeepEvent ==
  /\ at("frame", "poll") /\ ~ quit
  /\ UNCHANGED <<formVars, userVars, frameVars, scrollVars>>

BeginFrame ==
  /\ at("frame", "poll") /\ ~ quit
  /\ has_ev' = FALSE /\ ev_copy' = NoEvent
  /\ UNCHANGED <<quit, formVars, userVars, scrollVars>>

keepLast(ev) == has_ev' = TRUE /\ ev_copy' = ev

(* Mutant: the loop ends only if it is the last event that says so.        *)
quitsByLast(ev) == ev.type \in {"quit", "escape"} /\ Len(sdl_queue) = 1

quits(ev) == ev.type \in {"quit", "escape"}

PollEvent ==
  LET ev == Head(sdl_queue)
  IN /\ at("poll", "poll")
     /\ sdl_queue # <<>>
     /\ ev.type # "wheel"
     /\ sdl_queue' = Tail(sdl_queue)
     /\ quit' = (quit \/ quits(ev))
     /\ typeKey(ev.type)
     /\ keepLast(ev)
     /\ UNCHANGED <<g_next_job_id, active_tab, height, todo, clicks, scrollVars>>

(* SDL_GetMouseState says where the mouse is by now, which may be anywhere.*)
PollWheel ==
  LET ev == Head(sdl_queue)
  IN /\ sdl_queue # <<>>
     /\ ev.type = "wheel"
     /\ sdl_queue' = Tail(sdl_queue)
     /\ \E overMain \in BOOLEAN :
           /\ job_scroll' = IF overMain /\ active_tab = 0
                            THEN atLeast(0, job_scroll - ev.y * 34) ELSE job_scroll
           /\ gantt_scroll' = IF overMain /\ active_tab = 1
                              THEN atLeast(0, gantt_scroll + ev.y * 5) ELSE gantt_scroll
     /\ at("poll", "scroll") \/ at("poll", "poll")    \* over the log or not
     /\ read' = IF step' = "scroll" THEN log_scroll ELSE read
     /\ keepLast(ev)
     /\ UNCHANGED <<formVars, height, todo, clicks, quit, log_scroll>>

(* Mutant: no limit below.                                                 *)
ScrollLogAnywhere ==
  /\ at("scroll", "poll")
  /\ log_scroll' = read + ev_copy.y * 3
  /\ read' = 0
  /\ UNCHANGED <<formVars, userVars, frameVars, job_scroll, gantt_scroll>>

(* The new position is stored without log_mutex: a reset since the read is *)
(* lost.                                                                   *)
ScrollLog ==
  /\ at("scroll", "poll")
  /\ log_scroll' = atLeast(0, read + ev_copy.y * 3)
  /\ read' = 0
  /\ UNCHANGED <<formVars, userVars, frameVars, job_scroll, gantt_scroll>>

EndPoll ==
  /\ at("poll", "form") /\ sdl_queue = <<>>
  /\ UNCHANGED <<formVars, userVars, frameVars, scrollVars>>

(* The event the panels are given.                                         *)
evp == IF has_ev THEN ev_copy ELSE NoEvent

(* submitJob logs a line, and so resets the position of the log.           *)
submitting(draw) ==
  /\ draw
  /\ log_scroll' = IF g_next_job_id' # g_next_job_id THEN 0 ELSE log_scroll
  /\ UNCHANGED <<userVars, frameVars, job_scroll, gantt_scroll, read>>

DrawForm ==
  /\ at("form", "presets")
  /\ submitting(IF formH > 80 THEN drawFormPanel(evp) ELSE UNCHANGED formVars)

DrawPresets == at("presets", "tabs") /\ submitting(drawPresets(evp))

DrawTabs ==
  /\ at("tabs", "panel")
  /\ drawTabBar(evp)
  /\ UNCHANGED <<userVars, frameVars, scrollVars>>

jobCount == g_next_job_id - 1

(* Mutant: the last page may begin too late.                               *)
lastJobRow == jobCount * 34

maxJobScroll == atLeast(0, jobCount * 34 - JOB_PAGE)

(* drawJobTable moves the position back if the table is too short for it;  *)
(* the other tabs leave theirs as it is.                                   *)
DrawPanel ==
  /\ at("panel", "frame")
  /\ job_scroll' = IF active_tab = 0 THEN atMost(job_scroll, maxJobScroll)
                                     ELSE job_scroll
  /\ UNCHANGED <<formVars, userVars, frameVars>>
  /\ UNCHANGED <<gantt_scroll, log_scroll, read>>

(* The loop ends: sched.stop() and the rest of main().                     *)
EndLoop ==
  /\ at("frame", "stopped") /\ quit
  /\ UNCHANGED <<formVars, userVars, frameVars, scrollVars>>

Gui ==
  \/ BeginFrame \/ PollEvent \/ PollWheel \/ ScrollLog \/ EndPoll
  \/ DrawForm \/ DrawPresets \/ DrawTabs \/ DrawPanel \/ EndLoop

Next == step # "stopped" /\ (Gui \/ User \/ PushLog)

Spec == Init /\ [][Next]_vars

FairSpec == Spec /\ WF_vars(Gui)

-----------------------------------------------------------------------------
(* Every value the form or the wheel can be brought to is within its range.*)
TypeOK ==
  /\ FormTypeOK
  /\ step \in {"frame", "poll", "scroll", "form", "presets", "tabs", "panel", "stopped"}
  /\ {job_scroll, gantt_scroll, log_scroll} \subseteq Nat
  /\ has_ev <=> ev_copy # NoEvent

(* A press submits at most once, however many frames go by and whatever    *)
(* else happens in its frame.                                              *)
OncePerClick == jobCount <= clicks

(* README.md:51: one-click presets.  So at a frame's beginning, with no    *)
(* event pending, every click has submitted its job.                       *)
OneClick == step = "frame" /\ sdl_queue = <<>> => jobCount = clicks

(* README.md:51: a submission form.  So its button lies in the window.     *)
FormShown == btnY + 34 <= height

(* main.cpp:1213: use the presets or fill the form to add jobs.  So a user *)
(* who has pressed a preset, and waited, has the job, or at least the form *)
(* to add it with.                                                         *)
JobsCanBeAdded == OneClick \/ FormShown

(* Where the log and the Gantt chart begin to draw, of count entries.      *)
logBegin(count) ==
  LET vis == 126 \div 14
      begin == atLeast(0, count - vis) - log_scroll
  IN atMost(atLeast(begin, 0), count)

ganttVisible(count) ==
  LET area == mainW - 34
      tick == atLeast(2, area \div atLeast(1, count))
  IN area \div tick

ganttBegin(count) == atLeast(0, count - ganttVisible(count) - gantt_scroll)

(* A view is never blank or half empty while there is more to show: not    *)
(* for a position set in another tab's time, for a longer table, or by a   *)
(* wheel that missed a reset.                                              *)
FullPages ==
  /\ \A count \in {0, 1, 9, 10, UI_LOG_MAX} :
        count - logBegin(count) >= atMost(count, 9)
  /\ \A count \in {1, 555, 556, MAX_GANTT} :
        atMost(count, ganttBegin(count) + ganttVisible(count)) - ganttBegin(count)
           = atMost(count, ganttVisible(count))
  /\ step = "frame" /\ active_tab = 0 =>
        jobCount * 34 - job_scroll >= atMost(jobCount * 34, JOB_PAGE)

(* Once the user has asked to quit, the loop ends, however the event falls *)
(* among others.                                                           *)
QuitEnds ==
  (\E i \in DOMAIN sdl_queue : sdl_queue[i].type \in {"quit", "escape"})
     ~> step = "stopped"

=============================================================================
