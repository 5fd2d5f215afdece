-------------------------- MODULE EventLoopProofs --------------------------
(***************************************************************************)
(* Theorems about module EventLoop, for any width of the window, any       *)
(* height unless stated, any length of the names and any number of events. *)
(***************************************************************************)
EXTENDS EventLoop, SequenceTheorems, FiniteSetTheorems, TLAPS

EventType ==
  [type : {"none", "press", "drag", "text", "backspace", "tab", "escape",
           "quit", "other", "wheel"},
   x : Int, y : Int]

-----------------------------------------------------------------------------
(* The form.                                                               *)

LEMMA SliderRanges ==
  /\ \A s \in Sliders : minv[s] \in Nat /\ maxv[s] \in Nat /\ minv[s] <= maxv[s]
  /\ minv[2] = 5 /\ minv[3] = 64 /\ minv[4] = 2
  /\ maxv[2] = 80 /\ maxv[3] = 1024 /\ maxv[4] = 40
<1>1. Sliders = {2, 3, 4}
  BY DEF Sliders
<1>2. /\ minv[2] = 5 /\ minv[3] = 64 /\ minv[4] = 2
      /\ maxv[2] = 80 /\ maxv[3] = 1024 /\ maxv[4] = 40
  BY <1>1 DEF minv, maxv
<1> QED
  BY <1>1, <1>2

(* A slider's value stays in its range, wherever the mouse is dragged to.  *)
LEMMA ValueInRange ==
  ASSUME NEW s \in Sliders, NEW x \in Int
  PROVE  valueAt(s, x) \in minv[s] .. maxv[s]
<1>1. /\ minv[s] \in Nat /\ maxv[s] \in Nat /\ minv[s] <= maxv[s]
  BY SliderRanges
<1>2. left \in Int /\ 2 * width \in Nat \ {0} /\ width \in Int
  BY DEF left, width, PAD, SB_W
<1>3. 2 * (x - left) * (maxv[s] - minv[s]) + width \in Int
  BY <1>1, <1>2
<1>4. (2 * (x - left) * (maxv[s] - minv[s]) + width) \div (2 * width) \in Int
  BY <1>2, <1>3
<1>5. \A v \in Int : atLeast(minv[s], atMost(maxv[s], v)) \in minv[s] .. maxv[s]
  BY <1>1 DEF atLeast, atMost
<1>6. minv[s] + (2 * (x - left) * (maxv[s] - minv[s]) + width) \div (2 * width) \in Int
  BY <1>1, <1>4
<1> QED
  BY <1>5, <1>6 DEF valueAt

FormData ==
  /\ FormTypeOK
  /\ form \in [name_len : 0 .. MAX_NAME, prio_idx : 0 .. 3,
               focused : {-1, 0} \cup Sliders, val : [Sliders -> Int]]

LEMMA FormInitType == FormInit => FormData
<1> SUFFICES ASSUME FormInit PROVE FormData
  OBVIOUS
<1>1. Sliders = {2, 3, 4}
  BY DEF Sliders
<1>2. /\ form.val[2] = 20 /\ form.val[3] = 256 /\ form.val[4] = 10
      /\ form.val \in [Sliders -> Int]
  BY <1>1 DEF FormInit
<1>3. \A s \in Sliders : form.val[s] \in minv[s] .. maxv[s]
  BY <1>1, <1>2, SliderRanges
<1>4. /\ form.name_len = 3 /\ form.prio_idx = 2 /\ form.focused = -1
      /\ g_next_job_id = 1 /\ active_tab = 0
      /\ form = [name_len |-> form.name_len, prio_idx |-> form.prio_idx,
                 focused |-> form.focused, val |-> form.val]
  BY DEF FormInit
<1> QED
  BY <1>2, <1>3, <1>4, FormAssumption DEF FormData, FormTypeOK

(* drawFormPanel keeps every control in its range.                         *)
LEMMA DrawFormType ==
  ASSUME FormData, NEW ev \in EventType, drawFormPanel(ev)
  PROVE  FormData'
<1>1. focusAfter(ev) \in {-1, 0} \cup Sliders
  BY DEF focusAfter, FormData, FormTypeOK
<1> DEFINE prio == IF \E i \in 0 .. 3 : onPrio(ev, i)
                   THEN CHOOSE i \in 0 .. 3 : onPrio(ev, i) ELSE form.prio_idx
           val == [s \in Sliders |-> IF onSlider(ev, s) \/ drags(ev, s)
                                     THEN valueAt(s, ev.x) ELSE form.val[s]]
<1>2. prio \in 0 .. 3
  BY DEF FormData, FormTypeOK
<1>3. \A s \in Sliders : val[s] \in minv[s] .. maxv[s]
  <2>1. ev.x \in Int
    BY DEF EventType
  <2> QED
    BY <2>1, ValueInRange DEF FormData, FormTypeOK
<1>4. val \in [Sliders -> Int]
  BY <1>3, SliderRanges
<1>5. form' = [form EXCEPT !.focused = focusAfter(ev), !.prio_idx = prio, !.val = val]
  BY DEF drawFormPanel
<1>6. g_next_job_id' \in Nat \ {0} /\ active_tab' \in 0 .. 2
  BY DEF drawFormPanel, createJobs, FormData, FormTypeOK
<1> HIDE DEF prio, val
<1>7. /\ form'.focused = focusAfter(ev) /\ form'.prio_idx = prio
      /\ form'.val = val /\ form'.name_len = form.name_len
      /\ form' \in [name_len : 0 .. MAX_NAME, prio_idx : 0 .. 3,
                    focused : {-1, 0} \cup Sliders, val : [Sliders -> Int]]
  BY <1>1, <1>2, <1>4, <1>5 DEF FormData
<1> QED
  BY <1>1, <1>2, <1>3, <1>6, <1>7 DEF FormData, FormTypeOK

LEMMA TypeKeyType ==
  ASSUME FormData, NEW key, typeKey(key), UNCHANGED <<g_next_job_id, active_tab>>
  PROVE  FormData'
<1>1. CASE form' = form
  BY <1>1 DEF FormData, FormTypeOK
<1>2. CASE form' = [form EXCEPT !.name_len = IF @ < MAX_NAME THEN @ + 1 ELSE @]
  BY <1>2, FormAssumption DEF FormData, FormTypeOK
<1>3. CASE form' = [form EXCEPT !.name_len = atLeast(0, @ - 1)]
  BY <1>3, FormAssumption DEF FormData, FormTypeOK, atLeast
<1>4. CASE form' = [form EXCEPT !.focused = -1]
  BY <1>4 DEF FormData, FormTypeOK
<1> QED
  BY <1>1, <1>2, <1>3, <1>4 DEF typeKey

LEMMA PresetsType ==
  ASSUME FormData, NEW ev, drawPresets(ev)
  PROVE  FormData'
<1>1. /\ IsFiniteSet({i \in 0 .. N_PRESETS - 1 : onPreset(ev, i)})
  <2>1. IsFiniteSet(0 .. N_PRESETS - 1)
    <3>1. 0 \in Int /\ N_PRESETS - 1 \in Int
      BY DEF N_PRESETS
    <3> QED
      BY <3>1, FS_Interval, Zenon
  <2>2. {i \in 0 .. N_PRESETS - 1 : onPreset(ev, i)} \in SUBSET (0 .. N_PRESETS - 1)
    OBVIOUS
  <2> QED
    BY <2>1, <2>2, FS_Subset
<1>2. Cardinality({i \in 0 .. N_PRESETS - 1 : onPreset(ev, i)}) \in Nat
  BY <1>1, FS_CardinalityType
<1> QED
  BY <1>2 DEF drawPresets, createJobs, FormData, FormTypeOK

LEMMA TabsType ==
  ASSUME FormData, NEW ev, drawTabBar(ev)
  PROVE  FormData'
BY DEF drawTabBar, FormData, FormTypeOK

-----------------------------------------------------------------------------
(* Type correctness.                                                       *)

LEMMA EventTypes ==
  /\ NoEvent \in EventType
  /\ \A t \in {"press", "drag", "text", "backspace", "tab", "escape", "quit",
               "other", "wheel"} :
        \A x, y \in Int : event(t, x, y) \in EventType \ {NoEvent}
BY DEF NoEvent, event, EventType

(* TypeOK, and the types it does not state: an event in the queue is one   *)
(* that was caused.                                                        *)
LoopData ==
  /\ step \in {"frame", "poll", "scroll", "form", "presets", "tabs", "panel",
              "stopped"}
  /\ job_scroll \in Nat /\ gantt_scroll \in Nat /\ log_scroll \in Nat
  /\ has_ev <=> ev_copy # NoEvent
  /\ height \in Nat /\ todo \in Nat /\ clicks \in Nat
  /\ sdl_queue \in Seq(EventType)
  /\ ev_copy \in EventType
  /\ \A i \in DOMAIN sdl_queue : sdl_queue[i].type # "none"
  /\ has_ev \in BOOLEAN /\ quit \in BOOLEAN
  /\ read \in Nat

Types == FormData /\ LoopData

LEMMA TypeInit == Init => Types
<1> SUFFICES ASSUME Init PROVE Types
  OBVIOUS
<1>1. FormData
  BY FormInitType DEF Init
<1>2. sdl_queue = <<>> /\ ev_copy = NoEvent /\ has_ev = FALSE /\ quit = FALSE
  BY DEF Init
<1>3. sdl_queue \in Seq(EventType) /\ DOMAIN sdl_queue = {}
  BY <1>2
<1> QED
  BY <1>1, <1>2, <1>3, EventTypes, FormAssumption, LoopAssumption DEF Types, LoopData, Init

(* The user's steps: one more event in SDL's queue.                        *)
LEMMA CauseType ==
  ASSUME Types, NEW ev \in EventType, ev.type # "none", cause(ev), height' \in Nat
  PROVE  Types'
<1>1. /\ FormData' /\ step' = step /\ UNCHANGED frameVars /\ UNCHANGED scrollVars
      /\ todo' \in Nat /\ clicks' \in Nat
  BY DEF Types, LoopData, cause, FormData, FormTypeOK, formVars
<1>2. sdl_queue' = Append(sdl_queue, ev) /\ sdl_queue \in Seq(EventType)
  BY DEF Types, LoopData, cause
<1>3. PICK n \in Nat : n = Len(sdl_queue) /\ DOMAIN sdl_queue = 1 .. n
  BY <1>2, LenProperties
<1>4. /\ sdl_queue' \in Seq(EventType) /\ DOMAIN sdl_queue' = 1 .. n + 1
      /\ sdl_queue'[n + 1] = ev
      /\ \A i \in 1 .. n : sdl_queue'[i] = sdl_queue[i]
  <2>1. /\ sdl_queue' \in Seq(EventType) /\ Len(sdl_queue') = Len(sdl_queue) + 1
        /\ \A i \in 1 .. Len(sdl_queue) : sdl_queue'[i] = sdl_queue[i]
        /\ sdl_queue'[Len(sdl_queue) + 1] = ev
    BY <1>2, AppendProperties
  <2>2. DOMAIN sdl_queue' = 1 .. Len(sdl_queue')
    BY <2>1, LenProperties
  <2> QED
    BY <1>3, <2>1, <2>2
<1>5. \A i \in DOMAIN sdl_queue' : sdl_queue'[i].type # "none"
  <2>1. \A i \in 1 .. n + 1 : i \in 1 .. n \/ i = n + 1
    OBVIOUS
  <2> QED
    BY <1>3, <1>4, <2>1 DEF Types, LoopData
<1> QED
  BY <1>1, <1>4, <1>5 DEF Types, LoopData, frameVars, scrollVars

(* Every event of the user is one of these.                                *)
LEMMA UserCauses ==
  ASSUME Types, User
  PROVE  \E ev \in EventType :
           /\ ev.type # "none" /\ cause(ev)
           /\ \/ height' = height /\ (ev.type \in {"press", "drag"} => ev.y < height)
              \/ height' = TALL /\ height < TALL /\ ev.type = "other"
<1>1. CASE Mouse
  <2>1. PICK p \in Points, type \in {"press", "drag"} :
             /\ p[2] < height /\ cause(event(type, p[1], p[2])) /\ UNCHANGED height
    BY <1>1 DEF Mouse
  <2>2. p[1] \in Int /\ p[2] \in Int
    BY LoopAssumption
  <2>3. event(type, p[1], p[2]) \in EventType
    BY <2>2, EventTypes
  <2> QED
    BY <2>1, <2>3 DEF event
<1>2. CASE Keyboard
  <2>1. PICK type \in {"text", "backspace", "tab", "escape", "quit", "other"} :
             cause(event(type, 0, 0)) /\ UNCHANGED height
    BY <1>2 DEF Keyboard
  <2>2. event(type, 0, 0) \in EventType
    BY EventTypes
  <2> QED
    BY <2>1, <2>2 DEF event
<1>3. CASE Wheel
  <2>1. PICK dy \in {-1, 1} : cause(event("wheel", 0, dy)) /\ UNCHANGED height
    BY <1>3 DEF Wheel
  <2>2. event("wheel", 0, dy) \in EventType
    BY EventTypes
  <2> QED
    BY <2>1, <2>2 DEF event
<1>4. CASE Enlarge
  <2>1. event("other", 0, 0) \in EventType
    BY EventTypes
  <2> QED
    BY <1>4, <2>1 DEF Enlarge, event
<1> QED
  BY <1>1, <1>2, <1>3, <1>4 DEF User

(* What a poll takes from the queue.                                       *)
LEMMA TakeEvent ==
  ASSUME Types, sdl_queue # <<>>
  PROVE  /\ Head(sdl_queue) \in EventType
         /\ Head(sdl_queue).type # "none"
         /\ Head(sdl_queue) # NoEvent
         /\ Tail(sdl_queue) \in Seq(EventType)
         /\ \E n \in Nat :
               /\ DOMAIN sdl_queue = 1 .. n + 1
               /\ DOMAIN Tail(sdl_queue) = 1 .. n
               /\ Head(sdl_queue) = sdl_queue[1]
               /\ \A i \in 1 .. n : Tail(sdl_queue)[i] = sdl_queue[i + 1]
<1> DEFINE q == sdl_queue
           t == Tail(sdl_queue)
           h == Head(sdl_queue)
<1>1. q \in Seq(EventType)
  BY DEF Types, LoopData
<1>2. /\ h \in EventType /\ t \in Seq(EventType) /\ Len(t) = Len(q) - 1
      /\ \A i \in 1 .. Len(t) : t[i] = q[i + 1]
  BY <1>1, HeadTailProperties
<1>3. PICK n \in Nat : n = Len(t) /\ DOMAIN t = 1 .. n
  BY <1>2, LenProperties
<1>4. DOMAIN q = 1 .. n + 1
  <2>1. PICK m \in Nat : m = Len(q) /\ DOMAIN q = 1 .. m
    BY <1>1, LenProperties
  <2>2. m = n + 1
    BY <1>2, <1>3, <2>1
  <2> QED
    BY <2>1, <2>2
<1>5. h = q[1]
  BY <1>1
<1>6. 1 \in DOMAIN q
  BY <1>4
<1>7. h.type # "none"
  BY <1>5, <1>6 DEF Types, LoopData
<1>8. h # NoEvent
  BY <1>7 DEF NoEvent
<1>9. /\ DOMAIN q = 1 .. n + 1 /\ DOMAIN t = 1 .. n /\ h = q[1]
      /\ \A i \in 1 .. n : t[i] = q[i + 1]
  BY <1>2, <1>3, <1>4, <1>5
<1> QED
  BY <1>2, <1>7, <1>8, <1>9

LEMMA evpType == Types => evp \in EventType
BY EventTypes DEF Types, LoopData, evp

LEMMA TypeGui == ASSUME Types, Gui PROVE Types'
<1> USE DEF Types, LoopData, at, frameVars, scrollVars
<1>0. /\ UNCHANGED formVars => FormData'
      /\ UNCHANGED userVars =>
           /\ height' \in Nat /\ todo' \in Nat /\ clicks' \in Nat
           /\ sdl_queue' \in Seq(EventType)
           /\ \A i \in DOMAIN sdl_queue' : sdl_queue'[i].type # "none"
  BY DEF FormData, FormTypeOK, formVars, userVars
<1>1. CASE BeginFrame
  BY <1>0, <1>1, EventTypes DEF BeginFrame
<1>2. CASE sdl_queue # <<>> /\ (PollEvent \/ PollWheel)
  <2>1. /\ Head(sdl_queue) \in EventType /\ Head(sdl_queue) # NoEvent
        /\ Tail(sdl_queue) \in Seq(EventType)
        /\ \A i \in DOMAIN Tail(sdl_queue) : Tail(sdl_queue)[i].type # "none"
    <3>1. PICK n \in Nat :
               /\ DOMAIN sdl_queue = 1 .. n + 1
               /\ DOMAIN Tail(sdl_queue) = 1 .. n
               /\ \A i \in 1 .. n : Tail(sdl_queue)[i] = sdl_queue[i + 1]
      BY <1>2, TakeEvent
    <3>2. \A i \in 1 .. n : i + 1 \in 1 .. n + 1
      OBVIOUS
    <3> QED
      BY <1>2, <3>1, <3>2, TakeEvent
  <2>2. CASE PollEvent
    <3>1. FormData'
      BY <2>2, TypeKeyType DEF PollEvent
    <3>2. quit' \in BOOLEAN
      BY <2>2 DEF PollEvent, quits
    <3> QED
      BY <2>1, <2>2, <3>1, <3>2 DEF PollEvent, keepLast
  <2>3. CASE PollWheel
    <3>1. job_scroll' \in Nat /\ gantt_scroll' \in Nat
      <4>1. Head(sdl_queue).y \in Int
        BY <2>1 DEF EventType
      <4> QED
        BY <2>3, <4>1 DEF PollWheel, atLeast
    <3>2. step' \in {"poll", "scroll"} /\ read' \in Nat
      BY <2>3 DEF PollWheel
    <3> QED
      BY <1>0, <2>1, <2>3, <3>1, <3>2 DEF PollWheel, keepLast
  <2> QED
    BY <1>2, <2>2, <2>3
<1>3. CASE ScrollLog
  <2>1. ev_copy.y \in Int
    BY DEF EventType
  <2>2. log_scroll' \in Nat
    BY <1>3, <2>1 DEF ScrollLog, atLeast
  <2> QED
    BY <1>0, <1>3, <2>2 DEF ScrollLog
<1>4. CASE EndPoll
  BY <1>0, <1>4 DEF EndPoll
<1>5. CASE DrawForm
  <2>1. FormData'
    BY <1>0, <1>5, DrawFormType, evpType DEF DrawForm, submitting
  <2> QED
    BY <1>0, <1>5, <2>1 DEF DrawForm, submitting
<1>6. CASE DrawPresets
  <2>1. FormData'
    BY <1>6, PresetsType DEF DrawPresets, submitting
  <2> QED
    BY <1>0, <1>6, <2>1 DEF DrawPresets, submitting
<1>7. CASE DrawTabs
  BY <1>0, <1>7, TabsType DEF DrawTabs
<1>8. CASE DrawPanel
  <2>1. jobCount \in Nat
    BY DEF jobCount, FormData, FormTypeOK
  <2>2. job_scroll' \in Nat
    BY <1>8, <2>1, LoopAssumption DEF DrawPanel, atMost, maxJobScroll, atLeast
  <2> QED
    BY <1>0, <1>8, <2>2 DEF DrawPanel
<1>9. CASE EndLoop
  BY <1>0, <1>9 DEF EndLoop
<1> QED
  BY <1>1, <1>2, <1>3, <1>4, <1>5, <1>6, <1>7, <1>8, <1>9
     DEF Gui, PollEvent, PollWheel

LEMMA TypeNext == Types /\ [Next]_vars => Types'
<1> SUFFICES ASSUME Types, [Next]_vars PROVE Types'
  OBVIOUS
<1>1. CASE Gui
  BY <1>1, TypeGui
<1>2. CASE User
  <2>1. PICK ev \in EventType : ev.type # "none" /\ cause(ev) /\ height' \in Nat
    BY <1>2, UserCauses, LoopAssumption DEF Types, LoopData
  <2> QED
    BY <2>1, CauseType
<1>3. CASE PushLog \/ UNCHANGED vars
  <2>1. UNCHANGED <<formVars, userVars, frameVars, step, job_scroll, gantt_scroll,
                    read>>
    BY <1>3 DEF PushLog, vars, scrollVars
  <2>2. log_scroll' = 0 \/ log_scroll' = log_scroll
    BY <1>3 DEF PushLog, vars, scrollVars
  <2>3. log_scroll' \in Nat
    BY <2>2 DEF Types, LoopData
  <2>4. FormData'
    BY <2>1 DEF Types, FormData, FormTypeOK, formVars
  <2> QED
    BY <2>1, <2>3, <2>4 DEF Types, LoopData, userVars, frameVars
<1> QED
  BY <1>1, <1>2, <1>3 DEF Next

(* Every value the form, the wheel or the tabs can be brought to is in its *)
(* range, for any window and wherever the mouse is.                        *)
THEOREM TypeCorrect == Spec => []TypeOK
<1>1. Spec => []Types
  BY TypeInit, TypeNext, PTL DEF Spec
<1>2. Types => TypeOK
  BY DEF Types, LoopData, FormData, TypeOK
<1> QED
  BY <1>1, <1>2, PTL

-----------------------------------------------------------------------------
(* Pages.                                                                  *)

JobPage ==
  step = "frame" /\ active_tab = 0 =>
     jobCount * 34 - job_scroll >= atMost(jobCount * 34, JOB_PAGE)

LEMMA JobPageNext == Types /\ JobPage /\ [Next]_vars => JobPage'
<1> SUFFICES ASSUME Types, JobPage, [Next]_vars, step' = "frame"
             PROVE  JobPage'
  BY DEF JobPage
<1>1. CASE DrawPanel
  <2>1. /\ g_next_job_id' = g_next_job_id /\ active_tab' = active_tab
        /\ active_tab = 0 => job_scroll' = atMost(job_scroll, maxJobScroll)
    BY <1>1 DEF DrawPanel, formVars
  <2>2. jobCount \in Nat /\ job_scroll \in Nat /\ JOB_PAGE \in Nat
    BY LoopAssumption DEF jobCount, Types, LoopData, FormData, FormTypeOK
  <2>3. jobCount' = jobCount
    BY <2>1 DEF jobCount
  <2>4. jobCount * 34 - atMost(job_scroll, maxJobScroll)
          >= atMost(jobCount * 34, JOB_PAGE)
    <3>1. PICK c \in Nat : c = jobCount
      BY <2>2
    <3>2. c * 34 - atMost(job_scroll, atLeast(0, c * 34 - JOB_PAGE))
            >= atMost(c * 34, JOB_PAGE)
      BY <2>2 DEF atMost, atLeast
    <3> QED
      BY <3>1, <3>2 DEF maxJobScroll
  <2> QED
    BY <2>1, <2>3, <2>4 DEF JobPage
<1>2. CASE UNCHANGED <<step, g_next_job_id, active_tab, job_scroll>>
  BY <1>2 DEF JobPage, jobCount
<1> QED
  BY <1>1, <1>2
     DEF Next, Gui, BeginFrame, PollEvent, PollWheel, ScrollLog, EndPoll,
         DrawForm, DrawPresets, DrawTabs, EndLoop, at, submitting, User, Mouse,
         Keyboard, Wheel, Enlarge, cause, PushLog, vars, formVars, scrollVars

(* The log: its position only ever moves the page up within the entries.   *)
LEMMA LogPage ==
  ASSUME log_scroll \in Nat, NEW count \in Nat
  PROVE  count - logBegin(count) >= atMost(count, 9)
<1>1. 126 \div 14 = 9
  OBVIOUS
<1>2. logBegin(count) =
        atMost(atLeast(atLeast(0, count - 9) - log_scroll, 0), count)
  BY <1>1 DEF logBegin
<1> QED
  BY <1>2 DEF atMost, atLeast

(* The Gantt chart: as many ticks as fit, or all there are.                *)
LEMMA GanttPage ==
  ASSUME gantt_scroll \in Nat, NEW count \in Nat
  PROVE  atMost(count, ganttBegin(count) + ganttVisible(count)) - ganttBegin(count)
           = atMost(count, ganttVisible(count))
<1>1. ganttVisible(count) \in Int
  <2>1. mainW - 34 \in Int
    BY FormAssumption DEF mainW, mainX, SB_W, PAD
  <2>2. atLeast(1, count) \in Nat \ {0}
    BY DEF atLeast
  <2>3. (mainW - 34) \div atLeast(1, count) \in Int
    BY <2>1, <2>2
  <2>4. atLeast(2, (mainW - 34) \div atLeast(1, count)) \in Nat \ {0}
    BY <2>3 DEF atLeast
  <2> QED
    BY <2>1, <2>4 DEF ganttVisible
<1>2. \A v \in Int :
         LET b == atLeast(0, count - v - gantt_scroll)
         IN atMost(count, b + v) - b = atMost(count, v)
  BY DEF atMost, atLeast
<1> QED
  BY <1>1, <1>2 DEF ganttBegin

(* No view is blank or half empty while there is more to show, for any     *)
(* sizes of the window, of the table and of the rings.                     *)
THEOREM PagesAreFull == Spec => []FullPages
<1>1. Init => JobPage
  BY LoopAssumption DEF Init, FormInit, JobPage, jobCount, atMost
<1>2. Spec => [](Types /\ JobPage)
  BY <1>1, TypeInit, TypeNext, JobPageNext, PTL DEF Spec
<1>3. Types /\ JobPage => FullPages
  <2> SUFFICES ASSUME Types, JobPage PROVE FullPages
    OBVIOUS
  <2>1. log_scroll \in Nat /\ gantt_scroll \in Nat
        /\ UI_LOG_MAX \in Nat /\ MAX_GANTT \in Nat
    BY LoopAssumption DEF Types, LoopData
  <2>2. \A count \in {0, 1, 9, 10, UI_LOG_MAX} :
           count - logBegin(count) >= atMost(count, 9)
    BY <2>1, LogPage
  <2>3. \A count \in {1, 555, 556, MAX_GANTT} :
           atMost(count, ganttBegin(count) + ganttVisible(count)) - ganttBegin(count)
             = atMost(count, ganttVisible(count))
    BY <2>1, GanttPage
  <2> QED
    BY <2>2, <2>3 DEF FullPages, JobPage
<1> QED
  BY <1>2, <1>3, PTL

-----------------------------------------------------------------------------
(* What the window's height cuts off.                                      *)

LEMMA Layout ==
  /\ \A s \in Sliders : sliderY(s) + 8 >= 906 /\ sliderY(s) \in Int
  /\ btnY >= 906 /\ btnY \in Int
  /\ \A s \in Sliders : s \in Int
<1>1. formEnd = 994 /\ formY = 788
  BY DEF formEnd, sliderY, prioY, nameY, formY, HDR_H, PAD
<1>2. btnY >= 1000 /\ btnY \in Int
  <2>1. formY + formH - 46 \in Int
    BY <1>1, FormAssumption DEF formH, PAD
  <2> QED
    BY <1>1, <2>1 DEF btnY, atLeast
<1>3. \A s \in Int : sliderY(s) = 898 + 32 * (s - 2)
  BY <1>1 DEF sliderY, prioY, nameY
<1>4. \A s \in Sliders : s \in Int /\ s >= 2
  BY DEF Sliders
<1> QED
  BY <1>2, <1>3, <1>4

Above(ev) == ev.type \in {"press", "drag"} => ev.y < WIN_H

(* As long as the window is as main() made it, every event of the mouse    *)
(* falls above its lower edge, and no slider has the focus.                *)
CutOff ==
  /\ height >= WIN_H
  /\ height = WIN_H =>
       /\ form.focused \notin Sliders
       /\ \A i \in DOMAIN sdl_queue : Above(sdl_queue[i])
       /\ Above(ev_copy)

LEMMA CutOffInit == Init => CutOff
<1> SUFFICES ASSUME Init PROVE CutOff
  OBVIOUS
<1>1. DOMAIN sdl_queue = {} /\ Above(ev_copy)
  BY DEF Init, NoEvent, Above
<1>2. form.focused = -1
  BY DEF Init, FormInit
<1> QED
  BY <1>1, <1>2, FormAssumption DEF Init, CutOff, Sliders

(* Above that edge there is nothing of a slider, nor of the button.        *)
LEMMA NothingAbove ==
  ASSUME WIN_H <= 906, NEW ev \in EventType, Above(ev)
  PROVE  ~ onSubmit(ev) /\ \A s \in Sliders : ~ onSlider(ev, s)
<1>1. ev.type = "press" => ev.y \in Int /\ ev.y < 906
  BY FormAssumption DEF Above, EventType
<1> QED
  BY <1>1, Layout DEF onSubmit, onSlider, pressIn

LEMMA CutOffNext ==
  ASSUME WIN_H <= 906, Types, CutOff, [Next]_vars
  PROVE  CutOff'
<1>0. height \in Nat /\ WIN_H \in Nat /\ TALL \in Nat
  BY FormAssumption, LoopAssumption DEF Types, LoopData
<1>1. CASE User
  <2>1. PICK ev \in EventType :
           /\ cause(ev)
           /\ \/ height' = height /\ (ev.type \in {"press", "drag"} => ev.y < height)
              \/ height' = TALL /\ height < TALL /\ ev.type = "other"
    BY <1>1, UserCauses
  <2>2. CASE height' = WIN_H
    <3>1. height = WIN_H /\ Above(ev)
      BY <1>0, <2>1, <2>2 DEF CutOff, Above
    <3>2. \A i \in DOMAIN sdl_queue' : Above(sdl_queue'[i])
      <4>1. sdl_queue' = Append(sdl_queue, ev) /\ sdl_queue \in Seq(EventType)
        BY <2>1 DEF cause, Types, LoopData
      <4>2. PICK n \in Nat : n = Len(sdl_queue) /\ DOMAIN sdl_queue = 1 .. n
        BY <4>1, LenProperties
      <4>3. /\ sdl_queue' \in Seq(EventType) /\ Len(sdl_queue') = n + 1
            /\ \A i \in 1 .. n : sdl_queue'[i] = sdl_queue[i]
            /\ sdl_queue'[n + 1] = ev
        BY <4>1, <4>2, AppendProperties
      <4>4. DOMAIN sdl_queue' = 1 .. n + 1
        BY <4>3, LenProperties
      <4>5. \A i \in 1 .. n + 1 : i \in 1 .. n \/ i = n + 1
        OBVIOUS
      <4> QED
        BY <3>1, <4>2, <4>3, <4>4, <4>5 DEF CutOff
    <3> QED
      BY <2>1, <2>2, <3>1, <3>2 DEF CutOff, cause, formVars, frameVars
  <2>3. CASE height' # WIN_H
    BY <1>0, <2>1, <2>3 DEF CutOff
  <2> QED
    BY <2>2, <2>3
<1>2. CASE Gui
  <2> SUFFICES ASSUME height = WIN_H, UNCHANGED height PROVE CutOff'
    <3>1. UNCHANGED height
      BY <1>2
         DEF Gui, BeginFrame, PollEvent, PollWheel, ScrollLog, EndPoll,
             DrawForm, DrawPresets, DrawTabs, DrawPanel, EndLoop, submitting,
             userVars
    <3> QED
      BY <3>1 DEF CutOff
  <2>1. /\ form.focused \notin Sliders
        /\ \A i \in DOMAIN sdl_queue : Above(sdl_queue[i])
        /\ Above(ev_copy)
    BY DEF CutOff
  <2>2. Above(NoEvent)
    BY DEF Above, NoEvent
  <2>3. CASE BeginFrame
    BY <2>1, <2>2, <2>3 DEF BeginFrame, CutOff, formVars, userVars
  <2>4. CASE PollEvent \/ PollWheel
    <3>1. sdl_queue # <<>> /\ sdl_queue' = Tail(sdl_queue)
          /\ ev_copy' = Head(sdl_queue)
      BY <2>4 DEF PollEvent, PollWheel, keepLast
    <3>2. PICK n \in Nat :
               /\ DOMAIN sdl_queue = 1 .. n + 1
               /\ DOMAIN Tail(sdl_queue) = 1 .. n
               /\ Head(sdl_queue) = sdl_queue[1]
               /\ \A i \in 1 .. n : Tail(sdl_queue)[i] = sdl_queue[i + 1]
      BY <3>1, TakeEvent
    <3>3. \A i \in 1 .. n : i + 1 \in 1 .. n + 1
      OBVIOUS
    <3>4. /\ \A i \in DOMAIN sdl_queue' : Above(sdl_queue'[i])
          /\ Above(ev_copy')
      BY <2>1, <3>1, <3>2, <3>3
    <3>5. form'.focused \notin Sliders
      <4>1. -1 \notin Sliders
        BY DEF Sliders
      <4>2. form \in [name_len : 0 .. MAX_NAME, prio_idx : 0 .. 3,
                      focused : {-1, 0} \cup Sliders, val : [Sliders -> Int]]
        BY DEF Types, FormData
      <4>3. CASE form' = form
        BY <2>1, <4>3
      <4>4. CASE \E k : typeKey(k)
        BY <2>1, <4>1, <4>2, <4>4 DEF typeKey
      <4> QED
        BY <2>4, <4>3, <4>4 DEF PollEvent, PollWheel, formVars
    <3> QED
      BY <3>4, <3>5 DEF CutOff, Above
  <2>5. CASE DrawForm
    <3>1. Above(evp) /\ evp \in EventType
      BY <2>1, <2>2, evpType DEF evp
    <3>2. focusAfter(evp) \notin Sliders
      BY <2>1, <3>1, NothingAbove DEF focusAfter, Sliders
    <3>3. form'.focused \notin Sliders
      BY <2>1, <2>5, <3>2
         DEF DrawForm, submitting, drawFormPanel, formVars, Types, FormData
    <3> QED
      BY <2>1, <2>5, <3>3
         DEF DrawForm, submitting, CutOff, userVars, frameVars, Above
  <2>6. CASE ScrollLog \/ EndPoll \/ DrawPresets \/ DrawTabs \/ DrawPanel \/ EndLoop
    <3>1. UNCHANGED <<form, sdl_queue, ev_copy>>
      BY <2>6
         DEF ScrollLog, EndPoll, DrawPresets, DrawTabs, DrawPanel, EndLoop,
             submitting, drawPresets, drawTabBar, formVars, userVars, frameVars
    <3> QED
      BY <2>1, <3>1 DEF CutOff
  <2> QED
    BY <1>2, <2>3, <2>4, <2>5, <2>6 DEF Gui
<1>3. CASE PushLog \/ UNCHANGED vars
  BY <1>3 DEF PushLog, vars, formVars, userVars, frameVars, CutOff
<1> QED
  BY <1>1, <1>2, <1>3 DEF Next

(* No slider moves and nothing is submitted by the form.                   *)
FormCutOff ==
  [][step = "form" /\ height = WIN_H =>
        g_next_job_id' = g_next_job_id /\ form'.val = form.val]_vars

(* The defect that JobsCanBeAdded shows, in full: in the window as main()  *)
(* makes it, up to a height of 906 pixels, the form that README.md:51 and  *)
(* main.cpp:1213 promise can neither move a slider nor submit.             *)
THEOREM FormIsCutOff ==
  ASSUME WIN_H <= 906
  PROVE  Spec => FormCutOff
<1>1. Types /\ CutOff /\ [Next]_vars => CutOff'
  BY CutOffNext
<1>2. Types /\ CutOff /\ [Next]_vars =>
        [step = "form" /\ height = WIN_H =>
           g_next_job_id' = g_next_job_id /\ form'.val = form.val]_vars
  <2> SUFFICES ASSUME Types, CutOff, Next, step = "form", height = WIN_H
               PROVE  g_next_job_id' = g_next_job_id /\ form'.val = form.val
    OBVIOUS
  <2>1. CASE DrawForm
    <3>1. Above(evp) /\ evp \in EventType
      BY evpType DEF CutOff, evp, Above, NoEvent
    <3>2. ~ onSubmit(evp) /\ \A s \in Sliders : ~ onSlider(evp, s) /\ ~ drags(evp, s)
      BY <3>1, NothingAbove DEF CutOff, drags
    <3>3. form.val \in [Sliders -> Int] /\ g_next_job_id \in Nat
      BY DEF Types, FormData, FormTypeOK
    <3>4. CASE UNCHANGED formVars
      BY <3>4 DEF formVars
    <3>5. CASE drawFormPanel(evp)
      <4>1. form'.val = [s \in Sliders |-> form.val[s]]
        BY <3>2, <3>5 DEF drawFormPanel, Types, FormData
      <4>2. g_next_job_id' = g_next_job_id
        BY <3>2, <3>3, <3>5 DEF drawFormPanel, createJobs
      <4> QED
        BY <3>3, <4>1, <4>2
    <3> QED
      BY <2>1, <3>4, <3>5 DEF DrawForm, submitting
  <2>2. CASE ~ DrawForm
    BY <2>2
       DEF Next, Gui, BeginFrame, PollEvent, PollWheel, ScrollLog, EndPoll,
           DrawPresets, DrawTabs, DrawPanel, EndLoop, at, User, Mouse, Keyboard,
           Wheel, Enlarge, cause, PushLog, formVars
  <2> QED
    BY <2>1, <2>2
<1>3. Types /\ [Next]_vars => Types'
  BY TypeNext
<1> QED
  BY <1>1, <1>2, <1>3, TypeInit, CutOffInit, PTL DEF Spec, FormCutOff

-----------------------------------------------------------------------------
(* Clicks and jobs.                                                        *)

PresetsHit(ev) == {i \in 0 .. N_PRESETS - 1 : onPreset(ev, i)}

(* The presets do not overlap, whatever the width leaves for them, and the *)
(* form's button is in the other column.                                   *)
LEMMA OneButton ==
  ASSUME NEW ev \in EventType
  PROVE  /\ IsFiniteSet(PresetsHit(ev))
         /\ Cardinality(PresetsHit(ev)) =
               IF \E i \in 0 .. N_PRESETS - 1 : onPreset(ev, i) THEN 1 ELSE 0
         /\ onSubmit(ev) => ~ \E i \in 0 .. N_PRESETS - 1 : onPreset(ev, i)
<1> DEFINE bw == (mainW - (N_PRESETS - 1) * 5) \div N_PRESETS
<1>1. bw \in Int
  <2>1. mainW - (N_PRESETS - 1) * 5 \in Int
    BY FormAssumption DEF mainW, mainX, SB_W, PAD, N_PRESETS
  <2> QED
    BY <2>1 DEF N_PRESETS
<1>2. mainX = 290 /\ left = 16 /\ width = 258 /\ N_PRESETS = 8
  BY DEF mainX, left, width, SB_W, PAD, N_PRESETS
<1>3. \A i \in 0 .. 7 :
         onPreset(ev, i) => /\ ev.x >= 290 + i * (bw + 5)
                            /\ ev.x <= 290 + i * (bw + 5) + bw - 1
                            /\ ev.x \in Int
  BY <1>1, <1>2 DEF onPreset, pressIn, EventType
<1> HIDE DEF bw
<1>4. ASSUME NEW i \in 0 .. 7, NEW k \in 0 .. 7, onPreset(ev, i), onPreset(ev, k)
      PROVE  ~ (i < k)
  <2> SUFFICES ASSUME i < k PROVE FALSE
    OBVIOUS
  <2>1. bw >= 1
    <3>1. PICK p \in Int : p = i * (bw + 5)
      BY <1>1
    <3>2. ev.x \in Int /\ ev.x >= 290 + p /\ ev.x <= 290 + p + bw - 1
      BY <1>3, <1>4, <3>1
    <3> QED
      BY <1>1, <3>1, <3>2
  <2>2. k * (bw + 5) >= (i + 1) * (bw + 5)
    <3>1. \A a, b, c \in Nat : a <= b => a * c <= b * c
      OBVIOUS
    <3>2. i + 1 \in Nat /\ k \in Nat /\ bw + 5 \in Nat /\ i + 1 <= k
      BY <1>1, <2>1
    <3> QED
      BY <3>1, <3>2
  <2>3. (i + 1) * (bw + 5) = i * (bw + 5) + bw + 5
    BY <1>1
  <2>4. PICK p \in Int, q \in Int : p = i * (bw + 5) /\ q = k * (bw + 5)
    BY <1>1
  <2>5. /\ ev.x \in Int /\ ev.x <= 290 + p + bw - 1 /\ ev.x >= 290 + q
        /\ q >= p + bw + 5
    BY <1>3, <1>4, <2>2, <2>3, <2>4
  <2> QED
    BY <1>1, <2>4, <2>5
<1>5. PresetsHit(ev) = {i \in 0 .. 7 : onPreset(ev, i)}
  BY <1>2 DEF PresetsHit
<1>6. CASE ~ \E i \in 0 .. 7 : onPreset(ev, i)
  <2>1. PresetsHit(ev) = {}
    BY <1>5, <1>6
  <2> QED
    BY <1>2, <1>6, <2>1, FS_EmptySet
<1>7. CASE \E i \in 0 .. 7 : onPreset(ev, i)
  <2>1. PICK i \in 0 .. 7 : onPreset(ev, i)
    BY <1>7
  <2>2. \A k \in 0 .. 7 : onPreset(ev, k) => k = i
    BY <1>4, <2>1
  <2>3. PresetsHit(ev) = {i}
    BY <1>5, <2>1, <2>2
  <2>4. ~ onSubmit(ev)
    <3>1. bw >= 1 /\ ev.x >= 290
      <4>1. PICK p \in Int : p = i * (bw + 5)
        BY <1>1
      <4>2. ev.x \in Int /\ ev.x >= 290 + p /\ ev.x <= 290 + p + bw - 1
        BY <1>3, <2>1, <4>1
      <4>3. bw >= 1
        BY <1>1, <4>1, <4>2
      <4>4. p >= 0
        BY <1>1, <4>1, <4>3
      <4> QED
        BY <4>1, <4>2, <4>3, <4>4
    <3>2. ev.x \in Int
      BY DEF EventType
    <3> QED
      BY <1>2, <3>1, <3>2 DEF onSubmit, pressIn
  <2> QED
    BY <1>2, <1>7, <2>3, <2>4, FS_Singleton
<1> QED
  BY <1>6, <1>7

(* The presses on a button that the loop has not yet taken from SDL.       *)
Waiting(q) == {i \in DOMAIN q : isJobButton(q[i])}

LEMMA WaitingFinite ==
  ASSUME NEW q \in Seq(EventType)
  PROVE  IsFiniteSet(Waiting(q)) /\ Cardinality(Waiting(q)) \in Nat
<1>1. Len(q) \in Nat /\ DOMAIN q = 1 .. Len(q)
  BY LenProperties
<1>2. IsFiniteSet(1 .. Len(q))
  <2>1. 1 \in Int /\ Len(q) \in Int
    BY <1>1
  <2> QED
    BY <2>1, FS_Interval, Zenon
<1>3. Waiting(q) \in SUBSET (1 .. Len(q))
  BY <1>1 DEF Waiting
<1> QED
  BY <1>2, <1>3, FS_Subset, FS_CardinalityType

LEMMA WaitingAppend ==
  ASSUME NEW q \in Seq(EventType), NEW ev \in EventType
  PROVE  Cardinality(Waiting(Append(q, ev))) =
           Cardinality(Waiting(q)) + (IF isJobButton(ev) THEN 1 ELSE 0)
<1> DEFINE r == Append(q, ev)
<1>1. PICK n \in Nat : n = Len(q) /\ DOMAIN q = 1 .. n
  BY LenProperties
<1>2. /\ r \in Seq(EventType) /\ Len(r) = n + 1
      /\ \A i \in 1 .. n : r[i] = q[i]
      /\ r[n + 1] = ev
  BY <1>1, AppendProperties
<1>3. DOMAIN r = 1 .. n + 1
  BY <1>2, LenProperties
<1> HIDE DEF r
<1>4. \A i : i \in 1 .. n + 1 <=> i \in 1 .. n \/ i = n + 1
  OBVIOUS
<1>5. Waiting(r) = IF isJobButton(ev) THEN Waiting(q) \cup {n + 1} ELSE Waiting(q)
  BY <1>1, <1>2, <1>3, <1>4 DEF Waiting
<1>6. n + 1 \notin Waiting(q)
  BY <1>1 DEF Waiting
<1>7. Cardinality(Waiting(r)) =
         Cardinality(Waiting(q)) + (IF isJobButton(ev) THEN 1 ELSE 0)
  <2>1. IsFiniteSet(Waiting(q)) /\ Cardinality(Waiting(q)) \in Nat
    BY WaitingFinite
  <2>2. Cardinality(Waiting(q) \cup {n + 1}) = Cardinality(Waiting(q)) + 1
    BY <1>6, <2>1, FS_AddElement
  <2> QED
    BY <1>5, <2>1, <2>2
<1> QED
  BY <1>7 DEF r

LEMMA WaitingTail ==
  ASSUME NEW q \in Seq(EventType), q # <<>>
  PROVE  Cardinality(Waiting(Tail(q))) + (IF isJobButton(Head(q)) THEN 1 ELSE 0)
           <= Cardinality(Waiting(q))
<1> DEFINE t == Tail(q)
           h == Head(q)
<1>1. /\ h \in EventType /\ t \in Seq(EventType) /\ Len(t) = Len(q) - 1
      /\ \A i \in 1 .. Len(t) : t[i] = q[i + 1]
  BY HeadTailProperties
<1>2. PICK n \in Nat : n = Len(t) /\ DOMAIN t = 1 .. n
  BY <1>1, LenProperties
<1>3. DOMAIN q = 1 .. n + 1
  <2>1. PICK m \in Nat : m = Len(q) /\ DOMAIN q = 1 .. m
    BY LenProperties
  <2>2. m = n + 1
    BY <1>1, <1>2, <2>1
  <2> QED
    BY <2>1, <2>2
<1>4. h = q[1] /\ \A i \in 1 .. n : t[i] = q[i + 1]
  BY <1>1, <1>2
<1> HIDE DEF t, h
<1> DEFINE A == Waiting(t)
           B == Waiting(q) \ {1}
           shift == [i \in A |-> i + 1]
<1>5. shift \in Injection(A, B)
  <2>1. \A i \in A : i \in Nat /\ i + 1 \in B
    BY <1>2, <1>3, <1>4 DEF Waiting
  <2>2. shift \in [A -> B]
    BY <2>1
  <2>3. \A i, k \in A : shift[i] = shift[k] => i = k
    BY <2>1
  <2> QED
    BY <2>2, <2>3 DEF Injection, IsInjective
<1>6. /\ IsFiniteSet(Waiting(q)) /\ Cardinality(Waiting(q)) \in Nat
      /\ Cardinality(A) \in Nat
  BY <1>1, WaitingFinite
<1>7. IsFiniteSet(B) /\ Cardinality(B) =
         IF 1 \in Waiting(q) THEN Cardinality(Waiting(q)) - 1
                             ELSE Cardinality(Waiting(q))
  BY <1>6, FS_RemoveElement
<1>8. 1 \in Waiting(q) <=> isJobButton(h)
  BY <1>3, <1>4 DEF Waiting
<1> HIDE DEF A, B, shift
<1>9. Cardinality(A) <= Cardinality(B)
  BY <1>5, <1>7, FS_Injection
<1>10. Cardinality(A) + (IF isJobButton(h) THEN 1 ELSE 0) <= Cardinality(Waiting(q))
  BY <1>6, <1>7, <1>8, <1>9
<1> QED
  BY <1>10 DEF A, t, h

(* The press the loop has taken and may still act on in this frame.        *)
held ==
  IF \/ step \in {"poll", "scroll", "form"} /\ isJobButton(evp)
     \/ step = "presets" /\ \E i \in 0 .. N_PRESETS - 1 : onPreset(evp, i)
  THEN 1 ELSE 0

(* Each press is a job, or still to be acted on, or lost.                  *)
ClicksAccounted ==
  jobCount + Cardinality(Waiting(sdl_queue)) + held <= clicks

LEMMA ClicksInit == Init => ClicksAccounted
<1> SUFFICES ASSUME Init PROVE ClicksAccounted
  OBVIOUS
<1>1. g_next_job_id = 1 /\ clicks = 0 /\ step = "frame" /\ DOMAIN sdl_queue = {}
  BY DEF Init, FormInit
<1>2. Waiting(sdl_queue) = {}
  BY <1>1 DEF Waiting
<1>3. held = 0
  BY <1>1 DEF held
<1> QED
  BY <1>1, <1>2, <1>3, FS_EmptySet DEF ClicksAccounted, jobCount

(* The next value of held, by where the step leads.                        *)
LEMMA HeldNext ==
  /\ step' \in {"frame", "tabs", "panel", "stopped"} => held' = 0
  /\ step' = step /\ evp' = evp => held' = held
  /\ step' \in {"poll", "scroll", "form"} =>
        held' = IF isJobButton(evp') THEN 1 ELSE 0
  /\ step' = "presets" =>
        held' = IF \E i \in 0 .. N_PRESETS - 1 : onPreset(evp', i) THEN 1 ELSE 0
  /\ held \in {0, 1}
BY DEF held

LEMMA ClicksNext ==
  ASSUME Types, ClicksAccounted, [Next]_vars
  PROVE  ClicksAccounted'
<1> DEFINE wait == Cardinality(Waiting(sdl_queue))
<1>1. /\ sdl_queue \in Seq(EventType) /\ g_next_job_id \in Nat /\ clicks \in Nat
      /\ evp \in EventType /\ held \in {0, 1}
  BY evpType, HeldNext DEF Types, LoopData, FormData, FormTypeOK
<1>2. wait \in Nat
  BY <1>1, WaitingFinite
<1>3. g_next_job_id - 1 + wait + held <= clicks
  BY DEF ClicksAccounted, jobCount
<1> HIDE DEF wait
<1>4. SUFFICES g_next_job_id' - 1 + Cardinality(Waiting(sdl_queue')) + held' <= clicks'
  BY DEF ClicksAccounted, jobCount
<1>5. CASE User
  <2>1. PICK ev \in EventType : cause(ev)
    BY <1>5, UserCauses
  <2>2. Cardinality(Waiting(sdl_queue')) = wait + (IF isJobButton(ev) THEN 1 ELSE 0)
    BY <1>1, <2>1, WaitingAppend DEF cause, wait
  <2>3. held' = held
    BY <2>1, HeldNext DEF cause, frameVars, evp
  <2>4. /\ g_next_job_id' = g_next_job_id
        /\ clicks' = clicks + (IF isJobButton(ev) THEN 1 ELSE 0)
    BY <1>1, <2>1 DEF cause, formVars
  <2> QED
    BY <1>1, <1>2, <1>3, <2>2, <2>3, <2>4
<1>6. CASE PollEvent \/ PollWheel
  <2>1. /\ sdl_queue # <<>> /\ sdl_queue' = Tail(sdl_queue)
        /\ step' \in {"poll", "scroll"} /\ evp' = Head(sdl_queue)
        /\ g_next_job_id' = g_next_job_id /\ clicks' = clicks
    BY <1>6 DEF PollEvent, PollWheel, keepLast, at, evp, formVars
  <2>2. Cardinality(Waiting(sdl_queue'))
          + (IF isJobButton(Head(sdl_queue)) THEN 1 ELSE 0) <= wait
    BY <1>1, <2>1, WaitingTail DEF wait
  <2>3. held' = IF isJobButton(Head(sdl_queue)) THEN 1 ELSE 0
    BY <2>1, HeldNext
  <2>4. Cardinality(Waiting(sdl_queue')) \in Nat
    <3>1. sdl_queue' \in Seq(EventType)
      BY <1>1, <2>1
    <3> QED
      BY <3>1, WaitingFinite
  <2> QED
    BY <1>1, <1>2, <1>3, <2>1, <2>2, <2>3, <2>4
<1>7. ASSUME UNCHANGED <<sdl_queue, clicks>>
      PROVE  Cardinality(Waiting(sdl_queue')) = wait /\ clicks' = clicks
  BY <1>7 DEF wait
<1>8. CASE BeginFrame
  <2>1. evp' = NoEvent /\ step' = "poll" /\ UNCHANGED <<sdl_queue, clicks, g_next_job_id>>
    BY <1>8 DEF BeginFrame, at, evp, userVars, formVars
  <2>2. held' = 0
    BY <2>1, HeldNext DEF isJobButton, onSubmit, onPreset, pressIn, NoEvent
  <2> QED
    BY <1>1, <1>2, <1>3, <1>7, <2>1, <2>2
<1>9. CASE ScrollLog \/ EndPoll
  <2>1. /\ evp' = evp /\ step \in {"poll", "scroll", "form"}
        /\ step' \in {"poll", "scroll", "form"}
        /\ UNCHANGED <<sdl_queue, clicks, g_next_job_id>>
    BY <1>9 DEF ScrollLog, EndPoll, at, evp, frameVars, userVars, formVars
  <2>2. held' = held
    BY <2>1, HeldNext DEF held
  <2> QED
    BY <1>1, <1>2, <1>3, <1>7, <2>1, <2>2
<1>10. CASE DrawForm
  <2>1. /\ evp' = evp /\ step = "form" /\ step' = "presets"
        /\ UNCHANGED <<sdl_queue, clicks>>
    BY <1>10 DEF DrawForm, submitting, at, evp, frameVars, userVars
  <2>2. \/ g_next_job_id' = g_next_job_id
        \/ onSubmit(evp) /\ g_next_job_id' = g_next_job_id + 1
    BY <1>1, <1>10
       DEF DrawForm, submitting, drawFormPanel, createJobs, formVars
  <2>3. held = IF isJobButton(evp) THEN 1 ELSE 0
    BY <2>1 DEF held
  <2>4. held' = IF \E i \in 0 .. N_PRESETS - 1 : onPreset(evp, i) THEN 1 ELSE 0
    BY <2>1, HeldNext
  <2>5. onSubmit(evp) => ~ \E i \in 0 .. N_PRESETS - 1 : onPreset(evp, i)
    BY <1>1, OneButton
  <2> QED
    BY <1>1, <1>2, <1>3, <1>7, <2>1, <2>2, <2>3, <2>4, <2>5 DEF isJobButton
<1>11. CASE DrawPresets
  <2>1. /\ step = "presets" /\ step' = "tabs" /\ UNCHANGED <<sdl_queue, clicks>>
        /\ g_next_job_id' = g_next_job_id + Cardinality(PresetsHit(evp))
    BY <1>11
       DEF DrawPresets, submitting, at, userVars, drawPresets, createJobs, PresetsHit
  <2>2. held = Cardinality(PresetsHit(evp))
    BY <1>1, <2>1, OneButton DEF held
  <2>3. held' = 0
    BY <2>1, HeldNext
  <2> QED
    BY <1>1, <1>2, <1>3, <1>7, <2>1, <2>2, <2>3
<1>12. CASE DrawTabs \/ DrawPanel \/ EndLoop
  <2>1. /\ step' \in {"frame", "panel", "stopped"}
        /\ UNCHANGED <<sdl_queue, clicks, g_next_job_id>>
    BY <1>12 DEF DrawTabs, DrawPanel, EndLoop, at, userVars, drawTabBar, formVars
  <2>2. held' = 0
    BY <2>1, HeldNext
  <2> QED
    BY <1>1, <1>2, <1>3, <1>7, <2>1, <2>2
<1>13. CASE PushLog \/ UNCHANGED vars
  <2>1. evp' = evp /\ step' = step /\ UNCHANGED <<sdl_queue, clicks, g_next_job_id>>
    BY <1>13 DEF PushLog, vars, evp, frameVars, userVars, formVars
  <2>2. held' = held
    BY <2>1, HeldNext
  <2> QED
    BY <1>1, <1>2, <1>3, <1>7, <2>1, <2>2
<1> QED
  BY <1>5, <1>6, <1>8, <1>9, <1>10, <1>11, <1>12, <1>13 DEF Next, Gui

(* OncePerClick: however the frames, the events and the other threads'     *)
(* lines interleave, a press on a preset or on SUBMIT JOB submits at most  *)
(* one job.                                                                *)
THEOREM OncePerPress == Spec => []OncePerClick
<1>1. Types /\ ClicksAccounted /\ [Next]_vars => ClicksAccounted'
  BY ClicksNext
<1>2. Types /\ ClicksAccounted => OncePerClick
  <2> SUFFICES ASSUME Types, ClicksAccounted PROVE OncePerClick
    OBVIOUS
  <2>1. /\ sdl_queue \in Seq(EventType) /\ g_next_job_id \in Nat /\ clicks \in Nat
    BY DEF Types, LoopData, FormData, FormTypeOK
  <2>2. Cardinality(Waiting(sdl_queue)) \in Nat /\ held \in {0, 1}
    BY <2>1, WaitingFinite, HeldNext
  <2> QED
    BY <2>1, <2>2 DEF ClicksAccounted, OncePerClick, jobCount
<1>3. Types /\ [Next]_vars => Types'
  BY TypeNext
<1> QED
  BY <1>1, <1>2, <1>3, TypeInit, ClicksInit, PTL DEF Spec

=============================================================================
