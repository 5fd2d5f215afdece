----------------------------- MODULE SubmitForm -----------------------------
(***************************************************************************)
(* What a mouse event does to the form, the presets and the tab bar, in    *)
(* the pixels of main.cpp: drawFormPanel, drawPresets, drawTabBar.  Each   *)
(* is called once a frame with the event of the frame, or none.            *)
(***************************************************************************)
EXTENDS Integers, FiniteSets

CONSTANTS
  WIN_W, WIN_H,    \* the size main() gives the window and lays out for
  MAX_NAME         \* the longest name that is typed

ASSUME FormAssumption ==
  /\ WIN_W \in Nat /\ WIN_H \in Nat
  /\ MAX_NAME \in Nat /\ MAX_NAME >= 3

HDR_H == 58
SB_W == 278
PAD == 6

VARIABLES
  form,            \* FormState: name_len, prio_idx, focused, and val, the
                   \* three sliders' values by their focus numbers
  g_next_job_id,
  active_tab       \* UIState::active_tab

formVars == <<form, g_next_job_id, active_tab>>

Sliders == 2 .. 4
minv == [s \in Sliders |-> CASE s = 2 -> 5 [] s = 3 -> 64 [] s = 4 -> 2]
maxv == [s \in Sliders |-> CASE s = 2 -> 80 [] s = 3 -> 1024 [] s = 4 -> 40]

FormInit ==
  /\ form = [name_len |-> 3, prio_idx |-> 2, focused |-> -1,
             val |-> [s \in Sliders |-> CASE s = 2 -> 20 [] s = 3 -> 256 [] s = 4 -> 10]]
  /\ g_next_job_id = 1
  /\ active_tab = 0

atLeast(a, b) == IF a >= b THEN a ELSE b
atMost(a, b) == IF a <= b THEN a ELSE b

NoEvent == [type |-> "none", x |-> 0, y |-> 0]

pressIn(ev, x, y, w, h) ==
  /\ ev.type = "press"
  /\ ev.x \in x .. x + w - 1
  /\ ev.y \in y .. y + h - 1

-----------------------------------------------------------------------------
(* The form's rows: it starts where the panels above it end.               *)
formY == HDR_H + PAD + 244 + 220 + 260
formH == WIN_H - formY - PAD
nameY == formY + 26
prioY == nameY + 42
sliderY(s) == prioY + 42 + 32 * (s - 2)
formEnd == sliderY(5)

(* The button is pushed down below the sliders.                            *)
btnY == atLeast(formY + formH - 46, formEnd + 6)

left == PAD + 10
width == SB_W - 20

onName(ev) == pressIn(ev, left, nameY + 12, width, 22)

onPrio(ev, i) ==
  LET bw == (width - 12) \div 4
  IN pressIn(ev, left + i * (bw + 4), prioY + 12, bw, 22)

onSlider(ev, s) == pressIn(ev, left, sliderY(s) + 8, width, 14)

onSubmit(ev) == pressIn(ev, left, btnY, width, 34)

drags(ev, s) == ev.type = "drag" /\ form.focused = s

(* Mutant: the value is not brought back into the slider's range.          *)
unclampedValue(s, x) ==
  minv[s] + (2 * (x - left) * (maxv[s] - minv[s]) + width) \div (2 * width)

(* The value is rounded, and kept within the slider's range.               *)
valueAt(s, x) ==
  LET v == minv[s] + (2 * (x - left) * (maxv[s] - minv[s]) + width) \div (2 * width)
  IN atLeast(minv[s], atMost(maxv[s], v))

(* A press on the name takes the focus; any other takes it off the name,   *)
(* but leaves it on a slider.                                              *)
focusAfter(ev) ==
  IF ev.type # "press" THEN form.focused
  ELSE IF onName(ev) THEN 0
  ELSE IF \E s \in Sliders : onSlider(ev, s)
       THEN CHOOSE s \in Sliders : onSlider(ev, s)
  ELSE IF form.focused = 0 THEN -1 ELSE form.focused

createJobs(n) == g_next_job_id' = g_next_job_id + n

drawFormPanel(ev) ==
  /\ form' =
       [form EXCEPT
          !.focused = focusAfter(ev),
          !.prio_idx = IF \E i \in 0 .. 3 : onPrio(ev, i)
                       THEN CHOOSE i \in 0 .. 3 : onPrio(ev, i) ELSE @,
          !.val = [s \in Sliders |-> IF onSlider(ev, s) \/ drags(ev, s)
                                     THEN valueAt(s, ev.x) ELSE @[s]]]
  /\ createJobs(IF onSubmit(ev) THEN 1 ELSE 0)
  /\ UNCHANGED active_tab

-----------------------------------------------------------------------------
(* The column on the right.                                                *)
mainX == SB_W + PAD * 2
mainW == WIN_W - mainX - PAD
presetY == HDR_H + PAD + 90 + 16
tabY == HDR_H + PAD + 90 + 64
N_PRESETS == 8

onPreset(ev, i) ==
  LET bw == (mainW - (N_PRESETS - 1) * 5) \div N_PRESETS
  IN pressIn(ev, mainX + i * (bw + 5), presetY, bw, 40)

drawPresets(ev) ==
  /\ createJobs(Cardinality({i \in 0 .. N_PRESETS - 1 : onPreset(ev, i)}))
  /\ UNCHANGED <<form, active_tab>>

onTab(ev, i) ==
  LET tw == (mainW - 10) \div 3
  IN pressIn(ev, mainX + i * (tw + 5), tabY, tw, 28)

drawTabBar(ev) ==
  /\ active_tab' = IF \E i \in 0 .. 2 : onTab(ev, i)
                   THEN CHOOSE i \in 0 .. 2 : onTab(ev, i) ELSE active_tab
  /\ UNCHANGED <<form, g_next_job_id>>

-----------------------------------------------------------------------------
(* Keys and text reach the form at once, not with the frame's event.       *)
typeKey(key) ==
  form' =
    IF form.focused # 0 THEN form
    ELSE CASE key = "text" -> [form EXCEPT !.name_len = IF @ < MAX_NAME THEN @ + 1 ELSE @]
           [] key = "backspace" -> [form EXCEPT !.name_len = atLeast(0, @ - 1)]
           [] key = "tab" -> [form EXCEPT !.focused = -1]
           [] OTHER -> form

FormTypeOK ==
  /\ form.focused \in {-1, 0} \cup Sliders
  /\ form.name_len \in 0 .. MAX_NAME
  /\ form.prio_idx \in 0 .. 3
  /\ \A s \in Sliders : form.val[s] \in minv[s] .. maxv[s]
  /\ g_next_job_id \in Nat \ {0}
  /\ active_tab \in 0 .. 2

=============================================================================
