-------------------------------- MODULE Desk --------------------------------
(***************************************************************************)
(* The desktop, user/desk.c: windows and their stacking order, the mouse   *)
(* modes, menus, alerts, and the shells that run in windows behind a pair  *)
(* of pipes.                                                               *)
(*                                                                         *)
(* Where the mouse is is replaced by what hit_test finds there.  Pixels,   *)
(* scrolling, the numbers of the calculator and the text of the editor     *)
(* (module DeskEdit) are left out.                                         *)
(***************************************************************************)
EXTENDS Integers, Sequences, SequencesExt, FiniteSets, FiniteSetsExt

CONSTANTS
    MAX_WINDOWS,
    MAX_FDS,       \* descriptors besides the standard ones
    Names,         \* names in the root folder, sorted as compare_entries does
    KindOf,        \* name -> "dir", "shell", "program" or "text"
    Fixed,         \* bound: names nothing removes
    Written,       \* bound: names programs make and remove
    Shells,        \* names of shells; bound: how many live at a time
    Hasty          \* keys and the end of a shell may come while a button is
                   \* held down

ASSUME DeskAssumption ==
    /\ MAX_WINDOWS \in Nat \ {0} /\ MAX_FDS \in Nat
    /\ Names \in Seq(STRING)
    /\ KindOf \in [Range(Names) -> {"dir", "shell", "program", "text"}]

VARIABLES
    d,       \* windows, order, selection, alert, descriptors
    mouse,   \* mode and what it tracks
    disk,    \* names in the root folder; the folders in it stay empty
    procs,   \* shell -> is it alive, does a job of it live
    quit     \* "no", "yes", "done" or "reboot"

vars == <<d, mouse, disk, procs, quit>>

Slots == 0..MAX_WINDOWS - 1
RootNames == Range(Names)
NoTarget == <<-1, -1>>
NoClick == <<-2, -2>>
DESK_DISK == <<-1, 0>>
DESK_TRASH == <<-1, 1>>

Unused == [used |-> FALSE, kind |-> "none", path |-> "", entries |-> <<>>,
           modified |-> FALSE, shell |-> "none", to |-> 0, from |-> 0]

(* listdir and the insertion sort of load_folder *)
Listing(dk, path) ==
    LET and(es, n) == IF n \in dk THEN Append(es, n) ELSE es
        upto[n \in 0..Len(Names)] ==
            IF n = 0 THEN <<>> ELSE and(upto[n - 1], Names[n])
    IN  IF path = "root" THEN upto[Len(Names)] ELSE <<>>

-----------------------------------------------------------------------------
(* Windows *)

front_index(dd) == IF dd.order = <<>> THEN -1 ELSE Last(dd.order)
FrontKind(dd) ==
    IF dd.order = <<>> THEN "none" ELSE dd.win[Last(dd.order)].kind

Stacked(order, w) == \E i \in DOMAIN order : order[i] = w

(* the windows above the place of w move down onto it; one that is not     *)
(* stacked shortens the order all the same, whatever the search found      *)
Unstack(order, w) ==
    LET place == Min({i \in DOMAIN order : order[i] = w} \cup {Len(order) + 1})
    IN  [i \in 1..Len(order) - 1 |-> order[IF i < place THEN i ELSE i + 1]]

(* mutant: the window is put on top and stays where it was *)
bring_to_front_twice(dd, w) == [dd EXCEPT !.order = Append(@, w)]

bring_to_front(dd, w) == [dd EXCEPT !.order = Append(Unstack(@, w), w)]

load_folder(dd, dk, w) ==
    [dd EXCEPT !.win[w].entries = Listing(dk, dd.win[w].path)]

Shows(dd, w, path) ==
    dd.win[w].used /\ dd.win[w].kind = "folder" /\ dd.win[w].path = path

reload_path(dd, dk, path) ==
    [dd EXCEPT
       !.win = [w \in Slots |->
          IF Shows(dd, w, path)
          THEN [@[w] EXCEPT !.entries = Listing(dk, path)] ELSE @[w]],
       !.sel = IF @[1] >= 0 /\ dd.win[@[1]].used
                  /\ dd.win[@[1]].path = path
               THEN <<@[1], -1>> ELSE @]

find_window(dd, kind, path) ==
    {w \in Slots : dd.win[w].used /\ dd.win[w].kind = kind
                     /\ dd.win[w].path = path}
FreeSlots(dd) == {w \in Slots : ~dd.win[w].used}

(* the slot a new window gets, or -1 *)
SlotFor(dd, kind, path) ==
    IF find_window(dd, kind, path) # {} \/ FreeSlots(dd) = {} THEN -1
    ELSE Min(FreeSlots(dd))

new_window(dd, kind, path) ==
    CASE find_window(dd, kind, path) # {} ->
           bring_to_front(dd, Min(find_window(dd, kind, path)))
      [] SlotFor(dd, kind, path) >= 0 ->
           [dd EXCEPT !.win[SlotFor(dd, kind, path)] =
                        [Unused EXCEPT !.used = TRUE, !.kind = kind,
                                       !.path = path],
                      !.order = Append(@, SlotFor(dd, kind, path))]
      [] OTHER -> dd

open_folder(dd, dk, path) ==
    LET w == SlotFor(dd, "folder", path)
        opened == new_window(dd, "folder", path)
    IN  IF path # "root" /\ path \notin dk THEN dd
        ELSE IF w >= 0 THEN load_folder(opened, dk, w) ELSE opened

open_text(dd, dk, name) ==
    IF name \in dk THEN new_window(dd, "text", name) ELSE dd

(* closing only clears used; the rest is read again before the slot gets a *)
(* new window only if the mouse is still tracking it                       *)
Closed(win, w) ==
    IF Hasty /\ mouse.track = w THEN [win EXCEPT !.used = FALSE] ELSE Unused

(* mutant: only the pipe that is read is closed *)
close_window_half(dd, w) ==
    [dd EXCEPT
       !.fds = IF dd.win[w].kind = "term" THEN @ \ {dd.win[w].from} ELSE @,
       !.order = Unstack(@, w),
       !.win[w] = Closed(@, w),
       !.sel = IF @[1] = w THEN NoTarget ELSE @]

(* what closing does to the desktop itself; KilledBy has what it does to   *)
(* the shell                                                               *)
close_window(dd, w) ==
    [dd EXCEPT
       !.fds = IF dd.win[w].kind = "term"
               THEN @ \ {dd.win[w].to, dd.win[w].from} ELSE @,
       !.order = Unstack(@, w),
       !.win[w] = Closed(@, w),
       !.sel = IF @[1] = w THEN NoTarget ELSE @]

(* the windows of closing, in the order of ws *)
close_windows(dd, ws, closing) ==
    LET close(x, w) == IF w \in closing THEN close_window(x, w) ELSE x
        after[n \in 0..Len(ws)] ==
            IF n = 0 THEN dd ELSE close(after[n - 1], ws[n])
    IN  after[Len(ws)]

NoShell == [shell |-> FALSE, job |-> FALSE]

(* the processes after the windows ws are closed.  kill_jobs finds what    *)
(* descends from the shell; once the shell has exited its jobs descend     *)
(* from init and are not found                                             *)
KilledBy(dd, pr, ws) ==
    [p \in Shells |->
       IF pr[p].shell /\ \E w \in ws : dd.win[w].kind = "term"
                                          /\ dd.win[w].shell = p
       THEN NoShell ELSE pr[p]]

-----------------------------------------------------------------------------
(* Alerts and closing *)

show_alert(dd, kind, arg) ==
    [dd EXCEPT !.alert = [kind |-> kind, arg |-> arg, pressed |-> -1]]
NoAlert == [kind |-> "none", arg |-> <<>>, pressed |-> -1]
Alerted == d.alert.kind # "none"

unsaved(dd, w) == dd.win[w].kind = "text" /\ dd.win[w].modified

AnyUnsaved(dd) == \E w \in Slots : dd.win[w].used /\ unsaved(dd, w)

(* request_close as the new desktop and processes *)
request_close(dd, pr, w) ==
    IF unsaved(dd, w) THEN <<show_alert(dd, "discard", <<w>>), pr>>
    ELSE <<close_window(dd, w), KilledBy(dd, pr, {w})>>

(* close all: from the front on, up to the first window with changes *)
CloseAll(dd, pr) ==
    LET stops == {i \in DOMAIN dd.order : unsaved(dd, dd.order[i])}
        closing == {dd.order[i] : i \in {j \in DOMAIN dd.order :
                                           \A k \in stops : j > k}}
        closed == close_windows(dd, Reverse(dd.order), closing)
    IN  <<IF stops = {} THEN closed
          ELSE show_alert(closed, "discard", <<dd.order[Max(stops)]>>),
          KilledBy(dd, pr, closing)>>

-----------------------------------------------------------------------------
(* Shell windows: descriptors are numbers, the lowest free ones are taken *)

Free(fds) == (1..MAX_FDS) \ fds
PipeFits(fds) == Cardinality(Free(fds)) >= 2
PipeRead(fds) == Min(Free(fds))
PipeWrite(fds) == Min(Free(fds) \ {PipeRead(fds)})
WithPipe(fds) == fds \cup {PipeRead(fds), PipeWrite(fds)}

(* both pipes, the shell and a window: to[0] and from[1] are closed again  *)
ShellWindow(dd, p) ==
    LET two == WithPipe(dd.fds)
        w == SlotFor(dd, "term", p)
    IN  [new_window(dd, "term", p) EXCEPT
           !.fds = WithPipe(two) \ {PipeRead(dd.fds), PipeWrite(two)},
           !.win[w].shell = p, !.win[w].to = PipeWrite(dd.fds),
           !.win[w].from = PipeRead(two)]

(* the next name that nothing uses *)
NextShell(dd, pr) ==
    LET free == {p \in Shells : pr[p] = NoShell
                                 /\ \A w \in Slots : dd.win[w].shell # p}
    IN  IF free = {} THEN {} ELSE {CHOOSE p \in free : TRUE}
Started == [shell |-> TRUE, job |-> FALSE]

(* mutant: without a window for it the shell is left running *)
open_shell_leaves_it(dd, pr) ==
    CASE ~PipeFits(dd.fds) \/ ~PipeFits(WithPipe(dd.fds)) -> {<<dd, pr>>}
      [] OTHER ->
         {<<show_alert(dd, "info", <<>>), pr>>}
           \cup {<<IF FreeSlots(dd) = {} THEN show_alert(dd, "info", <<>>)
                   ELSE ShellWindow(dd, p), [pr EXCEPT ![p] = Started]>> :
                    p \in NextShell(dd, pr)}

(* open_shell: the possible new desktops and processes.  Without room for  *)
(* both pipes nothing is left of the first; a run call that fails, or no   *)
(* slot for the window, closes the ends again and kills the shell          *)
open_shell(dd, pr) ==
    CASE ~PipeFits(dd.fds) \/ ~PipeFits(WithPipe(dd.fds)) -> {<<dd, pr>>}
      [] OTHER ->
         {<<show_alert(dd, "info", <<>>), pr>>}
           \cup {<<ShellWindow(dd, p), [pr EXCEPT ![p] = Started]>> :
                    p \in IF FreeSlots(dd) = {} THEN {}
                         ELSE NextShell(dd, pr)}

-----------------------------------------------------------------------------
(* Operations, as the set of their outcomes: the state they leave, and     *)
(* whether a program had the screen in between (back_to_desktop)           *)

Leaves(dd) == [d |-> dd, procs |-> procs, disk |-> disk, quit |-> quit,
               ran |-> FALSE]
LeavesBoth(both) == [Leaves(both[1]) EXCEPT !.procs = both[2]]

(* what a program may do to the folder the desktop shows *)
OtherWrites(dk) ==
    {dk} \cup {dk \cup {n} : n \in Written} \cup {dk \ {n} : n \in Written}

(* run_program and open_terminal: the screen is the program's until it is  *)
(* waited for                                                              *)
run_program(dd) ==
    {[Leaves(dd) EXCEPT !.disk = dk, !.ran = TRUE] : dk \in OtherWrites(disk)}

HasEntry(dd, t) ==
    t[1] >= 0 /\ t[2] >= 0 /\ t[2] < Len(dd.win[t[1]].entries)
Entry(dd, t) == dd.win[t[1]].entries[t[2] + 1]

open_entry(dd, name) ==
    CASE KindOf[name] = "dir" -> {Leaves(open_folder(dd, disk, name))}
      [] KindOf[name] = "shell" -> {LeavesBoth(o) : o \in open_shell(dd, procs)}
      [] KindOf[name] = "program" -> run_program(dd)
      [] KindOf[name] = "text" -> {Leaves(open_text(dd, disk, name))}

open_target(dd, t) ==
    CASE t = DESK_DISK -> {Leaves(open_folder(dd, disk, "root"))}
      [] HasEntry(dd, t) -> open_entry(dd, Entry(dd, t))
      [] OTHER -> {Leaves(dd)}

ask_delete(dd) ==
    IF HasEntry(dd, dd.sel)
    THEN show_alert(dd, "delete", <<Entry(dd, dd.sel)>>) ELSE dd

get_info(dd) ==
    IF HasEntry(dd, dd.sel) \/ dd.sel \in {DESK_DISK, DESK_TRASH}
    THEN show_alert(dd, "info", <<>>) ELSE dd

(* mutant: only the front window is looked at *)
request_quit_front(dd) ==
    IF dd.order # <<>> /\ unsaved(dd, Last(dd.order))
    THEN Leaves(show_alert(dd, "quit", <<>>))
    ELSE [Leaves(dd) EXCEPT !.quit = "yes"]

request_quit(dd) ==
    IF AnyUnsaved(dd) THEN Leaves(show_alert(dd, "quit", <<>>))
    ELSE [Leaves(dd) EXCEPT !.quit = "yes"]

(* new_item: the first name of its kind that the window does not list, or  *)
(* the last one tried when it lists them all                               *)
OfKind(kind) == {i \in DOMAIN Names : KindOf[Names[i]] = kind}

NewName(kind) ==
    LET free == {i \in OfKind(kind) :
                   ~Contains(d.win[front_index(d)].entries, Names[i])}
    IN  Names[IF free # {} THEN Min(free) ELSE Max(OfKind(kind))]

(* the item called name, if the window w lists it *)
SelectItem(dd, w, name) ==
    LET at == {i \in DOMAIN dd.win[w].entries : dd.win[w].entries[i] = name}
    IN  IF at = {} THEN dd ELSE [dd EXCEPT !.sel = <<w, Min(at) - 1>>]

(* a text that is there already is truncated and opened *)
NewItem(kind, name) ==
    LET dk == disk \cup {name}
        shown == SelectItem(reload_path(d, dk, "root"), front_index(d), name)
    IN  [Leaves(IF kind = "text" THEN open_text(shown, dk, name) ELSE shown)
           EXCEPT !.disk = dk]

(* mkdir and open may fail, mkdir of what is there does.  Bound: nothing is*)
(* made below the root folder                                              *)
new_item(kind) ==
    LET made == /\ d.win[front_index(d)].path = "root" /\ OfKind(kind) # {}
                /\ kind = "dir" => NewName(kind) \notin disk
    IN  {Leaves(show_alert(d, "info", <<>>))}
          \cup (IF made THEN {NewItem(kind, NewName(kind))} ELSE {})

MenuItems ==
    [logo |-> {"about", "calc", "clock", "shell"},
     file |-> {"open", "new_folder", "new_file", "close", "close_all", "info",
               "quit"},
     view |-> {"by_icon", "by_name"},
     special |-> {"delete", "restart"},
     selector |-> {"program"}]

menu_item_enabled(i) ==
    CASE i = "open" -> d.sel[2] >= 0 /\ d.sel # DESK_TRASH
      [] i \in {"new_folder", "new_file", "by_icon", "by_name"} ->
           FrontKind(d) = "folder"
      [] i \in {"close", "close_all"} -> d.order # <<>>
      [] i = "info" -> d.sel[2] >= 0
      [] i = "delete" -> HasEntry(d, d.sel)
      [] OTHER -> TRUE

menu_action(i) ==
    IF ~menu_item_enabled(i) THEN {Leaves(d)}
    ELSE CASE i = "about" -> {Leaves(show_alert(d, "info", <<>>))}
           [] i \in {"calc", "clock"} -> {Leaves(new_window(d, i, i))}
           [] i = "shell" -> {LeavesBoth(o) : o \in open_shell(d, procs)}
           [] i = "open" -> open_target(d, d.sel)
           [] i = "new_folder" -> new_item("dir")
           [] i = "new_file" -> new_item("text")
           [] i = "close" ->
                {LeavesBoth(request_close(d, procs, front_index(d)))}
           [] i = "close_all" -> {LeavesBoth(CloseAll(d, procs))}
           [] i = "info" -> {Leaves(get_info(d))}
           [] i = "quit" -> {request_quit(d)}
           [] i = "delete" -> {Leaves(ask_delete(d))}
           [] i = "restart" -> {[Leaves(d) EXCEPT !.quit = "reboot"]}
           [] i = "program" -> run_program(d)
           [] OTHER -> {Leaves(d)}   \* by icon, by name: layout

(* remove, then the listing of every window that shows the folder *)
Deletes(dd, name) ==
    {Leaves(show_alert(dd, "info", <<>>))}
      \cup {[Leaves(reload_path([dd EXCEPT !.sel = NoTarget], dk, "root"))
               EXCEPT !.disk = dk] :
               dk \in {disk \ {n} : n \in {name} \cap (disk \ Fixed)}}

alert_done(ok) ==
    LET dd == [d EXCEPT !.alert = NoAlert]
        kind == d.alert.kind
    IN  IF ~ok \/ kind = "info" THEN {Leaves(dd)}
        ELSE CASE kind = "discard" ->
                    {LeavesBoth(<<close_window(dd, d.alert.arg[1]),
                                  KilledBy(dd, procs, {d.alert.arg[1]})>>)}
               [] kind = "quit" -> {[Leaves(dd) EXCEPT !.quit = "yes"]}
               [] kind = "delete" -> Deletes(dd, d.alert.arg[1])

-----------------------------------------------------------------------------
Init ==
    /\ disk = RootNames \ {n \in RootNames : KindOf[n] = "dir"}
    /\ d = open_folder([win |-> [w \in Slots |-> Unused], order |-> <<>>,
                        sel |-> NoTarget, alert |-> NoAlert, fds |-> {}],
                       disk, "root")
    /\ mouse = [mode |-> "idle", track |-> -1, source |-> NoTarget,
                moved |-> FALSE, held |-> FALSE, sticky |-> FALSE,
                menu |-> "none", last |-> NoClick]
    /\ procs = [p \in Shells |-> NoShell]
    /\ quit = "no"

(* close_menu, and the end of every other mode.  A press sets what its     *)
(* mode tracks, so nothing is left of it in between                        *)
Idle(m) == [m EXCEPT !.mode = "idle", !.track = -1, !.source = NoTarget,
                     !.moved = FALSE, !.menu = "none", !.sticky = FALSE]

(* the outcome o, with mouse m; back_to_desktop lets go of everything *)
Finish(o, m) ==
    /\ d' = o.d /\ procs' = o.procs /\ disk' = o.disk /\ quit' = o.quit
    /\ mouse' = IF o.ran THEN [Idle(m) EXCEPT !.held = FALSE] ELSE m

MayPress == quit = "no" /\ ~mouse.held
Pressed == [mouse EXCEPT !.held = TRUE]
Released == [mouse EXCEPT !.held = FALSE]
Only(dd, m) ==
    d' = dd /\ mouse' = m /\ UNCHANGED <<disk, procs, quit>>

AlertPress ==
    /\ MayPress /\ Alerted
    /\ \E b \in {-1, 0} \cup (IF d.alert.kind = "info" THEN {} ELSE {1}) :
         Only([d EXCEPT !.alert.pressed = b], Pressed)

AlertRelease ==
    /\ quit = "no" /\ mouse.held /\ Alerted
    /\ \/ Only([d EXCEPT !.alert.pressed = -1], Released)
       \/ /\ d.alert.pressed >= 0
          /\ \E o \in alert_done(d.alert.pressed = 0) : Finish(o, Released)

PressMenuBar(m) ==
    /\ MayPress /\ ~Alerted /\ mouse.mode # "menu"
    /\ Only(d, [Pressed EXCEPT !.mode = "menu", !.menu = m])

PressOpenMenu ==
    /\ MayPress /\ ~Alerted /\ mouse.mode = "menu"
    /\ Only(d, [Pressed EXCEPT !.sticky = FALSE])

(* the close box, the grow box and the keys of the calculator are those of *)
(* the front window only                                                   *)
FrameHits(w) ==
    {"drag_window"}
      \cup (IF w # front_index(d) THEN {}
            ELSE {"close_box"}
              \cup (IF FrontKind(d) \in {"folder", "text", "term"}
                    THEN {"grow_window"} ELSE {})
              \cup (IF FrontKind(d) = "calc" THEN {"calc_key"} ELSE {}))

PressFrame(w) ==
    /\ MayPress /\ ~Alerted /\ mouse.mode # "menu" /\ Stacked(d.order, w)
    /\ \E hit \in FrameHits(w) :
         Only(bring_to_front(d, w), [Pressed EXCEPT !.mode = hit, !.track = w])

(* scroll bars and the rest of a window *)
PressInside(w) ==
    /\ MayPress /\ ~Alerted /\ mouse.mode # "menu" /\ Stacked(d.order, w)
    /\ Only(bring_to_front(d, w), Pressed)

IconTargets ==
    {DESK_DISK, DESK_TRASH, NoTarget}
      \cup UNION {{<<w, i>> : i \in -1..Len(d.win[w].entries) - 1} :
                    w \in {v \in Range(d.order) : d.win[v].kind = "folder"}}

PressIcon(t) ==
    LET front == IF t[1] >= 0 THEN bring_to_front(d, t[1]) ELSE d
        dd == [front EXCEPT !.sel = t]
    IN  /\ MayPress /\ ~Alerted /\ mouse.mode # "menu"
        /\ \/ t[2] < 0 /\ Only(dd, Pressed)
           \/ /\ t[2] >= 0
              /\ Only(dd, [Pressed EXCEPT !.last = t, !.mode = "drag_icon",
                                         !.source = t, !.moved = FALSE])
           \/ /\ t[2] >= 0 /\ mouse.last = t      \* soon enough
              /\ \E o \in open_target(dd, t) :
                   Finish(o, [Pressed EXCEPT !.last = NoClick])

(* the other moves change an outline, or which button is under the mouse *)
Move ==
    /\ quit = "no"
    /\ \/ /\ mouse.mode = "menu"
          /\ \E m \in DOMAIN MenuItems \ {mouse.menu} :
               Only(d, [mouse EXCEPT !.menu = m])
       \/ /\ mouse.mode = "drag_icon"
          /\ Only(d, [mouse EXCEPT !.moved = TRUE, !.last = NoClick])

MayRelease == quit = "no" /\ mouse.held /\ ~Alerted

ReleaseMenu ==
    /\ MayRelease /\ mouse.mode = "menu"
    /\ \/ ~mouse.sticky /\ Only(d, [Released EXCEPT !.sticky = TRUE])
       \/ Only(d, Idle(Released))
       \/ \E i \in MenuItems[mouse.menu] : \E o \in menu_action(i) :
            Finish(o, Idle(Released))

ReleaseCloseBox ==
    /\ MayRelease /\ mouse.mode = "close_box"
    /\ Finish(LeavesBoth(request_close(d, procs, mouse.track)),
              Idle(Released))

ReleaseOnTrash ==
    /\ MayRelease /\ mouse.mode = "drag_icon"
    /\ mouse.moved /\ mouse.source[1] >= 0
    /\ Only(ask_delete([d EXCEPT !.sel = mouse.source]),
            Idle(Released))

(* any other release ends what the mouse did, and no more *)
ReleaseElsewhere ==
    /\ MayRelease /\ mouse.mode # "menu"
    /\ Only(d, Idle(Released))

MayType == quit = "no" /\ (mouse.held => Hasty)
MayTypeOn(kinds) ==
    MayType /\ ~Alerted /\ mouse.mode # "menu" /\ FrontKind(d) \in kinds
AllKinds == {"none", "folder", "text", "calc", "clock", "term"}

KeyAlert ==
    /\ MayType /\ Alerted
    /\ \E ok \in BOOLEAN : \E o \in alert_done(ok) : Finish(o, mouse)

KeyMenu ==
    MayType /\ ~Alerted /\ mouse.mode = "menu" /\ Only(d, Idle(mouse))

KeyCtrlQ == MayTypeOn(AllKinds) /\ Finish(request_quit(d), mouse)

KeyCtrlW ==
    /\ MayTypeOn(AllKinds \ {"none"})
    /\ Finish(LeavesBoth(request_close(d, procs, front_index(d))), mouse)

KeyCtrlO ==
    /\ MayTypeOn(AllKinds)
    /\ \E o \in open_target(d, d.sel) : Finish(o, mouse)

(* kills what the shell runs, or sends it the char *)
KeyCtrlC ==
    /\ MayTypeOn({"term"})
    /\ LET p == d.win[front_index(d)].shell
       IN  procs' = [procs EXCEPT ![p].job = @ /\ ~procs[p].shell]
    /\ UNCHANGED <<d, mouse, disk, quit>>

(* the editor: its keys, and what save_text and quitting do here *)
EditChange ==
    /\ MayTypeOn({"text"})
    /\ Only([d EXCEPT !.win[front_index(d)].modified = ~@], mouse)

EditWrite ==
    LET w == front_index(d)
        dk == disk \cup {d.win[w].path}
        saved == reload_path([d EXCEPT !.win[w].modified = FALSE], dk, "root")
    IN  /\ MayTypeOn({"text"})
        /\ \/ disk' \in {disk, dk} /\ UNCHANGED <<d, mouse, procs, quit>>
           \/ \E dd \in {saved, close_window(saved, w)} :
                Finish([Leaves(dd) EXCEPT !.disk = dk], mouse)

EditQuit ==
    /\ MayTypeOn({"text"}) /\ ~unsaved(d, front_index(d))
    /\ Only(close_window(d, front_index(d)), mouse)

(* :q! *)
EditDiscard ==
    /\ MayTypeOn({"text"}) /\ unsaved(d, front_index(d))
    /\ Only(close_window(d, front_index(d)), mouse)

KeyEnter ==
    /\ MayTypeOn({"none", "folder", "clock"})
    /\ \E o \in open_target(d, d.sel) : Finish(o, mouse)

KeyTyped ==
    /\ MayTypeOn({"none", "folder", "clock"})
    /\ \E o \in run_program(d) : Finish(o, mouse)

(* pending() fails once nobody can write: every such window is closed *)
Deserted ==
    {w \in Slots : d.win[w].used /\ d.win[w].kind = "term"
                     /\ procs[d.win[w].shell] = NoShell}

poll_shells ==
    /\ MayType /\ Deserted # {}
    /\ Only(close_windows(d, [n \in 1..MAX_WINDOWS |-> n - 1], Deserted), mouse)

(* the processes behind the windows *)
ProcStep(p, proc) ==
    procs' = [procs EXCEPT ![p] = proc] /\ UNCHANGED <<d, mouse, disk, quit>>
JobStarts(p) ==
    procs[p].shell /\ ProcStep(p, [shell |-> TRUE, job |-> TRUE])
JobEnds(p) == procs[p].job /\ ProcStep(p, [procs[p] EXCEPT !.job = FALSE])
ShellExits(p) ==
    procs[p].shell /\ ProcStep(p, [procs[p] EXCEPT !.shell = FALSE])
JobWrites(p) ==
    /\ procs[p].job
    /\ disk' \in OtherWrites(disk)
    /\ UNCHANGED <<d, mouse, procs, quit>>

(* the end of main: shells end with their windows *)
Leave ==
    /\ quit = "yes" /\ quit' = "done"
    /\ d' = close_windows(d, d.order, Range(d.order))
    /\ procs' = KilledBy(d, procs, Range(d.order))
    /\ UNCHANGED <<mouse, disk>>

Next ==
    \/ AlertPress \/ AlertRelease
    \/ \E m \in DOMAIN MenuItems : PressMenuBar(m)
    \/ PressOpenMenu
    \/ \E w \in Slots : PressFrame(w) \/ PressInside(w)
    \/ \E t \in IconTargets : PressIcon(t)
    \/ Move
    \/ ReleaseMenu \/ ReleaseCloseBox \/ ReleaseOnTrash \/ ReleaseElsewhere
    \/ KeyAlert \/ KeyMenu \/ KeyCtrlQ \/ KeyCtrlW \/ KeyCtrlO \/ KeyCtrlC
    \/ EditChange \/ EditWrite \/ EditQuit \/ EditDiscard
    \/ KeyEnter \/ KeyTyped
    \/ poll_shells
    \/ \E p \in Shells : JobStarts(p) \/ JobEnds(p) \/ ShellExits(p)
                            \/ JobWrites(p)
    \/ Leave

Spec == Init /\ [][Next]_vars

-----------------------------------------------------------------------------
(* Properties *)

(* The stacking order lists every window in use once and no other: what is *)
(* not in it is neither drawn, nor hit by the mouse, nor closed at the end *)
OrderIsUsed ==
    /\ IsInjective(d.order)
    /\ Range(d.order) = {w \in Slots : d.win[w].used}

(* The descriptors the desktop holds are the two pipe ends of each shell   *)
(* window: open_shell and close_window leave none behind and close none of *)
(* another window                                                          *)
TermWindows == {w \in Slots : d.win[w].used /\ d.win[w].kind = "term"}
DescriptorsMatch ==
    /\ d.fds = UNION {{d.win[w].to, d.win[w].from} : w \in TermWindows}
    /\ Cardinality(d.fds) = 2 * Cardinality(TermWindows)

(* A shell that lives has a window on the desktop, also after a failed     *)
(* start and after quitting: "shells end with their windows"               *)
ShellsHaveWindows ==
    \A p \in Shells : procs[p].shell =>
        \E w \in TermWindows : d.win[w].shell = p

(* "the shell ends with its input, what it runs gets killed" and "shells   *)
(* end with their windows": once the desktop has quit, no shell of a       *)
(* window still runs a program                                             *)
ShellsEnd ==
    quit = "done" => \A p \in Shells : ~(procs[p].shell /\ procs[p].job)

(* The selected icon is one its window shows, whatever was deleted, made,  *)
(* saved or closed since it was clicked                                    *)
SelectionLive ==
    d.sel[1] >= 0 =>
        /\ d.win[d.sel[1]].used /\ d.win[d.sel[1]].kind = "folder"
        /\ d.sel[2] < Len(d.win[d.sel[1]].entries)

(* The mouse does something only while its button is held, except for a    *)
(* menu that stays down; what it tracks is then on the desktop             *)
ModeHeld ==
    mouse.mode # "idle" =>
        /\ mouse.held \/ (mouse.mode = "menu" /\ mouse.sticky)
        /\ mouse.mode \notin {"idle", "menu", "drag_icon"}
              => d.win[mouse.track].used
        /\ mouse.mode = "drag_icon" /\ mouse.source[1] >= 0
              => d.win[mouse.source[1]].used

(* Whatever refers to a window refers to one that is in use: the stacking  *)
(* order (each once), the selection and the mouse (close_window,           *)
(* bring_to_front, load_dir, on_release)                                   *)
WindowsLive == OrderIsUsed /\ SelectionLive /\ ModeHeld

(* Changes to a text are dropped only after the user said so: a window     *)
(* with changes closes through its alert, saved or with :q!; the desktop   *)
(* quits with such a window only through the alert for that                *)
ChangesAsked ==
    [][ /\ \A w \in Slots :
             d.win[w].used /\ unsaved(d, w) /\ ~d'.win[w].used =>
                 \/ EditWrite
                 \/ d.alert.kind = "discard" /\ d.alert.arg = <<w>>
                 \/ EditDiscard /\ w = front_index(d)
                 \/ quit = "yes"
        /\ quit = "no" /\ quit' = "yes" /\ AnyUnsaved(d)
             => d.alert.kind = "quit" ]_vars
=============================================================================
