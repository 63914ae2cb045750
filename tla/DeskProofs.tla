----------------------------- MODULE DeskProofs -----------------------------
(***************************************************************************)
(* Theorems about Desk: what refers to a window refers to one in use, the  *)
(* descriptors are those of the shell windows, no shell is left without a  *)
(* window and no changes are dropped without a question, for every number  *)
(* of windows, shells and descriptors and every folder, of a desktop whose *)
(* keys and clicks do not overlap (~ Hasty).                               *)
(***************************************************************************)
EXTENDS Desk, NumberLemmas, FiniteSetTheorems

USE DeskAssumption

-----------------------------------------------------------------------------
(* The inductive invariant.  What it says of the desktop it says of every  *)
(* desktop dd, so that each operator can be shown to keep it.              *)

WindowKinds == {"none", "folder", "text", "calc", "clock", "term"}
NoPath == Unused.path
WindowPaths == {NoPath, "root", "calc", "clock"} \cup RootNames \cup Shells
Windows ==
    [used : BOOLEAN, kind : WindowKinds, path : WindowPaths,
     entries : Seq(RootNames), modified : BOOLEAN,
     shell : Shells \cup {"none"}, to : Int, from : Int]
Targets == Int \X Int

DeskType(dd) ==
    dd \in [win : [Slots -> Windows], order : Seq(Slots), sel : Targets,
            alert : {dd.alert}, fds : SUBSET (1..MAX_FDS)]

(* the windows in use are stacked, each once *)
StackedOnce(dd) ==
    /\ \A i, j \in DOMAIN dd.order : dd.order[i] = dd.order[j] => i = j
    /\ \A i \in DOMAIN dd.order : dd.win[dd.order[i]].used
    /\ \A w \in Slots : dd.win[w].used => Stacked(dd.order, w)

TermsOf(dd) == {w \in Slots : dd.win[w].used /\ dd.win[w].kind = "term"}
EndsOf(dd, w) == {dd.win[w].to, dd.win[w].from}

(* each shell window has two descriptors of its own, and there are no more *)
OwnEnds(dd) ==
    /\ \A w \in TermsOf(dd) : /\ dd.win[w].path = dd.win[w].shell
                              /\ dd.win[w].to # dd.win[w].from
                              /\ EndsOf(dd, w) \subseteq dd.fds
    /\ \A v, w \in TermsOf(dd) : v # w => EndsOf(dd, v) \cap EndsOf(dd, w) = {}
    /\ \A f \in dd.fds : \E w \in TermsOf(dd) : f \in EndsOf(dd, w)

(* t is nothing in a window, or an item that its window shows *)
Shown(dd, t) ==
    t[1] >= 0 =>
        /\ t[1] \in Slots
        /\ dd.win[t[1]].used /\ dd.win[t[1]].kind = "folder"
        /\ t[2] < Len(dd.win[t[1]].entries)

Sound(dd) ==
    DeskType(dd) /\ StackedOnce(dd) /\ OwnEnds(dd) /\ Shown(dd, dd.sel)

AlertKinds == {"none", "info", "discard", "quit", "delete"}

(* an alert about changes is about a text window *)
AlertSound(dd) ==
    /\ DOMAIN dd.alert = {"kind", "arg", "pressed"}
    /\ dd.alert.kind \in AlertKinds
    /\ dd.alert.kind = "discard" =>
         \E w \in Slots : /\ dd.alert.arg = <<w>>
                          /\ dd.win[w].used /\ dd.win[w].kind = "text"

Housed(dd, pr) ==
    \A p \in Shells : pr[p].shell => \E w \in TermsOf(dd) : dd.win[w].shell = p

Procs == [Shells -> [shell : BOOLEAN, job : BOOLEAN]]
Modes == {"idle", "menu", "drag_icon", "drag_window", "close_box",
          "grow_window", "calc_key"}

Mice ==
    [mode : Modes, track : Int, source : Targets, moved : BOOLEAN,
     held : BOOLEAN, sticky : BOOLEAN, menu : DOMAIN MenuItems \cup {"none"},
     last : Targets]

(* what the mouse does, it does with its button held and to what is there *)
Holding(m, dd) ==
    /\ m.mode # "idle" =>
         /\ m.held \/ (m.mode = "menu" /\ m.sticky)
         /\ dd.alert.kind = "none"
    /\ m.mode \notin {"idle", "menu", "drag_icon"} =>
         m.track \in Slots /\ dd.win[m.track].used
    /\ m.mode = "drag_icon" => Shown(dd, m.source)

DeskInv ==
    /\ Sound(d) /\ AlertSound(d)
    /\ procs \in Procs /\ Housed(d, procs)
    /\ mouse \in Mice /\ Holding(mouse, d)
    /\ quit # "no" => mouse.mode = "idle" /\ ~ Alerted

-----------------------------------------------------------------------------
(* Listings *)

(* The names of a folder are names. *)
LEMMA ListingType ==
    ASSUME NEW dk, NEW path
    PROVE  Listing(dk, path) \in Seq(RootNames)
<1>. DEFINE N == Len(Names)
            and(es, n) == IF n \in dk THEN Append(es, n) ELSE es
            Is(g, m) == g = [n \in 0 .. m |->
                               IF n = 0 THEN <<>> ELSE and(g[n - 1], Names[n])]
            S == {m \in 0 .. N : \E g : Is(g, m)}
            upto == CHOOSE g : Is(g, N)
<1>1. N \in Nat /\ \A n \in 1 .. N : Names[n] \in RootNames
  BY DEF RootNames, Range
<1>2. 0 \in S
  <2>. DEFINE g == [n \in 0 .. 0 |-> <<>>]
  <2>1. Is(g, 0)
    OBVIOUS
  <2>. HIDE DEF Is
  <2>. QED
    BY <1>1, <2>1
<1>3. ASSUME NEW m \in 1 .. N, m - 1 \in S PROVE m \in S
  <2>. HIDE DEF and
  <2>1. PICK g : Is(g, m - 1)
    BY <1>3
  <2>. DEFINE h == [n \in 0 .. m |-> IF n < m THEN g[n]
                                     ELSE and(g[m - 1], Names[m])]
  <2>2. ASSUME NEW n \in 0 .. m
        PROVE  h[n] = IF n = 0 THEN <<>> ELSE and(h[n - 1], Names[n])
    <3>1. CASE n < m
      <4>1. h[n] = g[n] /\ (n > 0 => h[n - 1] = g[n - 1]) /\ n \in 0 .. m - 1
        BY <1>3, <3>1
      <4>. QED
        BY <2>1, <4>1
    <3>2. CASE n = m
      BY <1>3, <2>1, <3>2
    <3>. QED
      BY <3>1, <3>2
  <2>3. Is(h, m)
    BY <2>2, Zenon
  <2>. HIDE DEF Is, h
  <2>. QED
    BY <1>1, <1>3, <2>3
<1>4. Is(upto, N)
  <2>. HIDE DEF Is
  <2>1. 0 .. N \subseteq S
    BY <1>1, <1>2, <1>3, UpTo
  <2>. QED
    BY <1>1, <2>1
<1>5. upto[N] \in Seq(RootNames)
  <2>. DEFINE T == {n \in 0 .. N : upto[n] \in Seq(RootNames)}
  <2>. HIDE DEF upto
  <2>1. 0 \in T
    BY <1>1, <1>4
  <2>2. ASSUME NEW n \in 1 .. N, n - 1 \in T PROVE n \in T
    <3>1. upto[n - 1] \in Seq(RootNames) /\ Names[n] \in RootNames /\ n > 0
      BY <1>1, <2>2
    <3>2. and(upto[n - 1], Names[n]) \in Seq(RootNames)
      BY <3>1
    <3>3. upto[n] = and(upto[n - 1], Names[n])
      <4>. HIDE DEF and
      <4>. QED
        BY <1>1, <1>4, <3>1
    <3>. HIDE DEF and
    <3>. QED
      BY <1>1, <3>2, <3>3
  <2>3. 0 .. N \subseteq T
    <3>. HIDE DEF T
    <3>. QED
      BY <1>1, <2>1, <2>2, UpTo
  <2>. QED
    BY <1>1, <2>3
<1>6. Listing(dk, path) = IF path = "root" THEN upto[N] ELSE <<>>
  BY DEF Listing
<1>. HIDE DEF upto
<1>. QED
  BY <1>5, <1>6

-----------------------------------------------------------------------------
(* The stack of windows *)

Once(order) == \A i, j \in DOMAIN order : order[i] = order[j] => i = j

(* A function of the first numbers is a sequence. *)
LEMMA FunctionIsSeq ==
    ASSUME NEW S, NEW n \in Nat, NEW f \in [1 .. n -> S]
    PROVE  f \in Seq(S) /\ Len(f) = n
OBVIOUS

(* Unstack takes out w and nothing else. *)
LEMMA Unstacked ==
    ASSUME NEW order \in Seq(Slots), Once(order), NEW w \in Slots,
           Stacked(order, w)
    PROVE  /\ Unstack(order, w) \in Seq(Slots)
           /\ Once(Unstack(order, w))
           /\ \A v \in Slots : Stacked(Unstack(order, w), v)
                                 <=> v # w /\ Stacked(order, v)
<1>. DEFINE places == {i \in DOMAIN order : order[i] = w} \cup {Len(order) + 1}
            p == Min(places)
            u == Unstack(order, w)
<1>1. Len(order) \in Nat /\ DOMAIN order = 1 .. Len(order)
  OBVIOUS
<1>2. p \in 1 .. Len(order) /\ order[p] = w
  <2>1. places \in SUBSET Nat /\ places # {}
    BY <1>1
  <2>2. p \in places /\ \A y \in places : p <= y
    <3>. HIDE DEF places
    <3>. QED
      BY <2>1, MinIn
  <2>3. PICK i \in DOMAIN order : order[i] = w
    BY DEF Stacked
  <2>4. p <= i
    BY <2>2, <2>3
  <2>. QED
    BY <1>1, <2>2, <2>4
<1>3. u = [i \in 1 .. Len(order) - 1 |-> order[IF i < p THEN i ELSE i + 1]]
  BY DEF Unstack
<1>. HIDE DEF p, u
<1>4. u \in Seq(Slots) /\ Len(u) = Len(order) - 1
  <2>1. u \in [1 .. Len(order) - 1 -> Slots]
    BY <1>1, <1>2, <1>3
  <2>2. Len(order) - 1 \in Nat
    BY <1>1, <1>2
  <2>. QED
    BY <2>1, <2>2, FunctionIsSeq
<1>5. DOMAIN u = 1 .. Len(order) - 1
  BY <1>3
<1>6. ASSUME NEW i \in DOMAIN u, NEW j \in DOMAIN u, u[i] = u[j] PROVE i = j
  <2>. DEFINE at(k) == IF k < p THEN k ELSE k + 1
  <2>1. at(i) \in DOMAIN order /\ at(j) \in DOMAIN order
    BY <1>1, <1>2, <1>5, <1>6
  <2>2. order[at(i)] = order[at(j)]
    BY <1>3, <1>5, <1>6
  <2>3. at(i) = at(j)
    BY <2>1, <2>2 DEF Once
  <2>. QED
    BY <1>1, <1>2, <1>5, <1>6, <2>3
<1>7. ASSUME NEW v \in Slots, Stacked(u, v) PROVE v # w /\ Stacked(order, v)
  <2>1. PICK i \in DOMAIN u : u[i] = v
    BY <1>7 DEF Stacked
  <2>. DEFINE j == IF i < p THEN i ELSE i + 1
  <2>2. j \in DOMAIN order /\ order[j] = v /\ j # p
    BY <1>1, <1>2, <1>3, <1>5, <2>1
  <2>. QED
    BY <1>1, <1>2, <2>2 DEF Once, Stacked
<1>8. ASSUME NEW v \in Slots, v # w, Stacked(order, v) PROVE Stacked(u, v)
  <2>1. PICK j \in DOMAIN order : order[j] = v
    BY <1>8 DEF Stacked
  <2>. DEFINE i == IF j < p THEN j ELSE j - 1
  <2>2. i \in DOMAIN u /\ u[i] = v
    BY <1>1, <1>2, <1>3, <1>5, <1>8, <2>1
  <2>. QED
    BY <2>2 DEF Stacked
<1>. QED
  BY <1>4, <1>6, <1>7, <1>8 DEF u, Once

(* A window put on top is stacked once. *)
LEMMA Pushed ==
    ASSUME NEW order \in Seq(Slots), Once(order), NEW w \in Slots,
           ~ Stacked(order, w)
    PROVE  /\ Append(order, w) \in Seq(Slots)
           /\ Once(Append(order, w))
           /\ \A v \in Slots : Stacked(Append(order, w), v)
                                 <=> v = w \/ Stacked(order, v)
<1>. DEFINE n == Len(order) + 1   o == Append(order, w)
<1>1. /\ o \in Seq(Slots) /\ n \in Nat \ {0} /\ DOMAIN order = 1 .. n - 1
      /\ DOMAIN o = 1 .. n /\ o[n] = w
      /\ \A i \in 1 .. n - 1 : o[i] = order[i]
  OBVIOUS
<1>. HIDE DEF o, n
<1>2. \A i \in 1 .. n - 1 : order[i] # w
  BY <1>1 DEF Stacked
<1>3. \A i \in 1 .. n : i = n \/ i \in 1 .. n - 1
  BY <1>1
<1>4. Once(o)
  BY <1>1, <1>2, <1>3 DEF Once
<1>5. ASSUME NEW v \in Slots
      PROVE  Stacked(o, v) <=> v = w \/ Stacked(order, v)
  <2>1. Stacked(order, v) <=> \E i \in 1 .. n - 1 : order[i] = v
    BY <1>1 DEF Stacked
  <2>2. Stacked(o, v) <=> \E i \in 1 .. n : o[i] = v
    BY <1>1 DEF Stacked
  <2>3. n \in 1 .. n /\ \A i \in 1 .. n - 1 : i \in 1 .. n
    BY <1>1
  <2>. QED
    BY <1>1, <1>3, <2>1, <2>2, <2>3, Zenon
<1>. QED
  BY <1>1, <1>4, <1>5 DEF o

(* What StackedOnce says of the windows that are stacked *)
LEMMA StackedUsed ==
    ASSUME NEW dd, DeskType(dd)
    PROVE  StackedOnce(dd) <=> /\ Once(dd.order)
                               /\ \A w \in Slots : dd.win[w].used
                                                     <=> Stacked(dd.order, w)
<1>1. dd.order \in Seq(Slots)
  BY DEF DeskType
<1>2. \A i \in DOMAIN dd.order : dd.order[i] \in Slots
  BY <1>1
<1>3. \A w \in Slots : dd.win[w].used \in BOOLEAN
  BY DEF DeskType, Windows
<1>. QED
  BY <1>2, <1>3 DEF StackedOnce, Once, Stacked

(* The front window is in use. *)
LEMMA FrontUsed ==
    ASSUME NEW dd, DeskType(dd), StackedOnce(dd), dd.order # <<>>
    PROVE  /\ front_index(dd) \in Slots /\ dd.win[front_index(dd)].used
           /\ FrontKind(dd) = dd.win[front_index(dd)].kind
<1>1. Len(dd.order) \in DOMAIN dd.order
  BY DEF DeskType
<1>2. front_index(dd) = dd.order[Len(dd.order)]
  BY DEF front_index, Last
<1>. QED
  BY <1>1, <1>2 DEF DeskType, StackedOnce, FrontKind, front_index, Last

-----------------------------------------------------------------------------
(* Operators on windows *)

(* Desktops with the same windows and descriptors *)
LEMMA SameWindows ==
    ASSUME NEW dd, NEW new, new.win = dd.win, new.fds = dd.fds
    PROVE  /\ OwnEnds(dd) => OwnEnds(new)
           /\ TermsOf(new) = TermsOf(dd)
           /\ \A t : Shown(dd, t) => Shown(new, t)
           /\ \A pr : Housed(dd, pr) => Housed(new, pr)
<1>1. TermsOf(new) = TermsOf(dd) /\ \A w : EndsOf(new, w) = EndsOf(dd, w)
  BY DEF TermsOf, EndsOf
<1>2. OwnEnds(dd) => OwnEnds(new)
  BY <1>1 DEF OwnEnds
<1>3. \A t : Shown(dd, t) => Shown(new, t)
  BY DEF Shown
<1>4. \A pr : Housed(dd, pr) => Housed(new, pr)
  BY <1>1 DEF Housed
<1>. QED
  BY <1>1, <1>2, <1>3, <1>4

(* bring_to_front moves a window in the stack. *)
LEMMA BroughtToFront ==
    ASSUME NEW dd, Sound(dd), NEW w \in Slots, dd.win[w].used
    PROVE  LET new == bring_to_front(dd, w)
           IN  /\ Sound(new) /\ new.win = dd.win /\ new.alert = dd.alert
               /\ new.sel = dd.sel /\ new.fds = dd.fds
<1>. DEFINE new == bring_to_front(dd, w)   u == Unstack(dd.order, w)
<1>1. DeskType(dd) /\ dd.order \in Seq(Slots)
  BY DEF Sound, DeskType
<1>2. Once(dd.order) /\ \A v \in Slots : dd.win[v].used <=> Stacked(dd.order, v)
  BY <1>1, StackedUsed DEF Sound
<1>3. /\ u \in Seq(Slots) /\ Once(u)
      /\ \A v \in Slots : Stacked(u, v) <=> v # w /\ Stacked(dd.order, v)
  BY <1>1, <1>2, Unstacked
<1>. HIDE DEF u
<1>4. /\ Append(u, w) \in Seq(Slots) /\ Once(Append(u, w))
      /\ \A v \in Slots : Stacked(Append(u, w), v) <=> v = w \/ Stacked(u, v)
  BY <1>3, Pushed
<1>5. /\ new.win = dd.win /\ new.alert = dd.alert /\ new.sel = dd.sel
      /\ new.fds = dd.fds /\ new.order = Append(u, w)
  BY <1>1 DEF bring_to_front, DeskType, u
<1>6. DeskType(new)
  BY <1>1, <1>4 DEF bring_to_front, DeskType, u
<1>. HIDE DEF new
<1>7. StackedOnce(new)
  <2>1. ASSUME NEW v \in Slots
        PROVE  new.win[v].used <=> Stacked(new.order, v)
    BY <1>2, <1>3, <1>4, <1>5
  <2>2. Once(new.order)
    BY <1>4, <1>5
  <2>. QED
    BY <1>6, <2>1, <2>2, StackedUsed, Zenon
<1>8. OwnEnds(new) /\ Shown(new, new.sel)
  BY <1>5, SameWindows DEF Sound
<1>. QED
  BY <1>5, <1>6, <1>7, <1>8 DEF Sound, new

(* An alert changes nothing else. *)
WithAlert(dd, a) == [dd EXCEPT !.alert = a]

LEMMA AlertShown ==
    ASSUME NEW dd, Sound(dd), NEW a
    PROVE  LET new == WithAlert(dd, a)
           IN  /\ Sound(new) /\ new.win = dd.win /\ new.alert = a
               /\ new.sel = dd.sel /\ new.fds = dd.fds /\ new.order = dd.order
<1>. DEFINE new == WithAlert(dd, a)
<1>1. /\ new.win = dd.win /\ new.alert = a /\ new.sel = dd.sel
      /\ new.fds = dd.fds /\ new.order = dd.order /\ DeskType(new)
  BY DEF Sound, DeskType, WithAlert
<1>. HIDE DEF new
<1>2. OwnEnds(new) /\ Shown(new, new.sel) /\ StackedOnce(new)
  BY <1>1, SameWindows DEF Sound, StackedOnce
<1>. QED
  BY <1>1, <1>2 DEF Sound, new

(* A selection of what a window shows *)
LEMMA Selected ==
    ASSUME NEW dd, Sound(dd), NEW t \in Targets, Shown(dd, t)
    PROVE  LET new == [dd EXCEPT !.sel = t]
           IN  /\ Sound(new) /\ new.win = dd.win /\ new.alert = dd.alert
               /\ new.sel = t /\ new.fds = dd.fds /\ new.order = dd.order
<1>. DEFINE new == [dd EXCEPT !.sel = t]
<1>1. /\ new.win = dd.win /\ new.alert = dd.alert /\ new.sel = t
      /\ new.fds = dd.fds /\ new.order = dd.order /\ DeskType(new)
  BY DEF Sound, DeskType
<1>. HIDE DEF new
<1>2. OwnEnds(new) /\ Shown(new, new.sel) /\ StackedOnce(new)
  BY <1>1, SameWindows DEF Sound, StackedOnce
<1>. QED
  BY <1>1, <1>2 DEF Sound, new

(* What windows are in a changed listing or a changed text *)
SameUse(win, new) ==
    \A w \in Slots : /\ new[w].used = win[w].used /\ new[w].kind = win[w].kind
                     /\ new[w].path = win[w].path /\ new[w].to = win[w].to
                     /\ new[w].from = win[w].from /\ new[w].shell = win[w].shell

(* Windows whose use does not change *)
LEMMA Relisted ==
    ASSUME NEW dd, NEW new, Sound(dd), DeskType(new),
           new.order = dd.order, new.fds = dd.fds, SameUse(dd.win, new.win),
           Shown(new, new.sel)
    PROVE  /\ Sound(new)
           /\ TermsOf(new) = TermsOf(dd)
           /\ \A pr : Housed(dd, pr) => Housed(new, pr)
           /\ AlertSound(dd) /\ new.alert = dd.alert => AlertSound(new)
<1>1. /\ TermsOf(new) = TermsOf(dd)
      /\ \A w \in Slots : EndsOf(new, w) = EndsOf(dd, w)
      /\ TermsOf(dd) \subseteq Slots
  BY DEF TermsOf, EndsOf, SameUse
<1>2. OwnEnds(new)
  BY <1>1 DEF OwnEnds, Sound, SameUse
<1>3. StackedOnce(new)
  BY StackedUsed DEF Sound, SameUse
<1>4. \A pr : Housed(dd, pr) => Housed(new, pr)
  BY <1>1 DEF Housed, SameUse
<1>5. AlertSound(dd) /\ new.alert = dd.alert => AlertSound(new)
  BY DEF AlertSound, SameUse
<1>. QED
  BY <1>1, <1>2, <1>3, <1>4, <1>5 DEF Sound

(* The operator from dd to new leaves the desktop in order. *)
Keeps(dd, new) ==
    /\ Sound(new)
    /\ AlertSound(dd) => AlertSound(new)
    /\ \A pr : Housed(dd, pr) => Housed(new, pr)
    /\ \A w \in Slots : dd.win[w].used => new.win[w].used

LEMMA KeepsOrder ==
    /\ \A dd : Sound(dd) => Keeps(dd, dd)
    /\ \A x, y, z : Keeps(x, y) /\ Keeps(y, z) => Keeps(x, z)
BY Zenon DEF Keeps

(* bring_to_front leaves the desktop in order. *)
LEMMA FrontKeeps ==
    ASSUME NEW dd, Sound(dd), NEW w \in Slots, dd.win[w].used
    PROVE  Keeps(dd, bring_to_front(dd, w))
<1>. DEFINE new == bring_to_front(dd, w)
<1>1. /\ Sound(new) /\ new.win = dd.win /\ new.alert = dd.alert
      /\ new.sel = dd.sel /\ new.fds = dd.fds
  BY BroughtToFront
<1>. HIDE DEF new
<1>2. AlertSound(dd) => AlertSound(new)
  BY <1>1 DEF AlertSound
<1>3. \A pr : Housed(dd, pr) => Housed(new, pr)
  BY <1>1, SameWindows
<1>. QED
  BY <1>1, <1>2, <1>3 DEF Keeps, new

(* An alert that is not about changes leaves the desktop in order. *)
LEMMA AlertKeeps ==
    ASSUME NEW dd, Sound(dd), NEW a, DOMAIN a = {"kind", "arg", "pressed"},
           a.kind \in AlertKinds,
           a.kind = "discard" =>
             \E w \in Slots : a.arg = <<w>> /\ dd.win[w].used
                              /\ dd.win[w].kind = "text"
    PROVE  Keeps(dd, WithAlert(dd, a)) /\ AlertSound(WithAlert(dd, a))
<1>. DEFINE new == WithAlert(dd, a)
<1>1. /\ Sound(new) /\ new.win = dd.win /\ new.alert = a
      /\ new.sel = dd.sel /\ new.fds = dd.fds
  BY AlertShown
<1>. HIDE DEF new
<1>2. AlertSound(new)
  BY <1>1 DEF AlertSound
<1>3. \A pr : Housed(dd, pr) => Housed(new, pr)
  BY <1>1, SameWindows
<1>. QED
  BY <1>1, <1>2, <1>3 DEF Keeps, new

(* show_alert of an alert that is not about changes *)
LEMMA ShowAlertKeeps ==
    ASSUME NEW dd, Sound(dd), NEW kind \in AlertKinds \ {"discard"}, NEW arg
    PROVE  /\ Keeps(dd, show_alert(dd, kind, arg))
           /\ AlertSound(show_alert(dd, kind, arg))
<1>. DEFINE a == [kind |-> kind, arg |-> arg, pressed |-> -1]
<1>1. DOMAIN a = {"kind", "arg", "pressed"} /\ a.kind = kind
  OBVIOUS
<1>. HIDE DEF a
<1>2. Keeps(dd, WithAlert(dd, a)) /\ AlertSound(WithAlert(dd, a))
  BY <1>1, AlertKeeps
<1>. QED
  BY <1>2, Zenon DEF a, show_alert, WithAlert

(* A new selection leaves the desktop in order. *)
LEMMA SelectKeeps ==
    ASSUME NEW dd, Sound(dd), NEW t \in Targets, Shown(dd, t)
    PROVE  Keeps(dd, [dd EXCEPT !.sel = t])
<1>. DEFINE new == [dd EXCEPT !.sel = t]
<1>1. /\ Sound(new) /\ new.win = dd.win /\ new.alert = dd.alert
      /\ new.fds = dd.fds
  BY Selected
<1>. HIDE DEF new
<1>2. AlertSound(dd) => AlertSound(new)
  BY <1>1 DEF AlertSound
<1>3. \A pr : Housed(dd, pr) => Housed(new, pr)
  BY <1>1, SameWindows
<1>. QED
  BY <1>1, <1>2, <1>3 DEF Keeps, new

(* reload_path leaves the desktop in order. *)
LEMMA ReloadKeeps ==
    ASSUME NEW dd, Sound(dd), NEW dk, NEW path
    PROVE  LET new == reload_path(dd, dk, path)
           IN  /\ Keeps(dd, new) /\ new.alert = dd.alert
               /\ new.order = dd.order /\ SameUse(dd.win, new.win)
<1>. DEFINE new == reload_path(dd, dk, path)
            es == Listing(dk, path)
<1>1. es \in Seq(RootNames)
  BY ListingType
<1>. HIDE DEF es
<1>2. DeskType(dd)
  BY DEF Sound
<1>3. /\ new.order = dd.order /\ new.fds = dd.fds /\ new.alert = dd.alert
      /\ new.win = [w \in Slots |-> IF Shows(dd, w, path)
                                    THEN [dd.win[w] EXCEPT !.entries = es]
                                    ELSE dd.win[w]]
      /\ new.sel = IF dd.sel[1] >= 0 /\ dd.win[dd.sel[1]].used
                      /\ dd.win[dd.sel[1]].path = path
                   THEN <<dd.sel[1], -1>> ELSE dd.sel
  BY <1>2 DEF reload_path, DeskType, es
<1>4. /\ dd.win \in [Slots -> Windows] /\ dd.sel \in Targets
      /\ dd.order \in Seq(Slots) /\ dd.fds \in SUBSET (1..MAX_FDS)
  BY <1>2 DEF DeskType
<1>5. \A w \in Slots : [dd.win[w] EXCEPT !.entries = es] \in Windows
  BY <1>1, <1>4 DEF Windows
<1>6. new.win \in [Slots -> Windows]
  BY <1>3, <1>4, <1>5
<1>7. new.sel \in Targets
  BY <1>3, <1>4 DEF Targets
<1>8. \E win, sel : new = [dd EXCEPT !.win = win, !.sel = sel]
  BY DEF reload_path
<1>. HIDE DEF new
<1>9. DeskType(new)
  BY <1>2, <1>3, <1>4, <1>6, <1>7, <1>8 DEF DeskType
<1>10. SameUse(dd.win, new.win)
  BY <1>3, <1>4 DEF SameUse, Windows
<1>11. Shown(new, new.sel)
  <2>1. SUFFICES ASSUME new.sel[1] >= 0
                 PROVE  /\ new.sel[1] \in Slots
                        /\ new.win[new.sel[1]].used
                        /\ new.win[new.sel[1]].kind = "folder"
                        /\ new.sel[2] < Len(new.win[new.sel[1]].entries)
    BY DEF Shown
  <2>2. dd.sel[1] = new.sel[1] /\ Shown(dd, dd.sel)
    BY <1>3 DEF Sound
  <2>. DEFINE w == dd.sel[1]
  <2>3. /\ w \in Slots /\ dd.win[w].used /\ dd.win[w].kind = "folder"
        /\ dd.sel[2] < Len(dd.win[w].entries)
    BY <2>1, <2>2 DEF Shown
  <2>4. new.win[w].used /\ new.win[w].kind = "folder"
    BY <1>10, <2>3 DEF SameUse
  <2>5. CASE dd.win[w].path = path
    <3>1. new.win[w].entries = es /\ new.sel[2] = -1
      BY <1>2, <1>3, <1>4, <2>1, <2>2, <2>3, <2>5 DEF Shows, Windows
    <3>2. Len(es) \in Nat
      BY <1>1
    <3>. QED
      BY <2>2, <2>3, <2>4, <3>1, <3>2
  <2>6. CASE dd.win[w].path # path
    <3>1. new.win[w] = dd.win[w] /\ new.sel = dd.sel
      BY <1>3, <2>3, <2>6 DEF Shows
    <3>. QED
      BY <2>2, <2>3, <3>1
  <2>. QED
    BY <2>5, <2>6
<1>12. Keeps(dd, new)
  BY <1>3, <1>9, <1>10, <1>11, Relisted DEF Keeps, SameUse
<1>. QED
  BY <1>3, <1>10, <1>12 DEF new

-----------------------------------------------------------------------------
(* New windows *)

(* What is in a slot that was never used *)
LEMMA UnusedWindow == Unused \in Windows /\ ~ Unused.used
<1>1. ASSUME NEW es \in Seq(RootNames)
      PROVE  [used |-> FALSE, kind |-> "none", path |-> NoPath, entries |-> es,
              modified |-> FALSE, shell |-> "none", to |-> 0, from |-> 0]
               \in Windows
  BY DEF Windows, WindowKinds, WindowPaths
<1>2. <<>> \in Seq(RootNames)
  OBVIOUS
<1>3. Unused \in Windows
  BY <1>1, <1>2, Zenon DEF Unused, NoPath
<1>4. ~ Unused.used
  BY DEF Unused
<1>. QED
  BY <1>3, <1>4

(* The slot of a new window is free. *)
LEMMA SlotIsFree ==
    ASSUME NEW dd, DeskType(dd), NEW kind, NEW path,
           SlotFor(dd, kind, path) >= 0
    PROVE  SlotFor(dd, kind, path) \in Slots
           /\ ~ dd.win[SlotFor(dd, kind, path)].used
<1>1. FreeSlots(dd) \in SUBSET Nat
  BY DEF FreeSlots, Slots
<1>2. FreeSlots(dd) # {} /\ SlotFor(dd, kind, path) = Min(FreeSlots(dd))
  BY DEF SlotFor
<1>3. Min(FreeSlots(dd)) \in FreeSlots(dd)
  BY <1>1, <1>2, MinIn
<1>. QED
  BY <1>2, <1>3 DEF FreeSlots

(* The window that already shows what is asked for is in use. *)
LEMMA FoundIsUsed ==
    ASSUME NEW dd, NEW kind, NEW path, find_window(dd, kind, path) # {}
    PROVE  Min(find_window(dd, kind, path)) \in Slots
           /\ dd.win[Min(find_window(dd, kind, path))].used
<1>1. find_window(dd, kind, path) \in SUBSET Nat
  BY DEF find_window, Slots
<1>2. Min(find_window(dd, kind, path)) \in find_window(dd, kind, path)
  BY <1>1, MinIn
<1>. QED
  BY <1>2 DEF find_window

(* A window in a free slot, on top of the others *)
LEMMA Added ==
    ASSUME NEW dd, Sound(dd), NEW w \in Slots, ~ dd.win[w].used,
           NEW x \in Windows, x.used, NEW new, DeskType(new),
           new.win = [dd.win EXCEPT ![w] = x],
           new.order = Append(dd.order, w), new.sel = dd.sel,
           new.alert = dd.alert, OwnEnds(new)
    PROVE  /\ Keeps(dd, new)
           /\ TermsOf(new) = TermsOf(dd)
                \cup (IF x.kind = "term" THEN {w} ELSE {})
<1>1. /\ DeskType(dd) /\ dd.order \in Seq(Slots) /\ dd.win \in [Slots -> Windows]
  BY DEF Sound, DeskType
<1>2. /\ Once(dd.order)
      /\ \A v \in Slots : dd.win[v].used <=> Stacked(dd.order, v)
  BY <1>1, StackedUsed DEF Sound
<1>3. /\ Once(new.order)
      /\ \A v \in Slots : Stacked(new.order, v) <=> v = w \/ Stacked(dd.order, v)
  BY <1>1, <1>2, Pushed
<1>4. new.win[w] = x /\ \A v \in Slots : v # w => new.win[v] = dd.win[v]
  BY <1>1
<1>5. ASSUME NEW v \in Slots PROVE new.win[v].used <=> Stacked(new.order, v)
  BY <1>2, <1>3, <1>4
<1>6. StackedOnce(new)
  BY <1>3, <1>5, StackedUsed, Zenon
<1>7. Shown(new, new.sel)
  BY <1>4 DEF Sound, Shown
<1>8. Sound(new)
  BY <1>6, <1>7 DEF Sound
<1>9. TermsOf(new) = TermsOf(dd) \cup (IF x.kind = "term" THEN {w} ELSE {})
  BY <1>4 DEF TermsOf
<1>10. \A pr : Housed(dd, pr) => Housed(new, pr)
  BY <1>4, <1>9 DEF Housed, TermsOf
<1>11. AlertSound(dd) => AlertSound(new)
  BY <1>4 DEF AlertSound
<1>12. \A v \in Slots : dd.win[v].used => new.win[v].used
  BY <1>4
<1>. QED
  BY <1>8, <1>9, <1>10, <1>11, <1>12 DEF Keeps

(* new_window of anything but a shell window *)
LEMMA NewWindowKeeps ==
    ASSUME NEW dd, Sound(dd), NEW kind \in WindowKinds \ {"term"},
           NEW path \in WindowPaths
    PROVE  LET new == new_window(dd, kind, path)
               w == SlotFor(dd, kind, path)
           IN  /\ Keeps(dd, new)
               /\ w >= 0 => /\ w \in Slots /\ ~ dd.win[w].used
                            /\ new.win[w].used /\ new.win[w].kind = kind
                            /\ new.sel = dd.sel
<1>. DEFINE new == new_window(dd, kind, path)
            w == SlotFor(dd, kind, path)
            x == [Unused EXCEPT !.used = TRUE, !.kind = kind, !.path = path]
<1>1. CASE find_window(dd, kind, path) # {}
  <2>1. ~ (w >= 0)
    BY <1>1 DEF SlotFor
  <2>2. new = bring_to_front(dd, Min(find_window(dd, kind, path)))
    BY <1>1, <2>1 DEF new_window
  <2>. QED
    BY <1>1, <2>1, <2>2, FoundIsUsed, FrontKeeps
<1>2. CASE find_window(dd, kind, path) = {} /\ w >= 0
  <2>1. w \in Slots /\ ~ dd.win[w].used /\ DeskType(dd)
    BY <1>2, SlotIsFree DEF Sound
  <2>2. new = [dd EXCEPT !.win[w] = x, !.order = Append(@, w)]
    BY <1>2 DEF new_window
  <2>3. x \in Windows /\ x.used /\ x.kind = kind
    <3>1. Unused \in Windows
      BY UnusedWindow
    <3>2. TRUE \in BOOLEAN /\ kind \in WindowKinds /\ path \in WindowPaths
      OBVIOUS
    <3>. QED
      BY <3>1, <3>2 DEF Windows
  <2>. HIDE DEF w, x
  <2>4. /\ new.win = [dd.win EXCEPT ![w] = x] /\ new.fds = dd.fds
        /\ new.order = Append(dd.order, w) /\ new.sel = dd.sel
        /\ new.alert = dd.alert
    BY <2>1, <2>2 DEF DeskType
  <2>5. DeskType(new)
    <3>1. [dd.win EXCEPT ![w] = x] \in [Slots -> Windows]
      BY <2>1, <2>3 DEF DeskType
    <3>2. Append(dd.order, w) \in Seq(Slots)
      BY <2>1 DEF DeskType
    <3>3. \E win, order : new = [dd EXCEPT !.win = win, !.order = order]
      BY <2>2
    <3>. QED
      BY <2>1, <2>4, <3>1, <3>2, <3>3 DEF DeskType
  <2>. HIDE DEF new
  <2>6. new.win[w] = x /\ \A v \in Slots : v # w => new.win[v] = dd.win[v]
    BY <2>1, <2>4 DEF DeskType
  <2>7. TermsOf(new) = TermsOf(dd)
    BY <2>1, <2>3, <2>6 DEF TermsOf
  <2>8. \A v \in TermsOf(dd) : EndsOf(new, v) = EndsOf(dd, v)
                               /\ new.win[v] = dd.win[v]
    BY <2>1, <2>6 DEF TermsOf, EndsOf
  <2>9. OwnEnds(new)
    BY <2>4, <2>7, <2>8 DEF OwnEnds, Sound
  <2>10. Keeps(dd, new)
    BY <2>1, <2>3, <2>4, <2>5, <2>9, Added
  <2>. QED
    BY <2>1, <2>3, <2>4, <2>6, <2>10 DEF new, w
<1>3. CASE find_window(dd, kind, path) = {} /\ ~ (w >= 0)
  <2>1. new = dd
    BY <1>3 DEF new_window
  <2>. QED
    BY <1>3, <2>1, KeepsOrder
<1>. QED
  BY <1>1, <1>2, <1>3

(* open_folder leaves the desktop in order. *)
LEMMA OpenFolderKeeps ==
    ASSUME NEW dd, Sound(dd), NEW dk, NEW path \in {"root"} \cup RootNames
    PROVE  Keeps(dd, open_folder(dd, dk, path))
<1>. DEFINE opened == new_window(dd, "folder", path)
            w == SlotFor(dd, "folder", path)
            es == Listing(dk, opened.win[w].path)
            new == load_folder(opened, dk, w)
<1>1. /\ Keeps(dd, opened)
      /\ w >= 0 => /\ w \in Slots /\ ~ dd.win[w].used
                   /\ opened.win[w].used /\ opened.win[w].kind = "folder"
                   /\ opened.sel = dd.sel
  <2>1. "folder" \in WindowKinds \ {"term"} /\ path \in WindowPaths
    BY DEF WindowKinds, WindowPaths
  <2>. QED
    BY <2>1, NewWindowKeeps
<1>2. ASSUME w >= 0 PROVE Keeps(opened, new)
  <2>1. es \in Seq(RootNames)
    BY ListingType
  <2>2. new = [opened EXCEPT !.win[w].entries = es]
    BY DEF load_folder
  <2>3. DeskType(opened) /\ Sound(opened)
    BY <1>1 DEF Keeps, Sound
  <2>. HIDE DEF opened, es, w
  <2>4. /\ DeskType(new) /\ new.order = opened.order /\ new.fds = opened.fds
        /\ new.alert = opened.alert /\ new.sel = opened.sel
        /\ new.win = [opened.win EXCEPT ![w] =
                        [opened.win[w] EXCEPT !.entries = es]]
    <3>1. [opened.win[w] EXCEPT !.entries = es] \in Windows
      <4>1. opened.win[w] \in Windows
        BY <1>1, <1>2, <2>3 DEF DeskType
      <4>. QED
        BY <2>1, <4>1 DEF Windows
    <3>2. /\ new.order = opened.order /\ new.fds = opened.fds
          /\ new.alert = opened.alert /\ new.sel = opened.sel
          /\ new.win = [opened.win EXCEPT ![w] =
                          [opened.win[w] EXCEPT !.entries = es]]
      BY <1>1, <1>2, <2>2, <2>3 DEF DeskType
    <3>3. new.win \in [Slots -> Windows]
      BY <1>1, <1>2, <2>3, <3>1, <3>2 DEF DeskType
    <3>4. \E win : new = [opened EXCEPT !.win = win]
      BY <2>2
    <3>. HIDE DEF new
    <3>. QED
      BY <2>3, <3>2, <3>3, <3>4 DEF DeskType
  <2>5. SameUse(opened.win, new.win)
    BY <1>1, <1>2, <2>3, <2>4, SMTT(30) DEF SameUse, DeskType, Windows
  <2>6. \A v \in Slots : v # w => new.win[v] = opened.win[v]
    BY <2>3, <2>4 DEF DeskType
  <2>7. Shown(dd, dd.sel) /\ Shown(opened, opened.sel)
    BY <2>3 DEF Sound
  <2>8. opened.sel[1] >= 0 => opened.sel[1] # w
    BY <1>1, <1>2, <2>7 DEF Shown
  <2>9. Shown(new, new.sel)
    BY <2>4, <2>6, <2>7, <2>8 DEF Shown
  <2>. QED
    BY <2>3, <2>4, <2>5, <2>9, Relisted DEF Keeps, SameUse
<1>3. open_folder(dd, dk, path) \in {dd, opened} \cup {x \in {new} : w >= 0}
  BY DEF open_folder
<1>. HIDE DEF opened, new, w
<1>. QED
  BY <1>1, <1>2, <1>3, KeepsOrder

(* open_text leaves the desktop in order. *)
LEMMA OpenTextKeeps ==
    ASSUME NEW dd, Sound(dd), NEW dk, NEW name \in RootNames
    PROVE  Keeps(dd, open_text(dd, dk, name))
BY NewWindowKeeps, KeepsOrder DEF open_text, WindowKinds, WindowPaths

(* SelectItem leaves the desktop in order. *)
LEMMA SelectItemKeeps ==
    ASSUME NEW dd, Sound(dd), NEW w \in Slots, dd.win[w].used,
           dd.win[w].kind = "folder", NEW name
    PROVE  Keeps(dd, SelectItem(dd, w, name))
<1>. DEFINE at == {i \in DOMAIN dd.win[w].entries : dd.win[w].entries[i] = name}
            t == <<w, Min(at) - 1>>
<1>1. CASE at = {}
  BY <1>1, KeepsOrder DEF SelectItem
<1>2. CASE at # {}
  <2>1. dd.win[w].entries \in Seq(RootNames)
    BY DEF Sound, DeskType, Windows
  <2>2. at \in SUBSET Nat
    BY <2>1
  <2>3. Min(at) \in at
    BY <1>2, <2>2, MinIn
  <2>4. Min(at) - 1 \in Int /\ Min(at) - 1 < Len(dd.win[w].entries)
    BY <2>1, <2>3
  <2>5. SelectItem(dd, w, name) = [dd EXCEPT !.sel = t]
    BY <1>2 DEF SelectItem
  <2>. DEFINE j == Min(at) - 1
  <2>. HIDE DEF j
  <2>6. <<w, j>> \in Targets /\ Shown(dd, <<w, j>>)
    BY <2>4 DEF j, Targets, Shown, Slots
  <2>7. Keeps(dd, [dd EXCEPT !.sel = <<w, j>>])
    BY <2>6, SelectKeeps
  <2>. QED
    BY <2>5, <2>7 DEF j
<1>. QED
  BY <1>1, <1>2

-----------------------------------------------------------------------------
(* Closing *)

(* The windows of closing, and no others, are gone. *)
Closes(dd, new, closing) ==
    /\ Sound(new) /\ new.alert = dd.alert
    /\ \A w \in closing : ~ new.win[w].used
    /\ \A w \in Slots \ closing : new.win[w] = dd.win[w]

(* close_window closes its window and no other. *)
LEMMA CloseWindow ==
    ASSUME ~ Hasty, NEW dd, Sound(dd), NEW w \in Slots, dd.win[w].used
    PROVE  Closes(dd, close_window(dd, w), {w})
<1>. DEFINE new == close_window(dd, w)
            u == Unstack(dd.order, w)
            fds == IF dd.win[w].kind = "term"
                   THEN dd.fds \ {dd.win[w].to, dd.win[w].from} ELSE dd.fds
            sel == IF dd.sel[1] = w THEN NoTarget ELSE dd.sel
<1>1. /\ DeskType(dd) /\ dd.order \in Seq(Slots) /\ dd.win \in [Slots -> Windows]
      /\ dd.sel \in Targets
  BY DEF Sound, DeskType
<1>2. Once(dd.order) /\ \A v \in Slots : dd.win[v].used <=> Stacked(dd.order, v)
  BY <1>1, StackedUsed DEF Sound
<1>3. /\ u \in Seq(Slots) /\ Once(u)
      /\ \A v \in Slots : Stacked(u, v) <=> v # w /\ Stacked(dd.order, v)
  BY <1>1, <1>2, Unstacked
<1>. HIDE DEF u
<1>4. new = [dd EXCEPT !.fds = fds, !.order = u,
                       !.win = [dd.win EXCEPT ![w] = Unused], !.sel = sel]
  BY DEF close_window, Closed, u
<1>5. /\ new.fds = fds /\ new.order = u /\ new.sel = sel /\ new.alert = dd.alert
      /\ new.win = [dd.win EXCEPT ![w] = Unused]
  BY <1>1, <1>4 DEF DeskType
<1>6. Unused \in Windows /\ ~ Unused.used
  BY UnusedWindow
<1>7. new.win[w] = Unused /\ \A v \in Slots : v # w => new.win[v] = dd.win[v]
  BY <1>1, <1>5
<1>8. DeskType(new)
  <2>1. new.win \in [Slots -> Windows]
    BY <1>1, <1>5, <1>6
  <2>2. sel \in Targets /\ fds \in SUBSET (1..MAX_FDS)
    BY <1>1 DEF Targets, NoTarget, DeskType
  <2>. HIDE DEF new, fds, sel
  <2>3. \E a, b, c, e : new = [dd EXCEPT !.fds = a, !.order = b, !.win = c,
                                         !.sel = e]
    BY <1>4
  <2>. QED
    BY <1>1, <1>3, <1>5, <2>1, <2>2, <2>3 DEF DeskType
<1>. HIDE DEF new
<1>9. StackedOnce(new)
  <2>1. ASSUME NEW v \in Slots PROVE new.win[v].used <=> Stacked(new.order, v)
    BY <1>2, <1>3, <1>5, <1>6, <1>7
  <2>. QED
    BY <1>3, <1>5, <1>8, <2>1, StackedUsed, Zenon
<1>10. TermsOf(new) = TermsOf(dd) \ {w}
  BY <1>6, <1>7 DEF TermsOf
<1>11. OwnEnds(new)
  <2>1. \A v \in TermsOf(dd) : v # w => /\ EndsOf(new, v) = EndsOf(dd, v)
                                        /\ new.win[v] = dd.win[v]
    BY <1>7 DEF TermsOf, EndsOf
  <2>2. CASE dd.win[w].kind = "term"
    <3>1. w \in TermsOf(dd) /\ new.fds = dd.fds \ EndsOf(dd, w)
      BY <1>5, <2>2 DEF TermsOf, EndsOf
    <3>. QED
      BY <1>10, <2>1, <3>1 DEF OwnEnds, Sound
  <2>3. CASE dd.win[w].kind # "term"
    <3>1. w \notin TermsOf(dd) /\ new.fds = dd.fds
      BY <1>5, <2>3 DEF TermsOf
    <3>. QED
      BY <1>10, <2>1, <3>1 DEF OwnEnds, Sound
  <2>. QED
    BY <2>2, <2>3
<1>12. Shown(new, new.sel)
  <2>1. CASE dd.sel[1] = w
    BY <1>5, <2>1 DEF Shown, NoTarget
  <2>2. CASE dd.sel[1] # w
    BY <1>5, <1>7, <2>2 DEF Shown, Sound
  <2>. QED
    BY <2>1, <2>2
<1>. QED
  BY <1>5, <1>6, <1>7, <1>8, <1>9, <1>11, <1>12 DEF Sound, Closes, new

(* What closing keeps of the rest of the desktop and of the shells *)
LEMMA ClosesRest ==
    ASSUME NEW dd, NEW new, NEW closing \in SUBSET Slots,
           Closes(dd, new, closing)
    PROVE  /\ TermsOf(new) = TermsOf(dd) \ closing
           /\ \A pr : Housed(dd, pr) => Housed(new, KilledBy(dd, pr, closing))
           /\ AlertSound(dd)
                /\ (dd.alert.kind = "discard" =>
                      \A w \in closing : dd.win[w].kind # "text")
                => AlertSound(new)
<1>1. TermsOf(new) = TermsOf(dd) \ closing
  BY DEF TermsOf, Closes
<1>2. ASSUME NEW pr, Housed(dd, pr), NEW p \in Shells,
             KilledBy(dd, pr, closing)[p].shell
      PROVE  \E w \in TermsOf(new) : new.win[w].shell = p
  <2>1. /\ pr[p].shell
        /\ ~ \E w \in closing : dd.win[w].kind = "term" /\ dd.win[w].shell = p
    BY <1>2 DEF KilledBy, NoShell
  <2>2. PICK w \in TermsOf(dd) : dd.win[w].shell = p
    BY <1>2, <2>1 DEF Housed
  <2>3. w \in Slots /\ w \notin closing
    BY <2>1, <2>2 DEF TermsOf
  <2>. QED
    BY <1>1, <2>2, <2>3 DEF Closes
<1>3. ASSUME AlertSound(dd),
             dd.alert.kind = "discard" =>
               \A w \in closing : dd.win[w].kind # "text"
      PROVE  AlertSound(new)
  BY <1>3 DEF AlertSound, Closes
<1>. QED
  BY <1>1, <1>2, <1>3 DEF Housed

LEMMA ClosesBoth ==
    ASSUME NEW x, NEW y, NEW z, NEW A \in SUBSET Slots, NEW B \in SUBSET Slots,
           Closes(x, y, A), Closes(y, z, B)
    PROVE  Closes(x, z, A \cup B)
BY DEF Closes

(* close_windows closes what it is asked to. *)
LEMMA CloseWindows ==
    ASSUME ~ Hasty, NEW dd, Sound(dd), NEW ws \in Seq(Slots), Once(ws),
           NEW closing \in SUBSET Slots,
           \A w \in closing : dd.win[w].used /\ Stacked(ws, w)
    PROVE  Closes(dd, close_windows(dd, ws, closing), closing)
<1>. DEFINE N == Len(ws)
            close(x, w) == IF w \in closing THEN close_window(x, w) ELSE x
            Is(g, m) == g = [n \in 0 .. m |->
                               IF n = 0 THEN dd ELSE close(g[n - 1], ws[n])]
            S == {m \in 0 .. N : \E g : Is(g, m)}
            after == CHOOSE g : Is(g, N)
            Gone(n) == {w \in closing : \E i \in 1 .. n : ws[i] = w}
<1>1. N \in Nat /\ DOMAIN ws = 1 .. N /\ \A n \in 1 .. N : ws[n] \in Slots
  OBVIOUS
<1>2. 0 \in S
  <2>. DEFINE g == [n \in 0 .. 0 |-> dd]
  <2>1. Is(g, 0)
    OBVIOUS
  <2>. HIDE DEF Is
  <2>. QED
    BY <1>1, <2>1
<1>3. ASSUME NEW m \in 1 .. N, m - 1 \in S PROVE m \in S
  <2>. HIDE DEF close
  <2>1. PICK g : Is(g, m - 1)
    BY <1>3
  <2>. DEFINE h == [n \in 0 .. m |-> IF n < m THEN g[n]
                                     ELSE close(g[m - 1], ws[m])]
  <2>2. ASSUME NEW n \in 0 .. m
        PROVE  h[n] = IF n = 0 THEN dd ELSE close(h[n - 1], ws[n])
    <3>1. CASE n < m
      <4>1. h[n] = g[n] /\ (n > 0 => h[n - 1] = g[n - 1]) /\ n \in 0 .. m - 1
        BY <1>3, <3>1
      <4>. QED
        BY <2>1, <4>1
    <3>2. CASE n = m
      BY <1>3, <2>1, <3>2
    <3>. QED
      BY <3>1, <3>2
  <2>3. Is(h, m)
    BY <2>2, Zenon
  <2>. HIDE DEF Is, h
  <2>. QED
    BY <1>1, <1>3, <2>3
<1>4. Is(after, N)
  <2>. HIDE DEF Is
  <2>1. 0 .. N \subseteq S
    BY <1>1, <1>2, <1>3, UpTo
  <2>. QED
    BY <1>1, <2>1
<1>5. Closes(dd, after[N], Gone(N))
  <2>. DEFINE T == {n \in 0 .. N : Closes(dd, after[n], Gone(n))}
  <2>. HIDE DEF after
  <2>1. 0 \in T
    <3>1. after[0] = dd /\ Gone(0) = {}
      BY <1>1, <1>4
    <3>2. Closes(dd, dd, {})
      BY DEF Closes
    <3>. HIDE DEF Gone
    <3>3. Closes(dd, after[0], Gone(0))
      BY <3>1, <3>2
    <3>. QED
      BY <1>1, <3>3
  <2>2. ASSUME NEW n \in 1 .. N, n - 1 \in T PROVE n \in T
    <3>. DEFINE x == after[n - 1]   w == ws[n]
    <3>1. after[n] = close(x, w) /\ n \in 0 .. N
      <4>. HIDE DEF close
      <4>. QED
        BY <1>1, <1>4
    <3>2. Closes(dd, x, Gone(n - 1)) /\ w \in Slots
      BY <1>1, <2>2
    <3>3. CASE w \in closing
      <4>1. w \notin Gone(n - 1)
        BY <1>1 DEF Once
      <4>2. Sound(x) /\ x.win[w].used
        BY <3>2, <3>3, <4>1 DEF Closes
      <4>3. Closes(x, close_window(x, w), {w})
        BY <3>2, <4>2, CloseWindow
      <4>4. Gone(n) = Gone(n - 1) \cup {w}
        BY <1>1, <3>3
      <4>5. after[n] = close_window(x, w)
        BY <3>1, <3>3
      <4>6. Gone(n - 1) \in SUBSET Slots /\ {w} \in SUBSET Slots
        BY <3>2
      <4>. HIDE DEF Gone, x, w
      <4>7. Closes(dd, after[n], Gone(n))
        BY <3>2, <4>3, <4>4, <4>5, <4>6, ClosesBoth
      <4>. QED
        BY <3>1, <4>7
    <3>4. CASE w \notin closing
      <4>1. Gone(n) = Gone(n - 1) /\ after[n] = x
        BY <1>1, <3>1, <3>4
      <4>. HIDE DEF Gone, x
      <4>. QED
        BY <3>1, <3>2, <4>1
    <3>. QED
      BY <3>3, <3>4
  <2>3. 0 .. N \subseteq T
    <3>. HIDE DEF T
    <3>. QED
      BY <1>1, <2>1, <2>2, UpTo
  <2>4. N \in T
    <3>. HIDE DEF T
    <3>. QED
      BY <1>1, <2>3
  <2>. HIDE DEF Gone
  <2>. QED
    BY <2>4
<1>6. Gone(N) = closing
  BY <1>1 DEF Stacked
<1>7. close_windows(dd, ws, closing) = after[N]
  BY Zenon DEF close_windows
<1>. HIDE DEF after, Gone
<1>. QED
  BY <1>5, <1>6, <1>7

-----------------------------------------------------------------------------
(* Shell windows *)

(* The ends of a new pipe are two descriptors that were free. *)
LEMMA PipeEnds ==
    ASSUME NEW fds \in SUBSET (1..MAX_FDS), PipeFits(fds)
    PROVE  /\ PipeRead(fds) \in (1..MAX_FDS) \ fds
           /\ PipeWrite(fds) \in (1..MAX_FDS) \ fds
           /\ PipeRead(fds) # PipeWrite(fds)
           /\ WithPipe(fds) \in SUBSET (1..MAX_FDS)
<1>. DEFINE F == Free(fds)   r == PipeRead(fds)
<1>1. F \in SUBSET Nat /\ F = (1..MAX_FDS) \ fds /\ r = Min(F)
  BY DEF Free, PipeRead
<1>2. Cardinality(F) >= 2
  BY DEF PipeFits
<1>3. F # {}
  <2>1. SUFFICES ASSUME F = {} PROVE FALSE
    OBVIOUS
  <2>2. Cardinality({}) = 0
    BY FS_EmptySet
  <2>. QED
    BY <1>2, <2>1, <2>2
<1>. HIDE DEF F, r
<1>4. r \in F
  BY <1>1, <1>3, MinIn
<1>5. F \ {r} # {}
  <2>1. SUFFICES ASSUME F \ {r} = {} PROVE FALSE
    OBVIOUS
  <2>2. F = {r}
    BY <1>4, <2>1
  <2>3. Cardinality({r}) = 1
    BY FS_Singleton
  <2>. QED
    BY <1>2, <2>2, <2>3
<1>6. Min(F \ {r}) \in F \ {r}
  <2>1. F \ {r} \in SUBSET Nat
    BY <1>1
  <2>. QED
    BY <1>5, <2>1, MinIn
<1>7. PipeWrite(fds) = Min(F \ {r})
  BY DEF PipeWrite, F, r
<1>. QED
  BY <1>1, <1>4, <1>6, <1>7 DEF WithPipe, r

(* The window of a new shell has two descriptors of its own. *)
LEMMA ShellWindowKeeps ==
    ASSUME NEW dd, Sound(dd), PipeFits(dd.fds), PipeFits(WithPipe(dd.fds)),
           FreeSlots(dd) # {}, NEW p \in Shells,
           \A w \in Slots : dd.win[w].shell # p
    PROVE  LET new == ShellWindow(dd, p)
           IN  /\ Keeps(dd, new)
               /\ \E w \in TermsOf(new) : new.win[w].shell = p
<1>. DEFINE new == ShellWindow(dd, p)
            w == SlotFor(dd, "term", p)
            r1 == PipeRead(dd.fds)   w1 == PipeWrite(dd.fds)
            two == WithPipe(dd.fds)
            r2 == PipeRead(two)   w2 == PipeWrite(two)
            opened == new_window(dd, "term", p)
            x == [Unused EXCEPT !.used = TRUE, !.kind = "term", !.path = p]
            y == [x EXCEPT !.shell = p, !.to = w1, !.from = r2]
            fds == WithPipe(two) \ {r1, w2}
<1>1. /\ DeskType(dd) /\ dd.order \in Seq(Slots) /\ dd.win \in [Slots -> Windows]
      /\ dd.fds \in SUBSET (1..MAX_FDS)
  BY DEF Sound, DeskType
<1>2. find_window(dd, "term", p) = {}
  BY DEF find_window, Sound, OwnEnds, TermsOf
<1>3. w \in Slots /\ ~ dd.win[w].used /\ w >= 0
  <2>1. FreeSlots(dd) \in SUBSET Nat
    BY DEF FreeSlots, Slots
  <2>2. w = Min(FreeSlots(dd))
    BY <1>2 DEF SlotFor
  <2>3. w \in FreeSlots(dd)
    BY <2>1, <2>2, MinIn
  <2>. QED
    BY <2>1, <2>3 DEF FreeSlots
<1>4. /\ r1 \in (1..MAX_FDS) \ dd.fds /\ w1 \in (1..MAX_FDS) \ dd.fds
      /\ r1 # w1 /\ two \in SUBSET (1..MAX_FDS) /\ two = dd.fds \cup {r1, w1}
  BY <1>1, PipeEnds DEF WithPipe
<1>5. /\ r2 \in (1..MAX_FDS) \ two /\ w2 \in (1..MAX_FDS) \ two /\ r2 # w2
      /\ WithPipe(two) = two \cup {r2, w2}
  <2>. HIDE DEF two
  <2>1. PipeFits(two)
    BY DEF two
  <2>. QED
    BY <1>4, <2>1, PipeEnds DEF WithPipe
<1>6. fds = dd.fds \cup {w1, r2}
  <2>. HIDE DEF r1, r2, w1, w2, two
  <2>. QED
    BY <1>4, <1>5
<1>7. opened = [dd EXCEPT !.win[w] = x, !.order = Append(@, w)]
  BY <1>2, <1>3 DEF new_window
<1>8. x \in Windows /\ x.used /\ x.kind = "term" /\ x.path = p
  BY UnusedWindow DEF Windows, WindowKinds, WindowPaths
<1>9. /\ y \in Windows /\ y.used /\ y.kind = "term" /\ y.path = p
      /\ y.shell = p /\ y.to = w1 /\ y.from = r2
  <2>1. w1 \in Int /\ r2 \in Int
    BY <1>4, <1>5
  <2>. HIDE DEF x, w1, r2
  <2>. QED
    BY <1>8, <2>1 DEF Windows
<1>10. new = [opened EXCEPT !.fds = fds, !.win[w].shell = p, !.win[w].to = w1,
                            !.win[w].from = r2]
  BY DEF ShellWindow
<1>. HIDE DEF x, w, r1, w1, r2, w2, two, fds, opened
<1>11. /\ new.win = [dd.win EXCEPT ![w] = y] /\ new.fds = fds
       /\ new.order = Append(dd.order, w) /\ new.sel = dd.sel
       /\ new.alert = dd.alert
       /\ \E e, v : new = [opened EXCEPT !.fds = e, !.win = v]
  <2>1. /\ opened.win = [dd.win EXCEPT ![w] = x] /\ opened.fds = dd.fds
        /\ opened.order = Append(dd.order, w) /\ opened.sel = dd.sel
        /\ opened.alert = dd.alert
        /\ DOMAIN opened = {"win", "order", "sel", "alert", "fds"}
    BY <1>1, <1>3, <1>7 DEF DeskType
  <2>2. opened.win \in [Slots -> Windows] /\ opened.win[w] = x
    BY <1>1, <1>3, <1>8, <2>1
  <2>3. /\ new.fds = fds /\ new.order = opened.order /\ new.sel = opened.sel
        /\ new.alert = opened.alert /\ new.win = [opened.win EXCEPT ![w] = y]
        /\ \E e, v : new = [opened EXCEPT !.fds = e, !.win = v]
    <3>1. new = [opened EXCEPT !.fds = fds,
                               !.win = [[[@ EXCEPT ![w].shell = p]
                                           EXCEPT ![w].to = w1]
                                           EXCEPT ![w].from = r2]]
      BY <1>10, ZenonT(30)
    <3>. DEFINE win == [[[opened.win EXCEPT ![w].shell = p]
                           EXCEPT ![w].to = w1] EXCEPT ![w].from = r2]
    <3>2. win = [opened.win EXCEPT ![w] = y]
      BY <1>3, <2>2
    <3>3. new = [opened EXCEPT !.fds = fds, !.win = win]
      BY <3>1, Zenon
    <3>. HIDE DEF win, new, y
    <3>4. \E e, v : new = [opened EXCEPT !.fds = e, !.win = v]
      BY <3>3
    <3>. QED
      BY <2>1, <3>2, <3>3, <3>4
  <2>4. [opened.win EXCEPT ![w] = y] = [dd.win EXCEPT ![w] = y]
    BY <1>1, <1>3, <2>1
  <2>. HIDE DEF new, y
  <2>. QED
    BY <2>1, <2>3, <2>4
<1>12. DeskType(new)
  <2>1. [dd.win EXCEPT ![w] = y] \in [Slots -> Windows]
    BY <1>1, <1>3, <1>9
  <2>2. Append(dd.order, w) \in Seq(Slots)
    BY <1>1, <1>3
  <2>3. \E win, order : opened = [dd EXCEPT !.win = win, !.order = order]
    BY <1>7
  <2>4. \E win, order, e : new = [dd EXCEPT !.win = win, !.order = order,
                                            !.fds = e]
    <3>1. PICK win, order : opened = [dd EXCEPT !.win = win, !.order = order]
      BY <2>3
    <3>. HIDE DEF new
    <3>2. PICK e, v : new = [opened EXCEPT !.fds = e, !.win = v]
      BY <1>11
    <3>3. new = [dd EXCEPT !.win = v, !.order = order, !.fds = e]
      BY <1>1, <3>1, <3>2 DEF DeskType
    <3>. QED
      BY <3>3
  <2>5. fds \in SUBSET (1..MAX_FDS)
    BY <1>1, <1>4, <1>5, <1>6
  <2>. HIDE DEF new, y
  <2>. QED
    BY <1>1, <1>11, <2>1, <2>2, <2>4, <2>5 DEF DeskType
<1>. HIDE DEF new, y
<1>13. new.win[w] = y /\ \A v \in Slots : v # w => new.win[v] = dd.win[v]
  BY <1>1, <1>3, <1>11
<1>14. TermsOf(new) = TermsOf(dd) \cup {w} /\ w \notin TermsOf(dd)
  BY <1>3, <1>9, <1>13 DEF TermsOf
<1>15. /\ EndsOf(new, w) = {w1, r2}
       /\ \A v \in TermsOf(dd) : EndsOf(new, v) = EndsOf(dd, v)
                                 /\ new.win[v] = dd.win[v]
  BY <1>3, <1>9, <1>13 DEF TermsOf, EndsOf
<1>16. OwnEnds(new)
  <2>1. w1 \notin dd.fds /\ r2 \notin dd.fds /\ w1 # r2
    BY <1>4, <1>5
  <2>2. \A v \in TermsOf(new) :
          /\ new.win[v].path = new.win[v].shell
          /\ new.win[v].to # new.win[v].from
          /\ EndsOf(new, v) \subseteq new.fds
    BY <1>6, <1>9, <1>11, <1>13, <1>14, <1>15, <2>1 DEF Sound, OwnEnds
  <2>3. \A v \in TermsOf(dd) : EndsOf(dd, v) \subseteq dd.fds
    BY DEF Sound, OwnEnds
  <2>4. \A u, v \in TermsOf(new) :
          u # v => EndsOf(new, u) \cap EndsOf(new, v) = {}
    BY <1>14, <1>15, <2>1, <2>3 DEF Sound, OwnEnds
  <2>5. \A f \in new.fds : \E v \in TermsOf(new) : f \in EndsOf(new, v)
    BY <1>6, <1>11, <1>14, <1>15 DEF Sound, OwnEnds
  <2>. QED
    BY <2>2, <2>4, <2>5 DEF OwnEnds
<1>17. Keeps(dd, new)
  BY <1>3, <1>9, <1>11, <1>12, <1>16, Added
<1>. QED
  BY <1>9, <1>13, <1>14, <1>17 DEF new

-----------------------------------------------------------------------------
(* Operations: each outcome leaves the desktop in order                    *)

Settled ==
    /\ Sound(d) /\ AlertSound(d)
    /\ procs \in Procs /\ Housed(d, procs) /\ quit = "no"

(* the windows with changes that dd has closed are those an alert is about *)
LeftOpen(dd) ==
    \A w \in Slots : d.win[w].used /\ unsaved(d, w) /\ ~ dd.win[w].used =>
        d.alert.kind = "discard" /\ d.alert.arg = <<w>>

Fine(o) ==
    /\ Sound(o.d) /\ AlertSound(o.d)
    /\ o.procs \in Procs /\ Housed(o.d, o.procs)
    /\ o.quit # "no" => o.d.alert.kind = "none"
    /\ LeftOpen(o.d)
    /\ o.quit = "yes" /\ AnyUnsaved(d) => d.alert.kind = "quit"

LEMMA OutcomeFields ==
    /\ \A dd : /\ Leaves(dd).d = dd /\ Leaves(dd).procs = procs
               /\ Leaves(dd).quit = quit
    /\ \A dd, pr : /\ LeavesBoth(<<dd, pr>>).d = dd
                   /\ LeavesBoth(<<dd, pr>>).procs = pr
                   /\ LeavesBoth(<<dd, pr>>).quit = quit
BY DEF Leaves, LeavesBoth

(* An outcome in which the desktop is kept in order *)
LEMMA KeepsFine ==
    ASSUME Settled, NEW o, Keeps(d, o.d), o.procs = procs, o.quit = "no"
    PROVE  Fine(o)
BY DEF Settled, Keeps, Fine, LeftOpen

LEMMA LeavesFine ==
    ASSUME Settled, NEW dd, Keeps(d, dd)
    PROVE  Fine(Leaves(dd))
BY OutcomeFields, KeepsFine DEF Settled

(* run_program leaves the desktop as it is. *)
LEMMA RunFine ==
    ASSUME Settled, NEW dd, Keeps(d, dd), NEW o \in run_program(dd)
    PROVE  Fine(o)
<1>1. o.d = dd /\ o.procs = procs /\ o.quit = quit
  BY DEF run_program, Leaves
<1>. QED
  BY <1>1, KeepsFine DEF Settled

(* open_shell leaves a shell with its window, or neither. *)
LEMMA OpenShellFine ==
    ASSUME Settled, NEW dd, Keeps(d, dd), NEW both \in open_shell(dd, procs)
    PROVE  Fine(LeavesBoth(both))
<1>1. Sound(dd) /\ Housed(dd, procs)
  BY DEF Keeps, Settled
<1>2. CASE both = <<dd, procs>>
  BY <1>2, OutcomeFields, KeepsFine DEF Settled
<1>3. CASE both = <<show_alert(dd, "info", <<>>), procs>>
  <2>1. Keeps(dd, show_alert(dd, "info", <<>>))
    BY <1>1, ShowAlertKeeps DEF AlertKinds
  <2>. DEFINE new == show_alert(dd, "info", <<>>)
  <2>. HIDE DEF new
  <2>2. Keeps(d, new)
    BY <2>1, KeepsOrder DEF new
  <2>3. both = <<new, procs>>
    BY <1>3 DEF new
  <2>. QED
    BY <2>2, <2>3, OutcomeFields, KeepsFine DEF Settled
<1>4. ASSUME PipeFits(dd.fds), PipeFits(WithPipe(dd.fds)), FreeSlots(dd) # {},
             NEW p \in NextShell(dd, procs),
             both = <<ShellWindow(dd, p), [procs EXCEPT ![p] = Started]>>
      PROVE  Fine(LeavesBoth(both))
  <2>. DEFINE new == ShellWindow(dd, p)
              pr == [procs EXCEPT ![p] = Started]
              free == {q \in Shells : procs[q] = NoShell
                                        /\ \A w \in Slots : dd.win[w].shell # q}
  <2>1. p \in Shells /\ \A w \in Slots : dd.win[w].shell # p
    <3>1. free # {} /\ p = CHOOSE q \in free : TRUE
      BY <1>4 DEF NextShell
    <3>2. p \in free
      BY <3>1, Zenon
    <3>. QED
      BY <3>2
  <2>2. Keeps(dd, new) /\ \E w \in TermsOf(new) : new.win[w].shell = p
    BY <1>1, <1>4, <2>1, ShellWindowKeeps
  <2>. HIDE DEF new
  <2>3. Keeps(d, new)
    BY <2>2, KeepsOrder
  <2>4. pr \in Procs
    BY <2>1 DEF Settled, Procs, Started
  <2>5. Housed(new, procs)
    BY <2>3 DEF Keeps, Settled
  <2>6. Housed(new, pr)
    <3>1. SUFFICES ASSUME NEW q \in Shells, pr[q].shell
                   PROVE  \E w \in TermsOf(new) : new.win[w].shell = q
      BY DEF Housed
    <3>2. q # p => pr[q] = procs[q]
      BY DEF Settled, Procs
    <3>. QED
      BY <2>2, <2>5, <3>1, <3>2 DEF Housed
  <2>. DEFINE o == LeavesBoth(both)
  <2>7. o.d = new /\ o.procs = pr /\ o.quit = "no"
    <3>1. both = <<new, pr>>
      BY <1>4 DEF new
    <3>. HIDE DEF pr
    <3>. QED
      BY <3>1, OutcomeFields DEF Settled
  <2>. HIDE DEF o, pr
  <2>8. Fine(o)
    BY <2>3, <2>4, <2>6, <2>7 DEF Settled, Keeps, Fine, LeftOpen
  <2>. QED
    BY <2>8 DEF o
<1>5. \/ both = <<dd, procs>>
      \/ both = <<show_alert(dd, "info", <<>>), procs>>
      \/ /\ PipeFits(dd.fds) /\ PipeFits(WithPipe(dd.fds)) /\ FreeSlots(dd) # {}
         /\ \E p \in NextShell(dd, procs) :
              both = <<ShellWindow(dd, p), [procs EXCEPT ![p] = Started]>>
  BY Zenon DEF open_shell
<1>. QED
  BY <1>2, <1>3, <1>4, <1>5

(* open_target leaves the desktop in order. *)
LEMMA OpenTargetFine ==
    ASSUME Settled, NEW dd, Keeps(d, dd), NEW t \in Targets, Shown(dd, t),
           NEW o \in open_target(dd, t)
    PROVE  Fine(o)
<1>1. Sound(dd)
  BY DEF Keeps
<1>2. CASE o = Leaves(open_folder(dd, disk, "root"))
  <2>1. Keeps(dd, open_folder(dd, disk, "root"))
    BY <1>1, OpenFolderKeeps
  <2>2. Keeps(d, open_folder(dd, disk, "root"))
    BY <2>1, KeepsOrder
  <2>. QED
    BY <1>2, <2>2, LeavesFine
<1>3. CASE HasEntry(dd, t) /\ o \in open_entry(dd, Entry(dd, t))
  <2>. DEFINE name == Entry(dd, t)
  <2>1. name \in RootNames
    <3>1. t[1] \in Slots /\ dd.win[t[1]].entries \in Seq(RootNames)
      BY <1>1, <1>3 DEF HasEntry, Shown, Sound, DeskType, Windows
    <3>2. t[2] + 1 \in DOMAIN dd.win[t[1]].entries
      BY <1>3, <3>1 DEF HasEntry, Targets
    <3>. QED
      BY <3>1, <3>2 DEF Entry
  <2>. HIDE DEF name
  <2>2. KindOf[name] \in {"dir", "shell", "program", "text"}
    BY <2>1 DEF RootNames
  <2>3. CASE KindOf[name] = "dir"
    <3>1. o = Leaves(open_folder(dd, disk, name))
      BY <1>3, <2>3 DEF open_entry, name
    <3>2. Keeps(d, open_folder(dd, disk, name))
      BY <1>1, <2>1, OpenFolderKeeps, KeepsOrder
    <3>. QED
      BY <3>1, <3>2, LeavesFine
  <2>4. CASE KindOf[name] = "shell"
    <3>1. \E both \in open_shell(dd, procs) : o = LeavesBoth(both)
      BY <1>3, <2>4 DEF open_entry, name
    <3>. QED
      BY <3>1, OpenShellFine
  <2>5. CASE KindOf[name] = "program"
    <3>1. o \in run_program(dd)
      BY <1>3, <2>5 DEF open_entry, name
    <3>. QED
      BY <3>1, RunFine
  <2>6. CASE KindOf[name] = "text"
    <3>1. o = Leaves(open_text(dd, disk, name))
      BY <1>3, <2>6 DEF open_entry, name
    <3>2. Keeps(d, open_text(dd, disk, name))
      BY <1>1, <2>1, OpenTextKeeps, KeepsOrder
    <3>. QED
      BY <3>1, <3>2, LeavesFine
  <2>. QED
    BY <2>2, <2>3, <2>4, <2>5, <2>6
<1>4. CASE o = Leaves(dd)
  BY <1>4, LeavesFine
<1>. QED
  BY <1>2, <1>3, <1>4, Zenon DEF open_target

LEMMA KilledType ==
    ASSUME NEW dd, NEW ws, procs \in Procs
    PROVE  KilledBy(dd, procs, ws) \in Procs
BY DEF KilledBy, Procs, NoShell

(* Closing windows without changes, and an alert about another one *)
LEMMA ClosesFine ==
    ASSUME Settled, NEW closing \in SUBSET Slots, NEW closed,
           Closes(d, closed, closing), \A w \in closing : ~ unsaved(d, w),
           NEW o, Keeps(closed, o.d), AlertSound(o.d),
           o.procs = KilledBy(d, procs, closing), o.quit = "no"
    PROVE  Fine(o)
<1>1. Housed(closed, KilledBy(d, procs, closing))
  BY ClosesRest DEF Settled
<1>2. Sound(o.d) /\ Housed(o.d, o.procs)
  BY <1>1 DEF Keeps
<1>3. LeftOpen(o.d)
  BY DEF LeftOpen, Closes, Keeps
<1>4. o.procs \in Procs
  BY KilledType DEF Settled
<1>. QED
  BY <1>2, <1>3, <1>4 DEF Fine

(* request_close closes a window without changes, or asks first. *)
LEMMA RequestCloseFine ==
    ASSUME ~ Hasty, Settled, ~ Alerted, NEW w \in Slots, d.win[w].used
    PROVE  Fine(LeavesBoth(request_close(d, procs, w)))
<1>. DEFINE o == LeavesBoth(request_close(d, procs, w))
<1>1. CASE unsaved(d, w)
  <2>. DEFINE a == [kind |-> "discard", arg |-> <<w>>, pressed |-> -1]
              new == WithAlert(d, a)
  <2>1. DOMAIN a = {"kind", "arg", "pressed"} /\ a.arg = <<w>>
        /\ a.kind = "discard"
    OBVIOUS
  <2>. HIDE DEF a
  <2>2. Keeps(d, new)
    BY <1>1, <2>1, AlertKeeps DEF Settled, unsaved, AlertKinds
  <2>3. request_close(d, procs, w) = <<new, procs>>
    BY <1>1, Zenon DEF request_close, show_alert, WithAlert, a
  <2>. HIDE DEF new
  <2>4. o.d = new /\ o.procs = procs /\ o.quit = "no"
    BY <2>3, OutcomeFields DEF Settled
  <2>. QED
    BY <2>2, <2>4, KeepsFine
<1>2. CASE ~ unsaved(d, w)
  <2>. DEFINE new == close_window(d, w)   pr == KilledBy(d, procs, {w})
  <2>1. Closes(d, new, {w})
    BY CloseWindow DEF Settled
  <2>2. request_close(d, procs, w) = <<new, pr>>
    BY <1>2 DEF request_close
  <2>. HIDE DEF new, pr
  <2>3. o.d = new /\ o.procs = pr /\ o.quit = "no"
    BY <2>2, OutcomeFields DEF Settled
  <2>4. Keeps(new, new)
    BY <2>1, KeepsOrder DEF Closes
  <2>5. AlertSound(new)
    <3>1. d.alert.kind # "discard"
      BY DEF Alerted
    <3>. QED
      BY <2>1, <3>1, ClosesRest DEF Settled
  <2>. HIDE DEF o
  <2>6. {w} \in SUBSET Slots /\ \A v \in {w} : ~ unsaved(d, v)
    BY <1>2
  <2>. QED
    BY <2>1, <2>3, <2>4, <2>5, <2>6, ClosesFine DEF pr, o
<1>. QED
  BY <1>1, <1>2

(* A stack upside down is a stack. *)
LEMMA Reversed ==
    ASSUME NEW order \in Seq(Slots), Once(order)
    PROVE  /\ Reverse(order) \in Seq(Slots) /\ Once(Reverse(order))
           /\ \A w \in Slots : Stacked(Reverse(order), w) <=> Stacked(order, w)
<1>. DEFINE N == Len(order)   r == Reverse(order)
<1>1. N \in Nat /\ DOMAIN order = 1 .. N /\ \A i \in 1 .. N : order[i] \in Slots
  OBVIOUS
<1>2. r = [i \in 1 .. N |-> order[(N - i) + 1]]
  BY DEF Reverse
<1>3. r \in [1 .. N -> Slots]
  BY <1>1, <1>2
<1>4. r \in Seq(Slots)
  <2>. HIDE DEF r
  <2>. QED
    BY <1>1, <1>3, FunctionIsSeq
<1>5. DOMAIN r = 1 .. N
  BY <1>2
<1>. HIDE DEF r
<1>6. Once(r)
  <2>1. SUFFICES ASSUME NEW i \in 1 .. N, NEW j \in 1 .. N, r[i] = r[j]
                 PROVE  i = j
    BY <1>5 DEF Once
  <2>2. (N - i) + 1 \in DOMAIN order /\ (N - j) + 1 \in DOMAIN order
    BY <1>1
  <2>3. (N - i) + 1 = (N - j) + 1
    BY <1>2, <2>1, <2>2 DEF Once
  <2>. QED
    BY <1>1, <2>3
<1>7. ASSUME NEW w \in Slots PROVE Stacked(r, w) <=> Stacked(order, w)
  <2>1. ASSUME NEW i \in 1 .. N, r[i] = w PROVE Stacked(order, w)
    <3>1. (N - i) + 1 \in DOMAIN order /\ order[(N - i) + 1] = w
      BY <1>1, <1>2, <2>1
    <3>. QED
      BY <3>1 DEF Stacked
  <2>2. ASSUME NEW i \in 1 .. N, order[i] = w PROVE Stacked(r, w)
    <3>. DEFINE j == (N - i) + 1
    <3>1. j \in 1 .. N /\ (N - j) + 1 = i
      BY <1>1
    <3>2. r[j] = w
      BY <1>2, <2>2, <3>1
    <3>. HIDE DEF j
    <3>. QED
      BY <1>5, <3>1, <3>2 DEF Stacked
  <2>. QED
    BY <1>1, <1>5, <2>1, <2>2 DEF Stacked
<1>. QED
  BY <1>4, <1>6, <1>7 DEF r

(* CloseAll closes windows without changes only, and asks about the first  *)
(* one that has changes.                                                   *)
LEMMA CloseAllFine ==
    ASSUME ~ Hasty, Settled, ~ Alerted
    PROVE  Fine(LeavesBoth(CloseAll(d, procs)))
<1>. DEFINE stops == {i \in DOMAIN d.order : unsaved(d, d.order[i])}
            closing == {d.order[i] : i \in {j \in DOMAIN d.order :
                                              \A k \in stops : j > k}}
            closed == close_windows(d, Reverse(d.order), closing)
            pr == KilledBy(d, procs, closing)
            o == LeavesBoth(CloseAll(d, procs))
<1>1. /\ d.order \in Seq(Slots) /\ Once(d.order)
      /\ \A w \in Slots : d.win[w].used <=> Stacked(d.order, w)
  BY StackedUsed DEF Settled, Sound, DeskType
<1>2. /\ closing \in SUBSET Slots
      /\ \A w \in closing : d.win[w].used /\ Stacked(d.order, w)
                            /\ ~ unsaved(d, w)
  <2>1. SUFFICES ASSUME NEW i \in DOMAIN d.order, \A k \in stops : i > k
                 PROVE  d.order[i] \in Slots /\ Stacked(d.order, d.order[i])
                        /\ ~ unsaved(d, d.order[i])
    BY <1>1
  <2>2. ~ (i > i)
    BY <1>1
  <2>. QED
    BY <1>1, <2>1, <2>2 DEF Stacked
<1>. HIDE DEF closing
<1>3. Closes(d, closed, closing)
  BY <1>1, <1>2, CloseWindows, Reversed DEF Settled
<1>4. d.alert.kind # "discard"
  BY DEF Alerted
<1>5. AlertSound(closed) /\ Sound(closed)
  BY <1>2, <1>3, <1>4, ClosesRest DEF Settled, Closes
<1>. HIDE DEF closed, pr
<1>6. CASE stops = {}
  <2>1. CloseAll(d, procs) = <<closed, pr>>
    BY <1>6, Zenon DEF CloseAll, closed, closing, pr
  <2>2. o.d = closed /\ o.procs = pr /\ o.quit = "no"
    BY <2>1, OutcomeFields DEF Settled
  <2>3. Keeps(closed, closed)
    BY <1>5, KeepsOrder
  <2>. HIDE DEF o
  <2>4. Fine(o)
    BY <1>2, <1>3, <1>5, <2>2, <2>3, ClosesFine DEF pr
  <2>. QED
    BY <2>4 DEF o
<1>7. CASE stops # {}
  <2>. DEFINE w == d.order[Max(stops)]
              a == [kind |-> "discard", arg |-> <<w>>, pressed |-> -1]
              new == WithAlert(closed, a)
  <2>1. Max(stops) \in stops
    <3>1. Len(d.order) \in Nat /\ stops \in SUBSET (0 .. Len(d.order))
      BY <1>1
    <3>. HIDE DEF stops
    <3>. QED
      BY <1>7, <3>1, MaxIn
  <2>2. w \in Slots /\ d.win[w].used /\ unsaved(d, w)
    <3>1. Max(stops) \in DOMAIN d.order /\ unsaved(d, w)
      BY <2>1
    <3>2. ASSUME NEW i \in DOMAIN d.order
          PROVE  d.order[i] \in Slots /\ Stacked(d.order, d.order[i])
      BY <1>1 DEF Stacked
    <3>3. w \in Slots /\ Stacked(d.order, w)
      BY <3>1, <3>2, Zenon
    <3>. QED
      BY <1>1, <3>1, <3>3
  <2>3. w \notin closing
    BY <1>2, <2>2
  <2>. HIDE DEF w
  <2>4. closed.win[w].used /\ closed.win[w].kind = "text"
    BY <1>3, <2>2, <2>3 DEF Closes, unsaved
  <2>5. DOMAIN a = {"kind", "arg", "pressed"} /\ a.arg = <<w>>
        /\ a.kind = "discard"
    OBVIOUS
  <2>. HIDE DEF a
  <2>6. Keeps(closed, new) /\ AlertSound(new)
    BY <1>5, <2>2, <2>4, <2>5, AlertKeeps DEF AlertKinds
  <2>7. CloseAll(d, procs) = <<new, pr>>
    BY <1>7, Zenon
       DEF CloseAll, closed, closing, pr, show_alert, WithAlert, a, w
  <2>. HIDE DEF new
  <2>8. o.d = new /\ o.procs = pr /\ o.quit = "no"
    BY <2>7, OutcomeFields DEF Settled
  <2>. HIDE DEF o
  <2>9. Fine(o)
    BY <1>2, <1>3, <2>6, <2>8, ClosesFine DEF pr
  <2>. QED
    BY <2>9 DEF o
<1>. QED
  BY <1>6, <1>7

(* Alerts of the menus *)
LEMMA ShowAlertFine ==
    ASSUME Settled, NEW dd, Keeps(d, dd),
           NEW kind \in AlertKinds \ {"discard"}, NEW arg
    PROVE  Keeps(d, show_alert(dd, kind, arg))
BY ShowAlertKeeps, KeepsOrder DEF Keeps

LEMMA AskDeleteFine ==
    ASSUME Settled, NEW dd, Keeps(d, dd)
    PROVE  Keeps(d, ask_delete(dd))
<1>. DEFINE arg == <<Entry(dd, dd.sel)>>
<1>. HIDE DEF arg
<1>1. Keeps(d, show_alert(dd, "delete", arg))
  BY ShowAlertFine DEF AlertKinds
<1>. QED
  BY <1>1 DEF ask_delete, arg

LEMMA GetInfoFine ==
    ASSUME Settled
    PROVE  Keeps(d, get_info(d))
<1>1. Keeps(d, d)
  BY KeepsOrder DEF Settled
<1>2. Keeps(d, show_alert(d, "info", <<>>))
  BY <1>1, ShowAlertFine DEF AlertKinds
<1>. QED
  BY <1>1, <1>2 DEF get_info

(* Quitting asks about changes. *)
LEMMA RequestQuitFine ==
    ASSUME Settled, ~ Alerted
    PROVE  Fine(request_quit(d))
<1>1. Keeps(d, d)
  BY KeepsOrder DEF Settled
<1>2. CASE AnyUnsaved(d)
  <2>1. Keeps(d, show_alert(d, "quit", <<>>))
    BY <1>1, ShowAlertFine DEF AlertKinds
  <2>. QED
    BY <1>2, <2>1, LeavesFine DEF request_quit
<1>3. CASE ~ AnyUnsaved(d)
  <2>. DEFINE o == request_quit(d)
  <2>1. o.d = d /\ o.procs = procs /\ o.quit = "yes"
    BY <1>3 DEF request_quit, Leaves
  <2>. HIDE DEF o
  <2>2. Fine(o)
    BY <1>3, <2>1 DEF Settled, Fine, LeftOpen, Alerted
  <2>. QED
    BY <2>2 DEF o
<1>. QED
  BY <1>2, <1>3

(* A new item is selected in its window and a new text opened. *)
LEMMA NewItemFine ==
    ASSUME Settled, NEW kind, NEW name \in RootNames, d.order # <<>>,
           FrontKind(d) = "folder"
    PROVE  Fine(NewItem(kind, name))
<1>. DEFINE dk == disk \cup {name}
            w == front_index(d)
            read == reload_path(d, dk, "root")
            shown == SelectItem(read, w, name)
            dd == IF kind = "text" THEN open_text(shown, dk, name) ELSE shown
            o == NewItem(kind, name)
<1>1. w \in Slots /\ d.win[w].used /\ d.win[w].kind = "folder"
  BY FrontUsed DEF Settled, Sound
<1>. HIDE DEF w, dk
<1>2. Keeps(d, read) /\ SameUse(d.win, read.win)
  BY ReloadKeeps DEF Settled
<1>. HIDE DEF read
<1>3. Sound(read) /\ read.win[w].used /\ read.win[w].kind = "folder"
  BY <1>1, <1>2 DEF Keeps, SameUse
<1>4. Keeps(read, shown)
  BY <1>1, <1>3, SelectItemKeeps
<1>. HIDE DEF shown
<1>5. Keeps(d, shown) /\ Sound(shown)
  BY <1>2, <1>4, KeepsOrder DEF Keeps
<1>6. Keeps(d, dd)
  BY <1>5, OpenTextKeeps, KeepsOrder
<1>7. o.d = dd /\ o.procs = procs /\ o.quit = "no"
  <2>1. o = [Leaves(dd) EXCEPT !.disk = dk]
    BY DEF NewItem, dk, w, read, shown
  <2>. HIDE DEF dd, o
  <2>. QED
    BY <2>1 DEF Leaves, Settled
<1>. HIDE DEF dd, o
<1>8. Fine(o)
  BY <1>6, <1>7, KeepsFine
<1>. QED
  BY <1>8 DEF o

LEMMA NewItemsFine ==
    ASSUME Settled, NEW kind, NEW o \in new_item(kind), d.order # <<>>,
           FrontKind(d) = "folder"
    PROVE  Fine(o)
<1>1. CASE o = Leaves(show_alert(d, "info", <<>>))
  <2>1. Keeps(d, d)
    BY KeepsOrder DEF Settled
  <2>2. Keeps(d, show_alert(d, "info", <<>>))
    BY <2>1, ShowAlertFine DEF AlertKinds
  <2>. QED
    BY <1>1, <2>2, LeavesFine
<1>2. CASE OfKind(kind) # {} /\ o = NewItem(kind, NewName(kind))
  <2>. DEFINE listed == d.win[front_index(d)].entries
              free == {i \in OfKind(kind) : ~ Contains(listed, Names[i])}
              i == IF free # {} THEN Min(free) ELSE Max(OfKind(kind))
              n == Len(Names)
  <2>1. n \in Nat /\ DOMAIN Names = 1 .. n
    BY DeskAssumption
  <2>2. /\ OfKind(kind) \in SUBSET (0 .. n) /\ OfKind(kind) \subseteq DOMAIN Names
        /\ free \in SUBSET Nat /\ free \subseteq DOMAIN Names
    BY <2>1 DEF OfKind
  <2>. HIDE DEF free, n
  <2>3. i \in DOMAIN Names
    BY <1>2, <2>1, <2>2, MinIn, MaxIn
  <2>4. NewName(kind) = Names[i]
    BY DEF NewName, free
  <2>. HIDE DEF i
  <2>5. NewName(kind) \in RootNames
    BY <2>3, <2>4 DEF RootNames, Range
  <2>. QED
    BY <1>2, <2>5, NewItemFine
<1>. QED
  BY <1>1, <1>2, Zenon DEF new_item

(* Every menu item leaves the desktop in order. *)
LEMMA MenuActionFine ==
    ASSUME ~ Hasty, Settled, ~ Alerted, NEW i, NEW o \in menu_action(i)
    PROVE  Fine(o)
<1>1. Keeps(d, d) /\ Sound(d) /\ DeskType(d) /\ StackedOnce(d)
  BY KeepsOrder DEF Settled, Sound
<1>2. ASSUME d.order # <<>>
      PROVE  front_index(d) \in Slots /\ d.win[front_index(d)].used
  BY <1>1, <1>2, FrontUsed
<1>3. ASSUME FrontKind(d) = "folder" PROVE d.order # <<>>
  BY <1>3 DEF FrontKind
<1>4. CASE ~ menu_item_enabled(i)
  BY <1>1, <1>4, LeavesFine DEF menu_action
<1>5. CASE i = "about"
  <2>1. o = Leaves(d) \/ o = Leaves(show_alert(d, "info", <<>>))
    BY <1>5 DEF menu_action
  <2>. QED
    BY <1>1, <2>1, ShowAlertFine, LeavesFine DEF AlertKinds
<1>6. CASE i \in {"calc", "clock"}
  <2>1. o = Leaves(d) \/ o = Leaves(new_window(d, i, i))
    BY <1>6 DEF menu_action
  <2>2. Keeps(d, new_window(d, i, i))
    BY <1>1, <1>6, NewWindowKeeps DEF WindowKinds, WindowPaths
  <2>. QED
    BY <1>1, <2>1, <2>2, LeavesFine
<1>7. CASE i = "shell"
  <2>1. o = Leaves(d) \/ \E both \in open_shell(d, procs) : o = LeavesBoth(both)
    BY <1>7 DEF menu_action
  <2>. QED
    BY <1>1, <2>1, OpenShellFine, LeavesFine
<1>8. CASE i = "open"
  <2>1. o = Leaves(d) \/ o \in open_target(d, d.sel)
    BY <1>8 DEF menu_action
  <2>2. Shown(d, d.sel) /\ d.sel \in Targets
    BY <1>1 DEF Sound, DeskType
  <2>. QED
    BY <1>1, <2>1, <2>2, OpenTargetFine, LeavesFine
<1>9. CASE i \in {"new_folder", "new_file"} /\ menu_item_enabled(i)
  <2>1. \E kind : o \in new_item(kind)
    BY <1>9 DEF menu_action
  <2>2. FrontKind(d) = "folder"
    BY <1>9 DEF menu_item_enabled
  <2>. QED
    BY <1>3, <2>1, <2>2, NewItemsFine
<1>10. CASE i = "close" /\ menu_item_enabled(i)
  <2>1. o = LeavesBoth(request_close(d, procs, front_index(d)))
    BY <1>10 DEF menu_action
  <2>2. d.order # <<>>
    BY <1>10 DEF menu_item_enabled
  <2>. QED
    BY <1>2, <2>1, <2>2, RequestCloseFine
<1>11. CASE i = "close_all" /\ menu_item_enabled(i)
  <2>1. o = LeavesBoth(CloseAll(d, procs))
    BY <1>11 DEF menu_action
  <2>. QED
    BY <2>1, CloseAllFine
<1>12. CASE i = "info" /\ menu_item_enabled(i)
  <2>1. o = Leaves(get_info(d))
    BY <1>12 DEF menu_action
  <2>. QED
    BY <2>1, GetInfoFine, LeavesFine
<1>13. CASE i = "quit" /\ menu_item_enabled(i)
  <2>1. o = request_quit(d)
    BY <1>13 DEF menu_action
  <2>. QED
    BY <2>1, RequestQuitFine
<1>14. CASE i = "delete" /\ menu_item_enabled(i)
  <2>1. o = Leaves(ask_delete(d))
    BY <1>14 DEF menu_action
  <2>. QED
    BY <1>1, <2>1, AskDeleteFine, LeavesFine
<1>15. CASE i = "restart" /\ menu_item_enabled(i)
  <2>1. o = [Leaves(d) EXCEPT !.quit = "reboot"]
    BY <1>15 DEF menu_action
  <2>2. o.d = d /\ o.procs = procs /\ o.quit = "reboot"
    BY <2>1 DEF Leaves
  <2>. QED
    BY <2>2 DEF Settled, Fine, LeftOpen, Alerted
<1>16. CASE i = "program" /\ menu_item_enabled(i)
  <2>1. o \in run_program(d)
    BY <1>16 DEF menu_action
  <2>. QED
    BY <1>1, <2>1, RunFine
<1>17. CASE menu_item_enabled(i)
            /\ i \notin {"about", "calc", "clock", "shell", "open",
                         "new_folder", "new_file", "close", "close_all",
                         "info", "quit", "delete", "restart", "program"}
  <2>1. o = Leaves(d)
    BY <1>17 DEF menu_action
  <2>. QED
    BY <1>1, <2>1, LeavesFine
<1>. QED
  BY <1>4, <1>5, <1>6, <1>7, <1>8, <1>9, <1>10, <1>11, <1>12, <1>13, <1>14,
     <1>15, <1>16, <1>17

(* A deleted item is selected no more and its folder listed again. *)
LEMMA DeletesFine ==
    ASSUME Settled, NEW dd, Keeps(d, dd), NEW name, NEW o \in Deletes(dd, name)
    PROVE  Fine(o)
<1>1. Sound(dd)
  BY DEF Keeps
<1>2. CASE o = Leaves(show_alert(dd, "info", <<>>))
  BY <1>2, ShowAlertFine, LeavesFine DEF AlertKinds
<1>3. ASSUME NEW dk,
             o = [Leaves(reload_path([dd EXCEPT !.sel = NoTarget], dk, "root"))
                    EXCEPT !.disk = dk]
      PROVE  Fine(o)
  <2>. DEFINE un == [dd EXCEPT !.sel = NoTarget]
              new == reload_path(un, dk, "root")
  <2>1. NoTarget \in Targets /\ Shown(dd, NoTarget)
    BY DEF NoTarget, Targets, Shown
  <2>2. Keeps(dd, un)
    BY <1>1, <2>1, SelectKeeps
  <2>. HIDE DEF un
  <2>3. Keeps(un, new)
    BY <2>2, ReloadKeeps DEF Keeps
  <2>. HIDE DEF new
  <2>4. Keeps(d, new)
    BY <2>2, <2>3, KeepsOrder
  <2>5. o = [Leaves(new) EXCEPT !.disk = dk]
    BY <1>3 DEF new, un
  <2>6. o.d = new /\ o.procs = procs /\ o.quit = "no"
    BY <2>5 DEF Leaves, Settled
  <2>. QED
    BY <2>4, <2>6, KeepsFine
<1>. QED
  BY <1>2, <1>3, Zenon DEF Deletes

(* What an alert was about is done once. *)
LEMMA AlertDoneFine ==
    ASSUME ~ Hasty, Settled, Alerted, NEW ok \in BOOLEAN,
           NEW o \in alert_done(ok)
    PROVE  Fine(o)
<1>. DEFINE dd == WithAlert(d, NoAlert)
<1>1. DOMAIN NoAlert = {"kind", "arg", "pressed"} /\ NoAlert.kind = "none"
  BY DEF NoAlert
<1>2. Keeps(d, dd) /\ AlertSound(dd)
  BY <1>1, AlertKeeps DEF Settled, AlertKinds
<1>3. dd.win = d.win /\ dd.alert = NoAlert
  BY AlertShown DEF Settled
<1>4. \/ o = Leaves(dd)
      \/ d.alert.kind = "discard"
           /\ o = LeavesBoth(<<close_window(dd, d.alert.arg[1]),
                               KilledBy(dd, procs, {d.alert.arg[1]})>>)
      \/ d.alert.kind = "quit" /\ o = [Leaves(dd) EXCEPT !.quit = "yes"]
      \/ d.alert.kind = "delete" /\ o \in Deletes(dd, d.alert.arg[1])
  <2>1. d.alert.kind \in AlertKinds \ {"none"}
    BY DEF Settled, AlertSound, Alerted
  <2>2. CASE ~ ok \/ d.alert.kind = "info"
    BY <2>2, Zenon DEF alert_done, WithAlert
  <2>3. CASE ok /\ d.alert.kind = "discard"
    BY <2>3 DEF alert_done, WithAlert
  <2>4. CASE ok /\ d.alert.kind = "quit"
    BY <2>4 DEF alert_done, WithAlert
  <2>5. CASE ok /\ d.alert.kind = "delete"
    BY <2>5 DEF alert_done, WithAlert
  <2>. QED
    BY <2>1, <2>2, <2>3, <2>4, <2>5 DEF AlertKinds
<1>. HIDE DEF dd
<1>5. CASE o = Leaves(dd)
  BY <1>2, <1>5, LeavesFine
<1>6. CASE d.alert.kind = "discard"
           /\ o = LeavesBoth(<<close_window(dd, d.alert.arg[1]),
                               KilledBy(dd, procs, {d.alert.arg[1]})>>)
  <2>1. PICK w \in Slots : /\ d.alert.arg = <<w>> /\ d.win[w].used
                           /\ d.win[w].kind = "text"
    BY <1>6 DEF Settled, AlertSound
  <2>. DEFINE new == close_window(dd, w)   pr == KilledBy(dd, procs, {w})
  <2>2. Closes(dd, new, {w})
    BY <1>2, <1>3, <2>1, CloseWindow DEF Keeps
  <2>3. o = LeavesBoth(<<new, pr>>)
    BY <1>6, <2>1
  <2>. HIDE DEF new
  <2>4. Housed(new, pr) /\ AlertSound(new)
    BY <1>1, <1>2, <1>3, <2>2, ClosesRest DEF Settled, Keeps
  <2>5. pr \in Procs
    BY KilledType DEF Settled
  <2>. HIDE DEF pr
  <2>6. o.d = new /\ o.procs = pr /\ o.quit = "no"
    BY <2>3, OutcomeFields DEF Settled
  <2>7. LeftOpen(new)
    BY <1>3, <1>6, <2>1, <2>2 DEF LeftOpen, Closes
  <2>. QED
    BY <2>2, <2>4, <2>5, <2>6, <2>7 DEF Fine, Closes
<1>7. CASE d.alert.kind = "quit" /\ o = [Leaves(dd) EXCEPT !.quit = "yes"]
  <2>1. o.d = dd /\ o.procs = procs /\ o.quit = "yes"
    BY <1>7 DEF Leaves
  <2>. QED
    BY <1>1, <1>2, <1>3, <1>7, <2>1 DEF Settled, Fine, LeftOpen, Keeps
<1>8. CASE d.alert.kind = "delete" /\ o \in Deletes(dd, d.alert.arg[1])
  BY <1>2, <1>8, DeletesFine
<1>. QED
  BY <1>4, <1>5, <1>6, <1>7, <1>8

-----------------------------------------------------------------------------
(* Steps.  Each keeps the invariant, and closes no window with changes but *)
(* as an alert said.                                                       *)

Asks ==
    /\ LeftOpen(d')
    /\ quit = "no" /\ quit' = "yes" /\ AnyUnsaved(d) => d.alert.kind = "quit"

LEMMA MouseTypes ==
    ASSUME NEW m \in Mice
    PROVE  /\ Idle(m) \in Mice /\ Idle(m).mode = "idle"
           /\ \A b \in BOOLEAN : /\ [m EXCEPT !.held = b] \in Mice
                                 /\ [m EXCEPT !.held = b].mode = m.mode
                                 /\ [m EXCEPT !.held = b].held = b
                                 /\ [m EXCEPT !.held = b].track = m.track
                                 /\ [m EXCEPT !.held = b].source = m.source
                                 /\ [m EXCEPT !.held = b].sticky = m.sticky
<1>1. NoTarget \in Targets /\ -1 \in Int
  BY DEF NoTarget, Targets
<1>2. "none" \in DOMAIN MenuItems \cup {"none"} /\ "idle" \in Modes
  BY DEF Modes
<1>3. Idle(m) \in Mice /\ Idle(m).mode = "idle"
  BY <1>1, <1>2 DEF Mice, Idle
<1>4. ASSUME NEW b \in BOOLEAN
      PROVE  /\ [m EXCEPT !.held = b] \in Mice
             /\ [m EXCEPT !.held = b].mode = m.mode
             /\ [m EXCEPT !.held = b].held = b
             /\ [m EXCEPT !.held = b].track = m.track
             /\ [m EXCEPT !.held = b].source = m.source
             /\ [m EXCEPT !.held = b].sticky = m.sticky
  BY DEF Mice
<1>. QED
  BY <1>3, <1>4

(* The mouse is idle when a key is read, except over an open menu. *)
LEMMA AtRest ==
    ASSUME DeskInv
    PROVE  /\ Alerted => mouse.mode = "idle"
           /\ ~ mouse.held /\ mouse.mode # "menu" => mouse.mode = "idle"
           /\ quit = "no" => Settled
BY DEF DeskInv, Holding, Alerted, Settled

(* The end of an operation *)
LEMMA FinishInv ==
    ASSUME DeskInv, NEW o, Fine(o), NEW m \in Mice, m.mode = "idle",
           Finish(o, m)
    PROVE  DeskInv' /\ Asks
<1>1. /\ d' = o.d /\ procs' = o.procs /\ quit' = o.quit
      /\ mouse' = IF o.ran THEN [Idle(m) EXCEPT !.held = FALSE] ELSE m
  BY DEF Finish
<1>2. mouse' \in Mice /\ mouse'.mode = "idle"
  BY <1>1, MouseTypes
<1>3. Holding(mouse', d')
  BY <1>2 DEF Holding
<1>4. DeskInv'
  BY <1>1, <1>2, <1>3 DEF DeskInv, Fine, Alerted
<1>5. Asks
  BY <1>1 DEF Asks, Fine, LeftOpen
<1>. QED
  BY <1>4, <1>5

(* A step that only shows something else *)
LEMMA OnlyInv ==
    ASSUME DeskInv, quit = "no", NEW dd, Keeps(d, dd), NEW m \in Mice,
           Holding(m, dd), Only(dd, m)
    PROVE  DeskInv' /\ Asks
<1>1. d' = dd /\ mouse' = m /\ procs' = procs /\ quit' = "no"
  BY DEF Only
<1>2. DeskInv'
  BY <1>1 DEF DeskInv, Keeps
<1>3. Asks
  BY <1>1 DEF Asks, LeftOpen, Keeps
<1>. QED
  BY <1>2, <1>3

LEMMA SameKeeps ==
    ASSUME DeskInv
    PROVE  Keeps(d, d)
BY KeepsOrder DEF DeskInv

(* Pressing, and nothing else *)
LEMMA AlertPressInv ==
    ASSUME DeskInv, AlertPress
    PROVE  DeskInv' /\ Asks
<1>1. PICK b : Only([d EXCEPT !.alert.pressed = b], Pressed)
  BY DEF AlertPress
<1>. DEFINE a == [d.alert EXCEPT !.pressed = b]   dd == WithAlert(d, a)
<1>2. [d EXCEPT !.alert.pressed = b] = dd
  BY DEF WithAlert
<1>3. DOMAIN a = DOMAIN d.alert /\ a.kind = d.alert.kind /\ a.arg = d.alert.arg
  BY DEF DeskInv, AlertSound
<1>. HIDE DEF a
<1>4. Keeps(d, dd)
  BY <1>3, AlertKeeps DEF DeskInv, AlertSound
<1>5. Pressed \in Mice /\ Pressed.mode = "idle"
  BY MouseTypes, AtRest DEF DeskInv, AlertPress, Pressed
<1>6. Holding(Pressed, dd)
  BY <1>5 DEF Holding
<1>. QED
  BY <1>1, <1>2, <1>4, <1>5, <1>6, OnlyInv DEF AlertPress, MayPress

LEMMA AlertReleaseInv ==
    ASSUME ~ Hasty, DeskInv, AlertRelease
    PROVE  DeskInv' /\ Asks
<1>1. Released \in Mice /\ Released.mode = "idle"
  BY MouseTypes, AtRest DEF DeskInv, AlertRelease, Released
<1>2. CASE Only([d EXCEPT !.alert.pressed = -1], Released)
  <2>. DEFINE a == [d.alert EXCEPT !.pressed = -1]   dd == WithAlert(d, a)
  <2>1. [d EXCEPT !.alert.pressed = -1] = dd
    BY DEF WithAlert
  <2>2. /\ DOMAIN a = DOMAIN d.alert /\ a.kind = d.alert.kind
        /\ a.arg = d.alert.arg
    BY DEF DeskInv, AlertSound
  <2>. HIDE DEF a
  <2>3. Keeps(d, dd)
    BY <2>2, AlertKeeps DEF DeskInv, AlertSound
  <2>4. Holding(Released, dd)
    BY <1>1 DEF Holding
  <2>. QED
    BY <1>1, <1>2, <2>1, <2>3, <2>4, OnlyInv DEF AlertRelease
<1>3. CASE \E o \in alert_done(d.alert.pressed = 0) : Finish(o, Released)
  <2>. DEFINE ok == d.alert.pressed = 0
  <2>1. PICK o \in alert_done(ok) : Finish(o, Released)
    BY <1>3
  <2>2. ok \in BOOLEAN /\ Settled /\ Alerted
    BY AtRest DEF AlertRelease
  <2>. HIDE DEF ok
  <2>3. Fine(o)
    BY <2>1, <2>2, AlertDoneFine
  <2>. QED
    BY <1>1, <2>1, <2>3, FinishInv
<1>. QED
  BY <1>2, <1>3 DEF AlertRelease

LEMMA PressMenuInv ==
    ASSUME DeskInv, \/ \E m \in DOMAIN MenuItems : PressMenuBar(m)
                    \/ PressOpenMenu
    PROVE  DeskInv' /\ Asks
<1>1. quit = "no" /\ ~ Alerted
  BY DEF PressMenuBar, PressOpenMenu, MayPress
<1>2. CASE \E m \in DOMAIN MenuItems : PressMenuBar(m)
  <2>1. PICK i \in DOMAIN MenuItems : PressMenuBar(i)
    BY <1>2
  <2>. DEFINE m == [Pressed EXCEPT !.mode = "menu", !.menu = i]
  <2>2. m \in Mice /\ m.mode = "menu" /\ m.held
    <3>1. i \in DOMAIN MenuItems \cup {"none"}
      OBVIOUS
    <3>. QED
      BY <3>1 DEF DeskInv, Mice, Pressed, Modes
  <2>3. Only(d, m)
    BY <2>1 DEF PressMenuBar
  <2>. HIDE DEF m
  <2>4. Holding(m, d)
    BY <1>1, <2>2 DEF Holding, Alerted
  <2>. QED
    BY <1>1, <2>2, <2>3, <2>4, OnlyInv, SameKeeps
<1>3. CASE PressOpenMenu
  <2>. DEFINE m == [Pressed EXCEPT !.sticky = FALSE]
  <2>1. m \in Mice /\ m.mode = "menu" /\ m.held
    BY <1>3 DEF DeskInv, Mice, Pressed, PressOpenMenu
  <2>2. Only(d, m)
    BY <1>3 DEF PressOpenMenu
  <2>. HIDE DEF m
  <2>3. Holding(m, d)
    BY <1>1, <2>1 DEF Holding, Alerted
  <2>. QED
    BY <1>1, <2>1, <2>2, <2>3, OnlyInv, SameKeeps
<1>. QED
  BY <1>2, <1>3

(* A press on a window brings it to the front. *)
LEMMA PressFrameInv ==
    ASSUME DeskInv, NEW w \in Slots, PressFrame(w)
    PROVE  DeskInv' /\ Asks
<1>. DEFINE dd == bring_to_front(d, w)
<1>1. d.win[w].used /\ quit = "no" /\ ~ Alerted
  BY StackedUsed DEF PressFrame, MayPress, DeskInv, Sound
<1>2. Keeps(d, dd) /\ dd.win = d.win /\ dd.alert = d.alert
  BY <1>1, FrontKeeps, BroughtToFront DEF DeskInv
<1>3. PICK hit \in FrameHits(w) :
        Only(dd, [Pressed EXCEPT !.mode = hit, !.track = w])
  BY DEF PressFrame
<1>. DEFINE m == [Pressed EXCEPT !.mode = hit, !.track = w]
<1>4. hit \in {"drag_window", "close_box", "grow_window", "calc_key"}
  BY DEF FrameHits
<1>5. m \in Mice /\ m.mode = hit /\ m.held /\ m.track = w
  <2>1. w \in Int
    BY DEF Slots
  <2>. QED
    BY <1>4, <2>1 DEF DeskInv, Mice, Pressed, Modes
<1>. HIDE DEF m, dd
<1>6. Holding(m, dd)
  BY <1>1, <1>2, <1>4, <1>5 DEF Holding, Alerted
<1>. QED
  BY <1>1, <1>2, <1>3, <1>5, <1>6, OnlyInv DEF m

LEMMA PressInsideInv ==
    ASSUME DeskInv, NEW w \in Slots, PressInside(w)
    PROVE  DeskInv' /\ Asks
<1>. DEFINE dd == bring_to_front(d, w)
<1>1. d.win[w].used /\ quit = "no"
  BY StackedUsed DEF PressInside, MayPress, DeskInv, Sound
<1>2. Keeps(d, dd) /\ Only(dd, Pressed)
  BY <1>1, FrontKeeps DEF DeskInv, PressInside
<1>3. Pressed \in Mice /\ Pressed.mode = "idle"
  BY MouseTypes, AtRest DEF DeskInv, PressInside, MayPress, Pressed
<1>. HIDE DEF dd
<1>4. Holding(Pressed, dd)
  BY <1>3 DEF Holding
<1>. QED
  BY <1>1, <1>2, <1>3, <1>4, OnlyInv

(* What can be clicked is shown. *)
LEMMA IconsShown ==
    ASSUME DeskInv, NEW t \in IconTargets
    PROVE  /\ t \in Targets /\ Shown(d, t)
           /\ t[1] >= 0 => t[1] \in Slots /\ d.win[t[1]].used
<1>1. CASE t \in {DESK_DISK, DESK_TRASH, NoTarget}
  BY <1>1 DEF DESK_DISK, DESK_TRASH, NoTarget, Targets, Shown
<1>2. CASE t \notin {DESK_DISK, DESK_TRASH, NoTarget}
  <2>1. PICK w \in Range(d.order) :
          /\ d.win[w].kind = "folder"
          /\ \E i \in -1 .. Len(d.win[w].entries) - 1 : t = <<w, i>>
    BY <1>2 DEF IconTargets
  <2>2. PICK i \in -1 .. Len(d.win[w].entries) - 1 : t = <<w, i>>
    BY <2>1
  <2>3. w \in Slots /\ d.win[w].used
    BY DEF DeskInv, Sound, StackedOnce, DeskType, Range
  <2>4. Len(d.win[w].entries) \in Int
    BY <2>3 DEF DeskInv, Sound, DeskType, Windows
  <2>. QED
    BY <2>1, <2>2, <2>3, <2>4 DEF Targets, Shown, Slots
<1>. QED
  BY <1>1, <1>2

(* A press on an icon selects it, takes it or opens it. *)
LEMMA PressIconInv ==
    ASSUME DeskInv, NEW t \in IconTargets, PressIcon(t)
    PROVE  DeskInv' /\ Asks
<1>. DEFINE front == IF t[1] >= 0 THEN bring_to_front(d, t[1]) ELSE d
            dd == [front EXCEPT !.sel = t]
<1>1. quit = "no" /\ ~ Alerted /\ mouse \in Mice /\ mouse.mode = "idle"
      /\ Settled
  BY AtRest DEF PressIcon, MayPress, DeskInv
<1>2. /\ t \in Targets /\ Shown(d, t)
      /\ t[1] >= 0 => t[1] \in Slots /\ d.win[t[1]].used
  BY IconsShown
<1>3. /\ Keeps(d, front) /\ Sound(front) /\ Shown(front, t)
      /\ front.alert = d.alert
  <2>1. CASE t[1] >= 0
    <3>1. /\ Keeps(d, front) /\ front.win = d.win /\ front.alert = d.alert
          /\ front.fds = d.fds
      BY <1>2, <2>1, FrontKeeps, BroughtToFront DEF DeskInv
    <3>. HIDE DEF front
    <3>. QED
      BY <1>2, <3>1, SameWindows DEF Keeps
  <2>2. CASE ~ (t[1] >= 0)
    <3>1. front = d
      BY <2>2
    <3>. QED
      BY <1>2, <3>1, SameKeeps DEF DeskInv
  <2>. QED
    BY <2>1, <2>2
<1>4. \/ Only(dd, Pressed)
      \/ /\ t[2] >= 0
         /\ Only(dd, [Pressed EXCEPT !.last = t, !.mode = "drag_icon",
                                     !.source = t, !.moved = FALSE])
      \/ \E o \in open_target(dd, t) :
           Finish(o, [Pressed EXCEPT !.last = NoClick])
  BY Zenon DEF PressIcon
<1>. HIDE DEF front
<1>5. Keeps(front, dd) /\ dd.alert = d.alert /\ Shown(dd, t)
  <2>1. Keeps(front, dd)
    BY <1>2, <1>3, SelectKeeps
  <2>2. dd.win = front.win /\ dd.alert = front.alert /\ dd.fds = front.fds
    BY <1>2, <1>3, Selected
  <2>. HIDE DEF dd
  <2>. QED
    BY <1>3, <2>1, <2>2, SameWindows
<1>. HIDE DEF dd
<1>6. Keeps(d, dd)
  BY <1>3, <1>5, KeepsOrder
<1>7. Pressed \in Mice /\ Pressed.mode = "idle" /\ Pressed.held
  BY <1>1, MouseTypes DEF Pressed
<1>8. CASE Only(dd, Pressed)
  <2>1. Holding(Pressed, dd)
    BY <1>7 DEF Holding
  <2>. QED
    BY <1>1, <1>6, <1>7, <1>8, <2>1, OnlyInv
<1>9. CASE Only(dd, [Pressed EXCEPT !.last = t, !.mode = "drag_icon",
                                    !.source = t, !.moved = FALSE])
  <2>. DEFINE m == [Pressed EXCEPT !.last = t, !.mode = "drag_icon",
                                   !.source = t, !.moved = FALSE]
  <2>1. m \in Mice /\ m.mode = "drag_icon" /\ m.held /\ m.source = t
    BY <1>2, <1>7 DEF Mice, Modes
  <2>. HIDE DEF m
  <2>2. Holding(m, dd)
    BY <1>1, <1>5, <2>1 DEF Holding, Alerted
  <2>. QED
    BY <1>1, <1>6, <1>9, <2>1, <2>2, OnlyInv DEF m
<1>10. CASE \E o \in open_target(dd, t) :
              Finish(o, [Pressed EXCEPT !.last = NoClick])
  <2>. DEFINE m == [Pressed EXCEPT !.last = NoClick]
  <2>1. m \in Mice /\ m.mode = "idle"
    <3>1. NoClick \in Targets
      BY DEF NoClick, Targets
    <3>. QED
      BY <1>7, <3>1 DEF Mice
  <2>2. PICK o \in open_target(dd, t) : Finish(o, m)
    BY <1>10
  <2>3. Fine(o)
    BY <1>1, <1>2, <1>5, <1>6, OpenTargetFine
  <2>. HIDE DEF m
  <2>. QED
    BY <2>1, <2>2, <2>3, FinishInv
<1>. QED
  BY <1>4, <1>8, <1>9, <1>10

(* The mouse moves. *)
LEMMA MoveInv ==
    ASSUME DeskInv, Move
    PROVE  DeskInv' /\ Asks
<1>1. quit = "no"
  BY DEF Move
<1>2. CASE mouse.mode = "menu"
           /\ \E m \in DOMAIN MenuItems \ {mouse.menu} :
                Only(d, [mouse EXCEPT !.menu = m])
  <2>1. PICK i \in DOMAIN MenuItems : Only(d, [mouse EXCEPT !.menu = i])
    BY <1>2
  <2>. DEFINE m == [mouse EXCEPT !.menu = i]
  <2>2. /\ m \in Mice /\ m.mode = mouse.mode /\ m.held = mouse.held
        /\ m.sticky = mouse.sticky
    <3>1. i \in DOMAIN MenuItems \cup {"none"}
      OBVIOUS
    <3>. QED
      BY <3>1 DEF DeskInv, Mice
  <2>. HIDE DEF m
  <2>3. Holding(m, d)
    BY <1>2, <2>2 DEF DeskInv, Holding
  <2>. QED
    BY <1>1, <2>1, <2>2, <2>3, OnlyInv, SameKeeps DEF m
<1>3. CASE mouse.mode = "drag_icon"
           /\ Only(d, [mouse EXCEPT !.moved = TRUE, !.last = NoClick])
  <2>. DEFINE m == [mouse EXCEPT !.moved = TRUE, !.last = NoClick]
  <2>1. /\ m \in Mice /\ m.mode = mouse.mode /\ m.held = mouse.held
        /\ m.sticky = mouse.sticky /\ m.source = mouse.source
    <3>1. NoClick \in Targets
      BY DEF NoClick, Targets
    <3>. QED
      BY <3>1 DEF DeskInv, Mice
  <2>. HIDE DEF m
  <2>2. Holding(m, d)
    BY <1>3, <2>1 DEF DeskInv, Holding
  <2>. QED
    BY <1>1, <1>3, <2>1, <2>2, OnlyInv, SameKeeps DEF m
<1>. QED
  BY <1>2, <1>3, Zenon DEF Move

-----------------------------------------------------------------------------
(* Releases *)

LEMMA ReleaseInv ==
    ASSUME ~ Hasty, DeskInv,
           ReleaseMenu \/ ReleaseCloseBox \/ ReleaseOnTrash \/ ReleaseElsewhere
    PROVE  DeskInv' /\ Asks
<1>. DEFINE m == Idle(Released)
<1>1. quit = "no" /\ ~ Alerted /\ mouse \in Mice /\ Settled
  BY AtRest DEF ReleaseMenu, ReleaseCloseBox, ReleaseOnTrash,
                ReleaseElsewhere, MayRelease, DeskInv
<1>2. Released \in Mice /\ m \in Mice /\ m.mode = "idle"
  BY <1>1, MouseTypes DEF Released
<1>3. \A dd : Holding(m, dd)
  BY <1>2 DEF Holding
<1>4. CASE ReleaseMenu
  <2>1. CASE Only(d, [Released EXCEPT !.sticky = TRUE])
    <3>. DEFINE s == [Released EXCEPT !.sticky = TRUE]
    <3>1. s \in Mice /\ s.mode = "menu" /\ s.sticky
      BY <1>1, <1>4 DEF Mice, Released, ReleaseMenu
    <3>. HIDE DEF s
    <3>2. Holding(s, d)
      BY <1>1, <3>1 DEF Holding, Alerted
    <3>. QED
      BY <1>1, <2>1, <3>1, <3>2, OnlyInv, SameKeeps DEF s
  <2>2. CASE Only(d, m)
    <3>. HIDE DEF m
    <3>. QED
      BY <1>1, <1>2, <1>3, <2>2, OnlyInv, SameKeeps
  <2>3. CASE \E i \in MenuItems[mouse.menu] :
               \E o \in menu_action(i) : Finish(o, m)
    <3>1. PICK i : \E o \in menu_action(i) : Finish(o, m)
      BY <2>3
    <3>2. PICK o \in menu_action(i) : Finish(o, m)
      BY <3>1
    <3>3. Fine(o)
      BY <1>1, MenuActionFine
    <3>. HIDE DEF m
    <3>. QED
      BY <1>2, <3>2, <3>3, FinishInv
  <2>. QED
    BY <1>4, <2>1, <2>2, <2>3, Zenon DEF ReleaseMenu
<1>5. CASE ReleaseCloseBox
  <2>. DEFINE o == LeavesBoth(request_close(d, procs, mouse.track))
  <2>1. mouse.track \in Slots /\ d.win[mouse.track].used
    BY <1>5 DEF ReleaseCloseBox, DeskInv, Holding
  <2>2. Fine(o)
    BY <1>1, <2>1, RequestCloseFine
  <2>3. Finish(o, m)
    BY <1>5 DEF ReleaseCloseBox
  <2>. HIDE DEF o, m
  <2>. QED
    BY <1>2, <2>2, <2>3, FinishInv
<1>6. CASE ReleaseOnTrash
  <2>. DEFINE t == mouse.source   dd == [d EXCEPT !.sel = t]
  <2>1. t \in Targets /\ Shown(d, t)
    BY <1>6 DEF DeskInv, Mice, Holding, ReleaseOnTrash
  <2>2. Keeps(d, dd)
    BY <2>1, SelectKeeps DEF DeskInv
  <2>3. Only(ask_delete(dd), m)
    BY <1>6 DEF ReleaseOnTrash
  <2>. HIDE DEF dd, m
  <2>4. Keeps(d, ask_delete(dd))
    BY <1>1, <2>2, AskDeleteFine
  <2>. QED
    BY <1>1, <1>2, <1>3, <2>3, <2>4, OnlyInv
<1>7. CASE ReleaseElsewhere
  <2>1. Only(d, m)
    BY <1>7 DEF ReleaseElsewhere
  <2>. HIDE DEF m
  <2>. QED
    BY <1>1, <1>2, <1>3, <2>1, OnlyInv, SameKeeps
<1>. QED
  BY <1>4, <1>5, <1>6, <1>7

-----------------------------------------------------------------------------
(* Keys *)

LEMMA TypedAtRest ==
    ASSUME ~ Hasty, DeskInv, NEW kinds, MayTypeOn(kinds)
    PROVE  /\ quit = "no" /\ ~ Alerted /\ mouse \in Mice /\ Settled
           /\ mouse.mode = "idle" /\ FrontKind(d) \in kinds
           /\ \A dd : Holding(mouse, dd)
<1>1. quit = "no" /\ ~ Alerted /\ mouse.mode = "idle" /\ FrontKind(d) \in kinds
  BY AtRest DEF MayTypeOn, MayType
<1>. QED
  BY <1>1, AtRest DEF Holding, DeskInv

(* The front window, where there is one *)
LEMMA FrontLive ==
    ASSUME Settled, FrontKind(d) # "none"
    PROVE  /\ front_index(d) \in Slots /\ d.win[front_index(d)].used
           /\ FrontKind(d) = d.win[front_index(d)].kind
<1>1. d.order # <<>>
  BY DEF FrontKind
<1>. QED
  BY <1>1, FrontUsed DEF Settled, Sound

LEMMA KeyInv ==
    ASSUME ~ Hasty, DeskInv,
           KeyAlert \/ KeyMenu \/ KeyCtrlQ \/ KeyCtrlW \/ KeyCtrlO
             \/ KeyEnter \/ KeyTyped
    PROVE  DeskInv' /\ Asks
<1>1. CASE KeyAlert
  <2>1. mouse.mode = "idle" /\ mouse \in Mice /\ Settled /\ Alerted
    BY <1>1, AtRest DEF KeyAlert, MayType, DeskInv
  <2>2. PICK ok \in BOOLEAN : \E o \in alert_done(ok) : Finish(o, mouse)
    BY <1>1 DEF KeyAlert
  <2>3. PICK o \in alert_done(ok) : Finish(o, mouse)
    BY <2>2
  <2>4. Fine(o)
    BY <2>1, AlertDoneFine
  <2>. QED
    BY <2>1, <2>3, <2>4, FinishInv
<1>2. CASE KeyMenu
  <2>. DEFINE m == Idle(mouse)
  <2>1. m \in Mice /\ m.mode = "idle" /\ Only(d, m) /\ quit = "no"
    BY <1>2, MouseTypes DEF KeyMenu, DeskInv, MayType
  <2>. HIDE DEF m
  <2>2. Holding(m, d)
    BY <2>1 DEF Holding
  <2>. QED
    BY <2>1, <2>2, OnlyInv, SameKeeps
<1>3. CASE KeyCtrlQ
  <2>1. /\ ~ Alerted /\ mouse \in Mice /\ Settled /\ mouse.mode = "idle"
        /\ Finish(request_quit(d), mouse)
    BY <1>3, TypedAtRest DEF KeyCtrlQ
  <2>2. Fine(request_quit(d))
    BY <2>1, RequestQuitFine
  <2>. QED
    BY <2>1, <2>2, FinishInv
<1>4. CASE KeyCtrlW
  <2>. DEFINE o == LeavesBoth(request_close(d, procs, front_index(d)))
  <2>1. /\ ~ Alerted /\ mouse \in Mice /\ Settled /\ mouse.mode = "idle"
        /\ FrontKind(d) # "none" /\ Finish(o, mouse)
    BY <1>4, TypedAtRest DEF KeyCtrlW
  <2>2. Fine(o)
    BY <2>1, FrontLive, RequestCloseFine
  <2>. HIDE DEF o
  <2>. QED
    BY <2>1, <2>2, FinishInv
<1>5. CASE KeyCtrlO \/ KeyEnter
  <2>1. PICK o \in open_target(d, d.sel) : Finish(o, mouse)
    BY <1>5 DEF KeyCtrlO, KeyEnter
  <2>2. mouse \in Mice /\ Settled /\ mouse.mode = "idle"
    BY <1>5, TypedAtRest DEF KeyCtrlO, KeyEnter
  <2>3. d.sel \in Targets /\ Shown(d, d.sel)
    BY <2>2 DEF Settled, Sound, DeskType
  <2>4. Fine(o)
    BY <2>2, <2>3, SameKeeps, OpenTargetFine
  <2>. QED
    BY <2>1, <2>2, <2>4, FinishInv
<1>6. CASE KeyTyped
  <2>1. PICK o \in run_program(d) : Finish(o, mouse)
    BY <1>6 DEF KeyTyped
  <2>2. mouse \in Mice /\ Settled /\ mouse.mode = "idle"
    BY <1>6, TypedAtRest DEF KeyTyped
  <2>3. Fine(o)
    BY <2>2, SameKeeps, RunFine
  <2>. QED
    BY <2>1, <2>2, <2>3, FinishInv
<1>. QED
  BY <1>1, <1>2, <1>3, <1>4, <1>5, <1>6

(* The processes behind the windows: no shell comes to life here. *)
LEMMA ProcInv ==
    ASSUME DeskInv, UNCHANGED <<d, mouse, quit>>, procs' \in Procs,
           \A p \in Shells : procs'[p].shell => procs[p].shell
    PROVE  DeskInv' /\ Asks
<1>1. Housed(d', procs')
  BY DEF DeskInv, Housed
<1>2. DeskInv'
  BY <1>1 DEF DeskInv, Alerted
<1>. QED
  BY <1>2 DEF Asks, LeftOpen

LEMMA ProcStepInv ==
    ASSUME DeskInv, NEW p \in Shells,
           JobStarts(p) \/ JobEnds(p) \/ ShellExits(p) \/ JobWrites(p)
    PROVE  DeskInv' /\ Asks
<1>1. procs \in Procs /\ UNCHANGED <<d, mouse, quit>>
  BY DEF DeskInv, JobStarts, JobEnds, ShellExits, JobWrites, ProcStep
<1>2. procs' \in Procs /\ \A q \in Shells : procs'[q].shell => procs[q].shell
  <2>1. CASE JobStarts(p)
    BY <1>1, <2>1 DEF JobStarts, ProcStep, Procs
  <2>2. CASE JobEnds(p)
    BY <1>1, <2>2 DEF JobEnds, ProcStep, Procs
  <2>3. CASE ShellExits(p)
    BY <1>1, <2>3 DEF ShellExits, ProcStep, Procs
  <2>4. CASE JobWrites(p)
    BY <1>1, <2>4 DEF JobWrites
  <2>. QED
    BY <2>1, <2>2, <2>3, <2>4
<1>. QED
  BY <1>1, <1>2, ProcInv

LEMMA KeyCtrlCInv ==
    ASSUME DeskInv, KeyCtrlC
    PROVE  DeskInv' /\ Asks
<1>. DEFINE p == d.win[front_index(d)].shell
<1>. HIDE DEF p
<1>1. /\ UNCHANGED <<d, mouse, quit>> /\ procs \in Procs
      /\ procs' = [procs EXCEPT ![p].job = @ /\ ~procs[p].shell]
  BY DEF KeyCtrlC, DeskInv, p
<1>2. procs' \in Procs /\ \A q \in Shells : procs'[q].shell => procs[q].shell
  <2>. DEFINE job == procs[p].job /\ ~procs[p].shell
              proc == [procs[p] EXCEPT !.job = job]
  <2>1. procs' = [procs EXCEPT ![p] = proc]
    BY <1>1, Zenon
  <2>2. p \in Shells => /\ proc \in [shell : BOOLEAN, job : BOOLEAN]
                        /\ proc.shell = procs[p].shell
    <3>1. job \in BOOLEAN
      OBVIOUS
    <3>2. p \in Shells => procs[p] \in [shell : BOOLEAN, job : BOOLEAN]
      BY <1>1 DEF Procs
    <3>. HIDE DEF job
    <3>. QED
      BY <3>1, <3>2
  <2>. HIDE DEF proc
  <2>3. CASE p \in Shells
    BY <1>1, <2>1, <2>2, <2>3 DEF Procs
  <2>4. CASE p \notin Shells
    <3>1. procs' = procs
      BY <1>1, <2>1, <2>4 DEF Procs
    <3>. QED
      BY <1>1, <3>1
  <2>. QED
    BY <2>3, <2>4
<1>. QED
  BY <1>1, <1>2, ProcInv

(* poll_shells closes the windows of shells that are gone. *)
LEMMA PollInv ==
    ASSUME ~ Hasty, DeskInv, poll_shells
    PROVE  DeskInv' /\ Asks
<1>. DEFINE ws == [n \in 1..MAX_WINDOWS |-> n - 1]
            new == close_windows(d, ws, Deserted)
<1>1. ws \in Seq(Slots) /\ Once(ws) /\ \A w \in Slots : Stacked(ws, w)
  <2>1. ws \in [1 .. MAX_WINDOWS -> Slots]
    BY DEF Slots
  <2>2. ws \in Seq(Slots)
    <3>. HIDE DEF ws
    <3>. QED
      BY <2>1, FunctionIsSeq
  <2>3. ASSUME NEW w \in Slots PROVE Stacked(ws, w)
    <3>1. w + 1 \in DOMAIN ws /\ ws[w + 1] = w
      BY DEF Slots
    <3>. HIDE DEF ws
    <3>. QED
      BY <3>1 DEF Stacked
  <2>4. Once(ws)
    BY DEF Once
  <2>. QED
    BY <2>2, <2>3, <2>4
<1>2. /\ Deserted \in SUBSET Slots
      /\ \A w \in Deserted : d.win[w].used /\ d.win[w].kind = "term"
  BY DEF Deserted
<1>3. Closes(d, new, Deserted)
  <2>. HIDE DEF ws
  <2>. QED
    BY <1>1, <1>2, CloseWindows DEF DeskInv
<1>4. quit = "no" /\ d' = new /\ mouse' = mouse /\ procs' = procs /\ quit' = quit
  BY DEF poll_shells, Only, MayType
<1>. HIDE DEF new
<1>5. AlertSound(new) /\ TermsOf(new) = TermsOf(d) \ Deserted
  BY <1>2, <1>3, ClosesRest DEF DeskInv
<1>6. Housed(new, procs)
  <2>1. SUFFICES ASSUME NEW p \in Shells, procs[p].shell
                 PROVE  \E w \in TermsOf(new) : new.win[w].shell = p
    BY DEF Housed
  <2>2. PICK w \in TermsOf(d) : d.win[w].shell = p
    BY <2>1 DEF DeskInv, Housed
  <2>3. w \notin Deserted
    BY <2>1, <2>2 DEF Deserted, NoShell
  <2>. QED
    BY <1>3, <1>5, <2>2, <2>3 DEF Closes, TermsOf
<1>7. mouse.mode = "idle" \/ mouse.mode = "menu"
  BY <1>4 DEF poll_shells, MayType, DeskInv, Holding
<1>8. Holding(mouse, new)
  BY <1>3, <1>7 DEF DeskInv, Holding, Closes
<1>9. DeskInv'
  BY <1>3, <1>4, <1>5, <1>6, <1>8 DEF DeskInv, Closes
<1>10. LeftOpen(new)
  BY <1>2, <1>3 DEF LeftOpen, Closes, unsaved
<1>. QED
  BY <1>4, <1>9, <1>10 DEF Asks

(* Leaving closes every window. *)
LEMMA LeaveInv ==
    ASSUME ~ Hasty, DeskInv, Leave
    PROVE  DeskInv'
<1>. DEFINE new == close_windows(d, d.order, Range(d.order))
            pr == KilledBy(d, procs, Range(d.order))
<1>1. quit = "yes" /\ quit' = "done" /\ d' = new /\ procs' = pr /\ mouse' = mouse
  BY DEF Leave
<1>2. /\ d.order \in Seq(Slots) /\ Once(d.order)
      /\ \A w \in Slots : d.win[w].used <=> Stacked(d.order, w)
  BY StackedUsed DEF DeskInv, Sound, DeskType
<1>3. /\ Range(d.order) \in SUBSET Slots
      /\ \A w \in Range(d.order) : d.win[w].used /\ Stacked(d.order, w)
  BY <1>2 DEF Range, Stacked
<1>4. Closes(d, new, Range(d.order))
  BY <1>2, <1>3, CloseWindows DEF DeskInv
<1>5. mouse.mode = "idle" /\ d.alert.kind = "none"
  BY <1>1 DEF DeskInv, Alerted
<1>. HIDE DEF new
<1>6. AlertSound(new) /\ Housed(new, pr)
  BY <1>3, <1>4, <1>5, ClosesRest DEF DeskInv
<1>7. pr \in Procs
  BY KilledType DEF DeskInv
<1>. HIDE DEF pr
<1>. QED
  BY <1>1, <1>4, <1>5, <1>6, <1>7 DEF DeskInv, Closes, Holding, Alerted

-----------------------------------------------------------------------------
(* The editor *)

(* Whether a text has changes is no matter to the rest. *)
LEMMA ModifiedKeeps ==
    ASSUME NEW dd, Sound(dd), NEW w \in Slots, NEW b \in BOOLEAN
    PROVE  LET new == [dd EXCEPT !.win[w].modified = b]
           IN  /\ Keeps(dd, new) /\ new.alert = dd.alert
               /\ SameUse(dd.win, new.win)
<1>. DEFINE new == [dd EXCEPT !.win[w].modified = b]
            x == [dd.win[w] EXCEPT !.modified = b]
<1>1. DeskType(dd) /\ dd.win \in [Slots -> Windows]
  BY DEF Sound, DeskType
<1>2. x \in Windows
  BY <1>1 DEF Windows
<1>3. /\ new.order = dd.order /\ new.fds = dd.fds /\ new.alert = dd.alert
      /\ new.sel = dd.sel /\ new.win = [dd.win EXCEPT ![w] = x]
  BY <1>1 DEF DeskType
<1>4. new.win \in [Slots -> Windows]
  <2>. HIDE DEF x, new
  <2>. QED
    BY <1>1, <1>2, <1>3
<1>5. \E win : new = [dd EXCEPT !.win = win]
  OBVIOUS
<1>6. SameUse(dd.win, new.win)
  BY <1>1, <1>3 DEF SameUse, Windows
<1>7. \A v \in Slots : new.win[v].entries = dd.win[v].entries
  BY <1>1, <1>3 DEF Windows
<1>. HIDE DEF new
<1>8. DeskType(new)
  BY <1>1, <1>3, <1>4, <1>5 DEF DeskType
<1>9. Shown(new, new.sel)
  BY <1>3, <1>6, <1>7 DEF Sound, Shown, SameUse
<1>10. Keeps(dd, new)
  BY <1>3, <1>6, <1>8, <1>9, Relisted DEF Keeps, SameUse
<1>. QED
  BY <1>3, <1>6, <1>10 DEF new

(* Closing a text is nothing to the shells. *)
LEMMA TextClosed ==
    ASSUME ~ Hasty, NEW dd, Sound(dd), AlertSound(dd), NEW w \in Slots,
           dd.win[w].used, dd.win[w].kind = "text", dd.alert.kind # "discard"
    PROVE  LET new == close_window(dd, w)
           IN  /\ Sound(new) /\ AlertSound(new) /\ new.alert = dd.alert
               /\ \A pr : Housed(dd, pr) => Housed(new, pr)
               /\ \A v \in Slots \ {w} : dd.win[v].used => new.win[v].used
<1>. DEFINE new == close_window(dd, w)
<1>1. Closes(dd, new, {w})
  BY CloseWindow
<1>. HIDE DEF new
<1>2. AlertSound(new) /\ TermsOf(new) = TermsOf(dd) \ {w}
  BY <1>1, ClosesRest
<1>3. TermsOf(new) = TermsOf(dd) /\ TermsOf(dd) \subseteq Slots \ {w}
  BY <1>2 DEF TermsOf
<1>4. \A pr : Housed(dd, pr) => Housed(new, pr)
  BY <1>1, <1>3 DEF Housed, Closes
<1>. QED
  BY <1>1, <1>2, <1>4 DEF Closes, new

LEMMA EditChangeInv ==
    ASSUME ~ Hasty, DeskInv, EditChange
    PROVE  DeskInv' /\ Asks
<1>. DEFINE w == front_index(d)   b == ~ d.win[w].modified
            dd == [d EXCEPT !.win[w].modified = b]
<1>1. /\ quit = "no" /\ mouse \in Mice /\ Holding(mouse, dd) /\ Settled
      /\ FrontKind(d) = "text"
  BY TypedAtRest DEF EditChange
<1>2. w \in Slots /\ Sound(d)
  BY <1>1, FrontLive DEF Settled
<1>3. Only(dd, mouse)
  <2>1. Only([d EXCEPT !.win[front_index(d)].modified = ~@], mouse)
    BY DEF EditChange
  <2>2. d.win \in [Slots -> Windows] /\ "win" \in DOMAIN d
    BY <1>2 DEF Sound, DeskType
  <2>. QED
    BY <2>1, <2>2 DEF Only
<1>4. b \in BOOLEAN
  OBVIOUS
<1>. HIDE DEF w, b
<1>5. Keeps(d, dd)
  BY <1>2, <1>4, ModifiedKeeps
<1>. HIDE DEF dd
<1>. QED
  BY <1>1, <1>3, <1>5, OnlyInv

(* :q and :q! close the front window only. *)
LEMMA EditQuitInv ==
    ASSUME ~ Hasty, DeskInv, EditQuit \/ EditDiscard
    PROVE  /\ DeskInv' /\ quit' = quit
           /\ \A v \in Slots \ {front_index(d)} :
                d.win[v].used => d'.win[v].used
           /\ EditQuit => ~ unsaved(d, front_index(d))
<1>. DEFINE w == front_index(d)   new == close_window(d, w)
<1>1. /\ quit = "no" /\ mouse \in Mice /\ mouse.mode = "idle" /\ Settled
      /\ ~ Alerted /\ FrontKind(d) = "text"
  BY TypedAtRest DEF EditQuit, EditDiscard
<1>2. w \in Slots /\ d.win[w].used /\ d.win[w].kind = "text"
  BY <1>1, FrontLive
<1>3. /\ Sound(new) /\ AlertSound(new) /\ Housed(new, procs)
      /\ \A v \in Slots \ {w} : d.win[v].used => new.win[v].used
  BY <1>1, <1>2, TextClosed DEF Settled, Alerted
<1>4. d' = new /\ mouse' = mouse /\ procs' = procs /\ quit' = quit
  BY DEF EditQuit, EditDiscard, Only
<1>5. EditQuit => ~ unsaved(d, w)
  BY DEF EditQuit
<1>. HIDE DEF new
<1>. QED
  BY <1>1, <1>3, <1>4, <1>5 DEF DeskInv, Holding

(* :w and :wq *)
LEMMA EditWriteInv ==
    ASSUME ~ Hasty, DeskInv, EditWrite
    PROVE  DeskInv' /\ quit' = quit
<1>. DEFINE w == front_index(d)
            dk == disk \cup {d.win[w].path}
            plain == [d EXCEPT !.win[w].modified = FALSE]
            saved == reload_path(plain, dk, "root")
            closed == close_window(saved, w)
<1>1. /\ quit = "no" /\ mouse \in Mice /\ mouse.mode = "idle" /\ Settled
      /\ ~ Alerted /\ FrontKind(d) = "text"
  BY TypedAtRest DEF EditWrite
<1>2. w \in Slots /\ d.win[w].used /\ d.win[w].kind = "text"
  BY <1>1, FrontLive
<1>3. \/ UNCHANGED <<d, mouse, procs, quit>>
      \/ \E dd \in {saved, closed} :
           Finish([Leaves(dd) EXCEPT !.disk = dk], mouse)
  BY DEF EditWrite
<1>. HIDE DEF w, dk
<1>4. Keeps(d, plain) /\ plain.alert = d.alert /\ SameUse(d.win, plain.win)
  BY <1>1, <1>2, ModifiedKeeps DEF Settled
<1>. HIDE DEF plain
<1>5. /\ Keeps(plain, saved) /\ saved.alert = plain.alert
      /\ SameUse(plain.win, saved.win)
  BY <1>4, ReloadKeeps DEF Keeps
<1>. HIDE DEF saved
<1>6. /\ Sound(saved) /\ AlertSound(saved) /\ Housed(saved, procs)
      /\ saved.alert = d.alert
  BY <1>1, <1>4, <1>5 DEF Keeps, Settled
<1>7. saved.win[w].used /\ saved.win[w].kind = "text"
  BY <1>2, <1>4, <1>5 DEF SameUse
<1>8. Sound(closed) /\ AlertSound(closed) /\ Housed(closed, procs)
  BY <1>1, <1>2, <1>6, <1>7, TextClosed DEF Alerted
<1>. HIDE DEF closed
<1>9. CASE UNCHANGED <<d, mouse, procs, quit>>
  BY <1>9 DEF DeskInv, Alerted
<1>10. CASE \E dd \in {saved, closed} :
              Finish([Leaves(dd) EXCEPT !.disk = dk], mouse)
  <2>1. PICK dd \in {saved, closed} :
               Finish([Leaves(dd) EXCEPT !.disk = dk], mouse)
    BY <1>10
  <2>2. d' = dd /\ mouse' = mouse /\ procs' = procs /\ quit' = quit
    BY <2>1 DEF Finish, Leaves
  <2>3. Sound(dd) /\ AlertSound(dd) /\ Housed(dd, procs)
    BY <1>6, <1>8
  <2>. QED
    BY <1>1, <2>2, <2>3 DEF DeskInv, Holding
<1>. QED
  BY <1>3, <1>9, <1>10

-----------------------------------------------------------------------------
(* The theorems *)

LEMMA DeskInit ==
    Init => DeskInv
<1>. SUFFICES ASSUME Init PROVE DeskInv
  OBVIOUS
<1>. DEFINE empty == [win |-> [w \in Slots |-> Unused], order |-> <<>>,
                      sel |-> NoTarget, alert |-> NoAlert, fds |-> {}]
<1>1. DeskType(empty)
  <2>1. <<>> \in Seq(Slots) /\ NoTarget \in Targets
    BY DEF NoTarget, Targets
  <2>2. [w \in Slots |-> Unused] \in [Slots -> Windows]
    BY UnusedWindow
  <2>. QED
    BY <2>1, <2>2 DEF DeskType
<1>2. \A w \in Slots : ~ empty.win[w].used
  BY UnusedWindow
<1>3. /\ empty.order = <<>> /\ empty.sel = NoTarget /\ empty.alert = NoAlert
      /\ empty.fds = {}
  OBVIOUS
<1>. HIDE DEF empty
<1>4. TermsOf(empty) = {}
  BY <1>2 DEF TermsOf
<1>5. StackedOnce(empty) /\ OwnEnds(empty) /\ Shown(empty, empty.sel)
  BY <1>2, <1>3, <1>4 DEF StackedOnce, OwnEnds, Shown, NoTarget
<1>6. Sound(empty) /\ AlertSound(empty)
  BY <1>1, <1>3, <1>5 DEF Sound, AlertSound, NoAlert, AlertKinds
<1>7. procs \in Procs /\ Housed(empty, procs)
  BY DEF Init, Procs, Housed, NoShell
<1>8. d = open_folder(empty, disk, "root")
  BY DEF Init, empty
<1>9. Sound(d) /\ AlertSound(d) /\ Housed(d, procs)
  BY <1>6, <1>7, <1>8, OpenFolderKeeps DEF Keeps
<1>10. mouse \in Mice /\ mouse.mode = "idle"
  <2>1. NoTarget \in Targets /\ NoClick \in Targets
    BY DEF NoTarget, NoClick, Targets
  <2>2. "none" \in DOMAIN MenuItems \cup {"none"}
    OBVIOUS
  <2>. QED
    BY <2>1, <2>2 DEF Init, Mice, Modes
<1>. QED
  BY <1>7, <1>9, <1>10 DEF Init, DeskInv, Holding

LEMMA DeskNext ==
    ASSUME ~ Hasty, DeskInv, Next
    PROVE  /\ DeskInv'
           /\ \/ Asks
              \/ EditWrite /\ quit' = quit
              \/ EditQuit \/ EditDiscard
              \/ quit = "yes"
<1>1. CASE AlertPress
  BY <1>1, AlertPressInv
<1>2. CASE AlertRelease
  BY <1>2, AlertReleaseInv
<1>3. CASE (\E m \in DOMAIN MenuItems : PressMenuBar(m)) \/ PressOpenMenu
  BY <1>3, PressMenuInv
<1>4. CASE \E w \in Slots : PressFrame(w) \/ PressInside(w)
  BY <1>4, PressFrameInv, PressInsideInv
<1>5. CASE \E t \in IconTargets : PressIcon(t)
  BY <1>5, PressIconInv
<1>6. CASE Move
  BY <1>6, MoveInv
<1>7. CASE ReleaseMenu \/ ReleaseCloseBox \/ ReleaseOnTrash
             \/ ReleaseElsewhere
  BY <1>7, ReleaseInv
<1>8. CASE KeyAlert \/ KeyMenu \/ KeyCtrlQ \/ KeyCtrlW \/ KeyCtrlO
             \/ KeyEnter \/ KeyTyped
  BY <1>8, KeyInv
<1>9. CASE KeyCtrlC
  BY <1>9, KeyCtrlCInv
<1>10. CASE EditChange
  BY <1>10, EditChangeInv
<1>11. CASE EditWrite
  BY <1>11, EditWriteInv
<1>12. CASE EditQuit \/ EditDiscard
  BY <1>12, EditQuitInv
<1>13. CASE poll_shells
  BY <1>13, PollInv
<1>14. CASE \E p \in Shells : JobStarts(p) \/ JobEnds(p) \/ ShellExits(p)
                                \/ JobWrites(p)
  BY <1>14, ProcStepInv
<1>15. CASE Leave
  BY <1>15, LeaveInv DEF Leave
<1>. QED
  BY <1>1, <1>2, <1>3, <1>4, <1>5, <1>6, <1>7, <1>8, <1>9, <1>10, <1>11,
     <1>12, <1>13, <1>14, <1>15, Zenon DEF Next

(* DeskInv holds at every step of the desktop: the code keeps the windows, *)
(* their order, the selection, the descriptors and the shells in line.     *)
THEOREM DeskInductive ==
    ASSUME ~ Hasty
    PROVE  Spec => []DeskInv
<1>1. DeskInv /\ UNCHANGED vars => DeskInv'
  BY DEF DeskInv, vars, Alerted
<1>2. DeskInv /\ [Next]_vars => DeskInv'
  BY <1>1, DeskNext
<1>. QED
  BY <1>2, DeskInit, PTL DEF Spec

(* Pairwise disjoint pairs have twice as many members as there are pairs. *)
LEMMA PairsCount ==
    ASSUME NEW S, IsFiniteSet(S), NEW a \in [S -> Int], NEW b \in [S -> Int],
           \A s \in S : a[s] # b[s],
           \A s, t \in S : s # t => {a[s], b[s]} \cap {a[t], b[t]} = {}
    PROVE  Cardinality(UNION {{a[s], b[s]} : s \in S}) = 2 * Cardinality(S)
<1>. DEFINE P == S \X (1 .. 2)
            T == UNION {{a[s], b[s]} : s \in S}
            f == [x \in P |-> IF x[2] = 1 THEN a[x[1]] ELSE b[x[1]]]
<1>1. IsFiniteSet(P) /\ Cardinality(P) = Cardinality(S) * 2
  <2>1. IsFiniteSet(1 .. 2) /\ Cardinality(1 .. 2) = 2
    <3>1. ASSUME NEW n \in Int
          PROVE  /\ IsFiniteSet(1 .. n)
                 /\ Cardinality(1 .. n) = IF 1 > n THEN 0 ELSE n - 1 + 1
      BY FS_Interval
    <3>2. 2 \in Int /\ ~ (1 > 2)
      OBVIOUS
    <3>3. Cardinality(1 .. 2) = 2 - 1 + 1 /\ IsFiniteSet(1 .. 2)
      BY <3>1, <3>2
    <3>4. 2 - 1 + 1 = 2
      OBVIOUS
    <3>. QED
      BY <3>3, <3>4, Zenon
  <2>. DEFINE I == 1 .. 2
  <2>. HIDE DEF I
  <2>2. IsFiniteSet(I) /\ Cardinality(I) = 2
    BY <2>1 DEF I
  <2>3. /\ IsFiniteSet(S \X I)
        /\ Cardinality(S \X I) = Cardinality(S) * Cardinality(I)
    BY <2>2, FS_Product
  <2>. QED
    BY <2>2, <2>3 DEF I
<1>2. \A x \in P : x[1] \in S /\ x[2] \in {1, 2} /\ x = <<x[1], x[2]>>
  OBVIOUS
<1>3. \A s \in S : <<s, 1>> \in P /\ <<s, 2>> \in P
  OBVIOUS
<1>4. \A x \in P : f[x] = IF x[2] = 1 THEN a[x[1]] ELSE b[x[1]]
  OBVIOUS
<1>5. f \in [P -> T]
  <2>1. ASSUME NEW x \in P PROVE f[x] \in T
    <3>1. f[x] \in {a[x[1]], b[x[1]]} /\ x[1] \in S
      BY <1>2, <1>4
    <3>. HIDE DEF f, P
    <3>. QED
      BY <3>1
  <2>. HIDE DEF T, P
  <2>. QED
    BY <2>1
<1>. HIDE DEF f, P
<1>6. ASSUME NEW x \in P, NEW y \in P, f[x] = f[y] PROVE x = y
  <2>1. f[x] \in {a[x[1]], b[x[1]]} /\ f[y] \in {a[y[1]], b[y[1]]}
    BY <1>2, <1>4
  <2>2. x[1] = y[1]
    BY <1>2, <1>6, <2>1
  <2>3. x[2] = y[2]
    <3>1. a[x[1]] # b[x[1]]
      BY <1>2
    <3>2. f[x] = IF x[2] = 1 THEN a[x[1]] ELSE b[x[1]]
      BY <1>4
    <3>3. f[y] = IF y[2] = 1 THEN a[x[1]] ELSE b[x[1]]
      BY <1>4, <2>2
    <3>4. x[2] = 1 \/ x[2] = 2
      BY <1>2
    <3>5. y[2] = 1 \/ y[2] = 2
      BY <1>2
    <3>. QED
      BY <1>6, <3>1, <3>2, <3>3, <3>4, <3>5
  <2>. QED
    BY <1>2, <2>2, <2>3
<1>7. ASSUME NEW t \in T PROVE \E x \in P : f[x] = t
  <2>1. PICK s \in S : t \in {a[s], b[s]}
    OBVIOUS
  <2>2. f[<<s, 1>>] = a[s] /\ f[<<s, 2>>] = b[s]
    BY <1>3, <1>4, SMTT(30)
  <2>. QED
    BY <1>3, <2>1, <2>2
<1>8. ExistsBijection(P, T)
  <2>1. f \in Bijection(P, T)
    BY <1>5, <1>6, <1>7
       DEF Bijection, Injection, Surjection, IsInjective
  <2>. QED
    BY <2>1 DEF ExistsBijection
<1>9. Cardinality(T) = Cardinality(P)
  <2>. HIDE DEF T
  <2>. QED
    BY <1>1, <1>8, FS_Bijection
<1>10. Cardinality(S) \in Nat
  BY FS_CardinalityType
<1>. QED
  BY <1>1, <1>9, <1>10

(* A window referred to is a window in use: the stacking order, the        *)
(* selection and the mouse (close_window, bring_to_front, load_dir,        *)
(* on_release).                                                            *)
THEOREM WindowsStayLive ==
    ASSUME ~ Hasty
    PROVE  Spec => []WindowsLive
<1>1. ASSUME DeskInv PROVE WindowsLive
  <2>1. OrderIsUsed
    <3>1. d.order \in Seq(Slots) /\ StackedOnce(d)
      BY <1>1 DEF DeskInv, Sound, DeskType
    <3>2. Range(d.order) = {w \in Slots : d.win[w].used}
      BY <3>1 DEF StackedOnce, Stacked, Range
    <3>. QED
      BY <3>1, <3>2 DEF OrderIsUsed, StackedOnce, IsInjective
  <2>2. SelectionLive
    BY <1>1 DEF DeskInv, Sound, Shown, SelectionLive
  <2>3. ModeHeld
    BY <1>1 DEF DeskInv, Holding, Shown, ModeHeld
  <2>. QED
    BY <2>1, <2>2, <2>3 DEF WindowsLive
<1>. QED
  BY <1>1, DeskInductive, PTL

(* The descriptors the desktop holds are the two ends of each shell window *)
(* (open_shell, close_window).                                             *)
THEOREM DescriptorsAccounted ==
    ASSUME ~ Hasty
    PROVE  Spec => []DescriptorsMatch
<1>1. ASSUME DeskInv PROVE DescriptorsMatch
  <2>1. TermWindows = TermsOf(d)
    BY DEF TermWindows, TermsOf
  <2>. DEFINE S == TermsOf(d)
              a == [w \in S |-> d.win[w].to]
              b == [w \in S |-> d.win[w].from]
  <2>2. IsFiniteSet(S)
    <3>1. IsFiniteSet(Slots)
      BY FS_Interval DEF Slots
    <3>2. S \in SUBSET Slots
      BY DEF TermsOf
    <3>. QED
      BY <3>1, <3>2, FS_Subset
  <2>3. OwnEnds(d)
    BY <1>1 DEF DeskInv, Sound
  <2>4. \A w \in S : d.win[w].to \in Int /\ d.win[w].from \in Int
    BY <1>1 DEF DeskInv, Sound, DeskType, Windows, TermsOf
  <2>. HIDE DEF S
  <2>5. a \in [S -> Int] /\ b \in [S -> Int]
    BY <2>4
  <2>6. \A w \in S : /\ a[w] = d.win[w].to /\ b[w] = d.win[w].from
                     /\ EndsOf(d, w) = {a[w], b[w]}
    BY DEF EndsOf
  <2>. HIDE DEF a, b
  <2>7. \A w \in S : a[w] # b[w]
    BY <2>3, <2>6 DEF OwnEnds, S
  <2>8. \A v, w \in S : v # w => {a[v], b[v]} \cap {a[w], b[w]} = {}
    <3>1. \A v, w \in S : v # w => EndsOf(d, v) \cap EndsOf(d, w) = {}
      BY <2>3 DEF OwnEnds, S
    <3>. QED
      BY <2>6, <3>1
  <2>9. Cardinality(UNION {{a[w], b[w]} : w \in S}) = 2 * Cardinality(S)
    BY <2>2, <2>5, <2>7, <2>8, PairsCount
  <2>10. d.fds = UNION {{a[w], b[w]} : w \in S}
    <3>1. \A f \in d.fds : \E w \in S : f \in {a[w], b[w]}
      BY <2>3, <2>6 DEF OwnEnds, S
    <3>2. \A w \in S : {a[w], b[w]} \subseteq d.fds
      BY <2>3, <2>6 DEF OwnEnds, S
    <3>. QED
      BY <3>1, <3>2
  <2>11. UNION {{d.win[w].to, d.win[w].from} : w \in S}
           = UNION {{a[w], b[w]} : w \in S}
    BY <2>6
  <2>. QED
    BY <2>1, <2>9, <2>10, <2>11 DEF DescriptorsMatch, S
<1>. QED
  BY <1>1, DeskInductive, PTL

(* A shell that lives has a window, also after a failed start and after    *)
(* quitting (open_shell, close_window, poll_shells).                       *)
THEOREM ShellsHoused ==
    ASSUME ~ Hasty
    PROVE  Spec => []ShellsHaveWindows
<1>1. DeskInv => ShellsHaveWindows
  BY DEF DeskInv, Housed, ShellsHaveWindows, TermWindows, TermsOf
<1>. QED
  BY <1>1, DeskInductive, PTL

(* A window with changes closes, and the desktop quits over one, only      *)
(* after the user said so (request_close, close_all, request_quit,         *)
(* poll_shells).                                                           *)
THEOREM ChangesAreAsked ==
    ASSUME ~ Hasty
    PROVE  Spec => ChangesAsked
<1>. DEFINE Step ==
       /\ \A w \in Slots :
            d.win[w].used /\ unsaved(d, w) /\ ~d'.win[w].used =>
                \/ EditWrite
                \/ d.alert.kind = "discard" /\ d.alert.arg = <<w>>
                \/ EditDiscard /\ w = front_index(d)
                \/ quit = "yes"
       /\ quit = "no" /\ quit' = "yes" /\ AnyUnsaved(d)
            => d.alert.kind = "quit"
<1>1. ASSUME DeskInv, Next PROVE Step
  <2>1. CASE Asks
    BY <2>1 DEF Asks, LeftOpen
  <2>2. CASE EditWrite /\ quit' = quit
    BY <2>2
  <2>3. CASE EditQuit \/ EditDiscard
    <3>1. /\ quit' = quit
          /\ \A v \in Slots \ {front_index(d)} :
               d.win[v].used => d'.win[v].used
          /\ EditQuit => ~ unsaved(d, front_index(d))
      BY <1>1, <2>3, EditQuitInv
    <3>. QED
      BY <2>3, <3>1
  <2>4. CASE quit = "yes"
    BY <2>4
  <2>. QED
    BY <1>1, <2>1, <2>2, <2>3, <2>4, DeskNext
<1>. HIDE DEF Step
<1>2. DeskInv /\ [Next]_vars => [Step]_vars
  BY <1>1
<1>3. ChangesAsked <=> [][Step]_vars
  BY DEF ChangesAsked, Step
<1>. QED
  BY <1>2, <1>3, DeskInductive, PTL DEF Spec
=============================================================================
