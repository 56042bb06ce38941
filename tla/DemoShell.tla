------------------------------ MODULE DemoShell ------------------------------
(***************************************************************************)
(* The shell around every page, in windows that share one localStorage.   *)
(* It shows a language and a theme, starts with its defaults, and two      *)
(* effects keep it in step with the store: one reads both keys when the    *)
(* shell mounts, the other writes both keys after every change, the mount  *)
(* included.  The link bar consists of plain anchors, so that following    *)
(* one loads the shell again; links inside a page leave it alone.  Windows *)
(* are processes of their own: each read and write of a key is a step.     *)
(***************************************************************************)
EXTENDS Naturals

CONSTANTS Windows  \* the windows of the browser

Languages == {"en", "ar"}
Themes == {"light", "dark"}
Default == [lang |-> "en", theme |-> "light"]

VARIABLES
  win,        \* per window: phase, the pair it shows, the pair it has read
  stored,     \* the two keys, "none" where a key was never written
  blocked,    \* storage throws, as in private browsing
  chosen,     \* ghost: the pair the reader saw after the last choice
  fresh,      \* ghost: windows whose shell was loaded, or chosen in, since the last choice
  undisturbed \* ghost: no window has got in the way of that choice

shellVars == <<win, stored, blocked, chosen, fresh, undisturbed>>

Value(v, fallback) == IF v = "none" THEN fallback ELSE v
StoredPair == [lang |-> Value(stored.lang, Default.lang), theme |-> Value(stored.theme, Default.theme)]

Closed == [phase |-> "closed", shows |-> Default, read |-> Default]

ShellInit ==
  /\ win = [w \in Windows |-> Closed]
  /\ stored \in {[lang |-> "none", theme |-> "none"], [lang |-> "ar", theme |-> "dark"]}
  /\ blocked \in BOOLEAN
  /\ chosen = StoredPair
  /\ fresh = {}
  /\ undisturbed = TRUE

Settled(w) == win[w].phase \in {"closed", "ready"}
Writing(w) == win[w].phase \in {"setLang", "setTheme"}
NotWhileWritten(w) ==
  undisturbed' = (undisturbed /\ \A v \in Windows \ {w} : ~Writing(v))
Phase(w, phase) == win' = [win EXCEPT ![w].phase = phase]

\* A window is opened, or a link of the bar is followed: a new document whose
\* shell shows the defaults until its effects have run.
Load(w) ==
  /\ win' = [win EXCEPT ![w] = [Closed EXCEPT !.phase = "getLang"]]
  /\ fresh' = fresh \cup {w}
  /\ undisturbed' = (undisturbed /\ ~Writing(w))
  /\ UNCHANGED <<stored, blocked, chosen>>

Close(w) ==
  /\ win[w].phase # "closed"
  /\ win' = [win EXCEPT ![w] = Closed]
  /\ undisturbed' = (undisturbed /\ ~Writing(w))
  /\ UNCHANGED <<stored, blocked, chosen, fresh>>

\* The effect of the mount reads one key, then the other.
GetLang(w) ==
  /\ win[w].phase = "getLang"
  /\ win' = [win EXCEPT ![w].phase = "getTheme",
                        ![w].read.lang = IF blocked THEN Default.lang ELSE StoredPair.lang]
  /\ NotWhileWritten(w)
  /\ UNCHANGED <<stored, blocked, chosen, fresh>>

\* mutant: the writing effect of the mount comes first, the reading one finds the defaults
GetThemeLate(w) ==
  /\ win[w].phase = "getTheme"
  /\ win' = [win EXCEPT ![w].phase = "setLang", ![w].read = Default]
  /\ NotWhileWritten(w)
  /\ UNCHANGED <<stored, blocked, chosen, fresh>>

\* The state it sets is shown only at the next render: the writing effect of
\* the same commit still has the defaults.
GetTheme(w) ==
  /\ win[w].phase = "getTheme"
  /\ win' = [win EXCEPT ![w].phase = "setLang",
                        ![w].read.theme = IF blocked THEN Default.theme ELSE StoredPair.theme]
  /\ NotWhileWritten(w)
  /\ UNCHANGED <<stored, blocked, chosen, fresh>>

\* The effect after every change writes both keys; when the first throws, the
\* second is not tried, and the shell goes on without.
SetLang(w) ==
  /\ win[w].phase = "setLang"
  /\ stored' = IF blocked THEN stored ELSE [stored EXCEPT !.lang = win[w].shows.lang]
  /\ Phase(w, "setTheme")
  /\ UNCHANGED <<blocked, chosen, fresh, undisturbed>>

\* What the mount has read and the shell does not show yet is rendered now,
\* and runs the effect once more.
SetTheme(w) ==
  /\ win[w].phase = "setTheme"
  /\ stored' = IF blocked THEN stored ELSE [stored EXCEPT !.theme = win[w].shows.theme]
  /\ win' = [win EXCEPT ![w].phase = IF win[w].read = win[w].shows THEN "ready" ELSE "setLang",
                        ![w].shows = win[w].read]
  /\ UNCHANGED <<blocked, chosen, fresh, undisturbed>>

\* A click that leaves the state as it is runs no effect.  A choice in a
\* window that shows an older value of the other key writes that one too.
Choose(w, key, value) ==
  /\ win[w].phase = "ready"
  /\ win[w].shows[key] # value
  /\ win' = [win EXCEPT ![w].phase = "setLang", ![w].shows[key] = value, ![w].read[key] = value]
  /\ chosen' = win'[w].shows
  /\ fresh' = {w} \cup {v \in Windows : win[v].phase = "getLang"}
  /\ undisturbed' = \A v \in Windows \ {w} : Settled(v) \/ win[v].phase = "getLang"
  /\ UNCHANGED <<stored, blocked>>

ChooseLanguage(w) == \E lang \in Languages : Choose(w, "lang", lang)
ToggleTheme(w) == \E theme \in Themes : Choose(w, "theme", theme)

ShellNext ==
  \E w \in Windows :
    \/ Load(w) \/ Close(w)
    \/ GetLang(w) \/ GetTheme(w) \/ SetLang(w) \/ SetTheme(w)
    \/ ChooseLanguage(w) \/ ToggleTheme(w)

ShellSpec == ShellInit /\ [][ShellNext]_shellVars

\* What a reader has chosen survives every page that follows, in all windows:
\* though each mount writes the defaults over the stored pair before it shows
\* what it has read, the store holds the pair of the last choice as soon as no
\* shell writes, and every shell loaded since shows it, also when several are
\* at work at once.  What can lose the choice is a page that reads a key while
\* another window writes, one that is left while it writes, or one that was
\* still between its reads and its writes when the choice was made.  Nothing
\* is claimed after that, until a choice none of these overlaps.
LastChoiceSurvives ==
  undisturbed /\ ~blocked =>
    /\ (\A w \in Windows : ~Writing(w)) => StoredPair = chosen
    /\ \A w \in fresh : win[w].phase = "ready" => win[w].shows = chosen
=============================================================================
