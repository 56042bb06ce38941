-------------------------------- MODULE MCDemo --------------------------------
(***************************************************************************)
(* The demo half in one run: the shell in two windows, a reader walking    *)
(* through the pages, and the picture and the list of each page that has   *)
(* both, for the organizations of both tenants and all small ones.  The    *)
(* three share no state, so that it suffices to let one of them move.      *)
(***************************************************************************)
EXTENDS DemoShell

CONSTANT Ids  \* the numbers organization nodes may have as ids

VARIABLES app, page, palette, sheet, org

Views == INSTANCE PairedViews

DemoInit ==
  /\ ShellInit
  /\ Views!Init
  /\ org \in Views!Projections \cup {Views!Istemer, Views!Northwind}

\* The pictures are compared as they are drawn; what moves, moves beside the
\* smallest of them, the reader before any window of the shell is opened.
Smallest == org.nodes = {} /\ org.edges = {}
ShellSteps == Smallest /\ Views!Init /\ ShellNext /\ UNCHANGED <<app, page, palette, sheet, org>>
ReaderSteps == Smallest /\ fresh = {} /\ Views!Next /\ UNCHANGED <<shellVars, org>>

DemoNext == ShellSteps \/ ReaderSteps

DemoSpec == DemoInit /\ [][DemoNext]_<<shellVars, app, page, palette, sheet, org>>

EveryLinkResolves == Views!EveryLinkResolves
BothViewsAgree == Views!BothViewsAgree
=============================================================================
