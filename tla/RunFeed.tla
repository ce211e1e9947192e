------------------------------- MODULE RunFeed -------------------------------
(***************************************************************************)
(* What the live view promises about a run, whatever happens to its        *)
(* connections: a page sees events of the run in the order they happened,  *)
(* none twice and possibly not all, and nothing happens after the terminal *)
(* event ("SSE is a best-effort progress transport", docs/ARCHITECTURE.md, *)
(* the dashboard section).                                                 *)
(***************************************************************************)
EXTENDS Naturals

CONSTANT Feeds

VARIABLES
    emitted,  \* per run: how many events happened
    ended,    \* per run: whether the terminal event happened
    shown     \* per run: the last event the page has shown

feedVars == <<emitted, ended, shown>>

FeedInit ==
    /\ emitted = [f \in Feeds |-> 0]
    /\ ended = [f \in Feeds |-> FALSE]
    /\ shown = [f \in Feeds |-> 0]

Emit(f) ==
    /\ ~ended[f]
    /\ emitted'[f] \in Nat /\ emitted'[f] > emitted[f]
    /\ emitted' = [emitted EXCEPT ![f] = emitted'[f]]
    /\ \E last \in BOOLEAN : ended' = [ended EXCEPT ![f] = last]
    /\ UNCHANGED shown

Show(f) ==
    /\ \E i \in shown[f] + 1 .. emitted[f] : shown' = [shown EXCEPT ![f] = i]
    /\ UNCHANGED <<emitted, ended>>

FeedNext == \E f \in Feeds : Emit(f) \/ Show(f)

FeedSpec == FeedInit /\ [][FeedNext]_feedVars
=============================================================================
