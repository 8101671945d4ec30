------------------------------- MODULE MCWeb -------------------------------
(***************************************************************************)
(* Instances of the site for TLC.                                          *)
(***************************************************************************)
EXTENDS WebProperties

Nothing == [act \in Acts |-> 0]

\* Two intents over a failing network; one broadcast twice and reloaded; one
\* while the operators leave; a reader who changes wallets while timers fire;
\* visits to the landing page, to log in, to scroll, or to watch.
MCBudgets ==
    { [Nothing EXCEPT !.posts = 2, !.broadcasts = 2, !.faults = 1],
      [Nothing EXCEPT !.posts = 1, !.broadcasts = 2, !.others = 1, !.reloads = 1],
      [Nothing EXCEPT !.posts = 2, !.faults = 1, !.others = 1],
      [Nothing EXCEPT !.posts = 1, !.connects = 1, !.shows = 1, !.switches = 1],
      [Nothing EXCEPT !.shows = 1, !.connects = 2, !.switches = 1, !.ticks = 1,
                      !.others = 1],
      [Nothing EXCEPT !.shows = 1, !.ticks = 1, !.faults = 1, !.others = 2],
      [Nothing EXCEPT !.reloads = 2, !.connects = 3, !.switches = 1, !.shows = 1],
      [Nothing EXCEPT !.reloads = 2, !.scrolls = 3],
      [Nothing EXCEPT !.reloads = 1, !.periods = 2] }
=============================================================================
