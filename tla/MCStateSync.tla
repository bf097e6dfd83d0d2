----------------------------- MODULE MCStateSync -----------------------------
(***************************************************************************)
(* Instances of StateSynchronizer for TLC.                                 *)
(***************************************************************************)
EXTENDS StateSynchronizer

\* One component, a few full blocks, and nothing goes wrong.
Quiet ==
    [comps |-> {"c"}, parts |-> 0, hold |-> FALSE, clears |-> FALSE,
     failKinds |-> {"transient", "permanent"},
     messages |-> 4, reorgs |-> 0, closes |-> 0, fails |-> 0, tvl |-> 0, inbox |-> 1]

\* Components come and go and snapshot tasks fail, with full and with partial
\* blocks; a stream lags; slots are cleared; a task panics; the connection is lost;
\* the chain is reorganised.
MCScenarios ==
    {[Quiet EXCEPT !.comps = {"c", "d"}, !.tvl = 2, !.fails = 1],
     [Quiet EXCEPT !.parts = 2, !.messages = 9, !.tvl = 2, !.fails = 1],
     [Quiet EXCEPT !.comps = {"c", "d"}, !.hold = TRUE, !.tvl = 1],
     [Quiet EXCEPT !.comps = {"c", "d"}, !.clears = TRUE, !.messages = 3, !.tvl = 1],
     [Quiet EXCEPT !.failKinds = {"dropped"}, !.tvl = 3, !.fails = 1],
     [Quiet EXCEPT !.closes = 2, !.fails = 2, !.inbox = 2],
     [Quiet EXCEPT !.reorgs = 2, !.fails = 1, !.inbox = 2]}

=============================================================================
