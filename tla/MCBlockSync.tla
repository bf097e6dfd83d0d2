----------------------------- MODULE MCBlockSync -----------------------------
(***************************************************************************)
(* Instances of BlockSynchronizer for TLC.                                 *)
(***************************************************************************)
EXTENDS BlockSynchronizer

\* One reorganisation and one lost message.
Reorg ==
    [size |-> 9, parts |-> 0, blocks |-> 4, reorgs |-> 1, settle |-> 0,
     queue |-> 1, lost |-> 1, dead |-> 0, stale |-> 0]

\* A history of two blocks with streams that end and go stale; longer queues; and
\* partial blocks.
SafetyScenarios ==
    {[Reorg EXCEPT !.size = 2, !.dead = 1, !.stale = 1],
     [Reorg EXCEPT !.blocks = 5, !.queue = 2],
     [Reorg EXCEPT !.parts = 2, !.blocks = 5]}

LiveScenarios == {[Reorg EXCEPT !.settle = 1]}

=============================================================================
