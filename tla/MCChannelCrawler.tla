-------------------------- MODULE MCChannelCrawler --------------------------
(***************************************************************************)
(* Instances of the channel crawler for TLC.                               *)
(***************************************************************************)
EXTENDS ChannelCrawler, TLC

\* The goroutines run the same loop.
WorkerSymmetry == Permutations(Worker)

=============================================================================
